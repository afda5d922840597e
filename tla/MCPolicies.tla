------------------------------ MODULE MCPolicies ------------------------------
(* Instances of Policies.                                                  *)
EXTENDS Policies

CONSTANTS ann, bob, carl, dora, editors, title, body

Ann  == [user |-> ann, enabled |-> TRUE, roles |-> {ann}]
Bob  == [user |-> bob, enabled |-> TRUE, roles |-> {bob, editors}]
MCSubjects ==
    {Ann, Bob, [user |-> Nobody, enabled |-> FALSE, roles |-> {}],
     [user |-> carl, enabled |-> FALSE, roles |-> {carl, editors}],
     [user |-> dora, enabled |-> TRUE, roles |-> {SUPER}]}
MCChecked == {<<Ann, title>>, <<Bob, body>>}
NoChecks == {}

Rule(read, update) ==
    [a \in {READ, UPDATE} |-> IF a = READ THEN read ELSE update]
NoAttrs == [n \in {} |-> {}]
Of(name, rule) == [n \in {name} |-> rule]

(* Everybody reads the database.  The collection is for its editors; then, *)
(* by rows that are all new, its owner reads it and bob, one of the        *)
(* editors, changes it, all but the title; and then it is open to updates, *)
(* bob's row being kept, and who reads it is left to the database.  The    *)
(* rows that let bob change the body before and after the second           *)
(* replacement are different ones, and no row of the collection is kept.   *)
MCPolicy ==
    << [on |-> ALL, col |-> Rule({EVERYONE}, {}), attrs |-> NoAttrs],
       [on |-> Col, col |-> Rule({editors}, {editors}), attrs |-> NoAttrs],
       [on |-> Col, col |-> Rule({OWNER}, {bob}),
        attrs |-> Of(title, Rule({bob}, {ann}))],
       [on |-> Col, col |-> Rule({}, {bob, EVERYONE}),
        attrs |-> NoAttrs] >>

(* A policy for two roles is narrowed to either of them at the same time.  *)
Narrowed ==
    << [on |-> Col, col |-> Rule({}, {editors, OWNER}), attrs |-> NoAttrs],
       [on |-> Col, col |-> Rule({}, {editors}), attrs |-> NoAttrs],
       [on |-> Col, col |-> Rule({}, {OWNER}), attrs |-> NoAttrs] >>
==============================================================================
