------------------------------- MODULE Policies -------------------------------
(***************************************************************************)
(* Policies are changes like others (the attribute $policy of a document   *)
(* of the collection).  Recorded in LATEST, each is put into the table     *)
(* col_roles by Policy.setPolicy (scripts/partitioner/sql): select the     *)
(* rows of the collection, insert what is new, then destroy what is left   *)
(* over; every one of these is a statement of its own, and the permission  *)
(* checks of other changes run in between.                                 *)
(*                                                                         *)
(* Several Node processes may handle the same record of the queue, and die *)
(* while they do.  A policy is the only one of its document here, so that  *)
(* it is put in force whenever it is processed.  The ids of the roles are  *)
(* there (Accounts creates them), and so are users.                        *)
(***************************************************************************)
EXTENDS PolicyRules, Naturals, FiniteSets, Sequences

CONSTANTS Workers,      \* Node processes
          Policy,       \* Policy[i]: the i-th policy that is set: the
                        \* collection it is on and what it says, col and
                        \* attrs; i is its updated_at
          Col, ALL,     \* a collection, and the database as a collection
          Subjects,     \* users: [user, enabled, roles]
          Owner,        \* the user whose document is accessed
          Names,        \* its attributes
          Checked,      \* whose updates of which attribute are checked
          Blocking,     \* a policy is sent when the last one is in force
          Crashes       \* bound: Node processes that die

UPDATE == "update_"
Times == 1..Len(Policy)
RuleOf(i) == RoleActions(Policy[i])

ASSUME PoliciesAssumption ==
    /\ Len(Policy) \in Nat
    /\ \A i \in Times : /\ Policy[i].on \in {Col, ALL}
                       /\ NULL \notin DOMAIN Policy[i].attrs
    /\ \A s \in Subjects : IsSubject(s)
    /\ Blocking \in BOOLEAN /\ Crashes \in Nat
    /\ NULL \notin Names /\ Col # ALL
    /\ Checked \subseteq Subjects \X Names

VARIABLES colRoles, \* the rows: [col, name, role, action, updated, id]
          sent,     \* the number of policies sent
          queue,    \* the policies that have a queue record
          chain,    \* chain[w]: the policy the worker sets, and what is left
          check,    \* a permission check under way
          crashes

vars == <<colRoles, sent, queue, chain, check, crashes>>

Free    == [pc |-> "free", policy |-> 0, new |-> {}, known |-> {}, old |-> {}]
NoCheck == [pc |-> "none"]

Init == /\ colRoles = {} /\ sent = 0 /\ queue = {}
        /\ chain = [w \in Workers |-> Free]
        /\ check = NoCheck
        /\ crashes = Crashes

InForce == queue = {} /\ \A w \in Workers : chain[w] = Free

(* The last policy sent for a collection; 0 when there is none.            *)
Sent(col, n) == {i \in 1..n : Policy[i].on = col}
Latest(S) == IF S = {} THEN 0 ELSE CHOOSE i \in S : \A j \in S : j <= i
Last(col, n) == Latest(Sent(col, n))
NoPolicy == [col |-> [a \in {} |-> {}], attrs |-> [n \in {} |-> {}]]
Says(i) == IF i = 0 THEN NoPolicy ELSE Policy[i]

(* A check under way sees one more policy.                                 *)
Witness(i) == IF check = NoCheck \/ Policy[i].on # Col THEN check
              ELSE [check EXCEPT !.during = @ \cup {i}]

SendPolicy ==
    /\ sent < Len(Policy)
    /\ Blocking => InForce
    /\ sent' = sent + 1 /\ queue' = queue \cup {sent + 1}
    /\ check' = Witness(sent + 1)
    /\ UNCHANGED <<colRoles, chain, crashes>>

-----------------------------------------------------------------------------
(* Attr.setOptions, Policy.setPolicy: the change has been recorded.        *)
Start(w, i) ==
    /\ chain[w] = Free /\ i \in queue
    /\ chain' = [chain EXCEPT ![w].pc = "select", ![w].policy = i]
    /\ UNCHANGED <<colRoles, sent, queue, check, crashes>>

RoleAction(row) == [name |-> row.name, action |-> row.action,
                    role |-> row.role]
RowsOf(i) == {r \in colRoles : r.col = Policy[i].on}

(* Mutant of LeftOver: what is not in the new policy stays.                *)
LeftOverNothing(i) == {}

(* setColRoles: what the policy does not say any more is destroyed ...     *)
LeftOver(i) == {r \in RowsOf(i) : RoleAction(r) \notin RuleOf(i)}

(* ... and what is not there is replaced.  A row that is there already     *)
(* keeps its updated_at.                                                   *)
Missing(i) == {ra \in RuleOf(i) : \A r \in RowsOf(i) : RoleAction(r) # ra}

GetColRoles(w) ==
    LET i == chain[w].policy
    IN  /\ chain[w].pc = "select"
        /\ chain' = [chain EXCEPT ![w].pc = "replace", ![w].new = Missing(i),
                                  ![w].old = LeftOver(i)]
        /\ UNCHANGED <<colRoles, sent, queue, check, crashes>>

(* Mutant of CreateColRole: there is no unique index.                      *)
CreateAlways(w, ra) ==
    LET i == chain[w].policy
    IN  /\ chain[w].pc = "replace" /\ ra \in chain[w].new
        /\ colRoles' = colRoles \cup
              {[col |-> Policy[i].on, name |-> ra.name, role |-> ra.role,
                action |-> ra.action, updated |-> i, id |-> <<i, w>>]}
        /\ chain' = [chain EXCEPT ![w].new = @ \ {ra}]
        /\ UNCHANGED <<sent, queue, check, crashes>>

(* replace: the insertion; rows are unique.                                *)
CreateColRole(w, ra) ==
    LET i == chain[w].policy
    IN  /\ chain[w].pc = "replace" /\ ra \in chain[w].new
        /\ \A r \in RowsOf(i) : RoleAction(r) # ra
        /\ colRoles' = colRoles \cup
              {[col |-> Policy[i].on, name |-> ra.name, role |-> ra.role,
                action |-> ra.action, updated |-> i, id |-> i]}
        /\ chain' = [chain EXCEPT ![w].new = @ \ {ra}]
        /\ UNCHANGED <<sent, queue, check, crashes>>

CreateRefused(w, ra) ==
    /\ chain[w].pc = "replace" /\ ra \in chain[w].new
    /\ \E r \in RowsOf(chain[w].policy) : RoleAction(r) = ra
    /\ chain' = [chain EXCEPT ![w].new = @ \ {ra}, ![w].known = @ \cup {ra}]
    /\ UNCHANGED <<colRoles, sent, queue, check, crashes>>

(* replace: the update.  A name that is NULL is compared with the text     *)
(* "null", which no row has.                                               *)
Updatable(r, ra, i) == /\ RoleAction(r) = ra /\ r.name # NULL
                       /\ r.updated <= i

UpdateColRole(w, ra) ==
    LET i == chain[w].policy
    IN  /\ chain[w].pc = "replace" /\ ra \in chain[w].known
        /\ colRoles' = {IF r \in RowsOf(i) /\ Updatable(r, ra, i)
                        THEN [r EXCEPT !.updated = i] ELSE r : r \in colRoles}
        /\ chain' = [chain EXCEPT ![w].known = @ \ {ra}]
        /\ UNCHANGED <<sent, queue, check, crashes>>

(* Promise.all over the replacements.                                      *)
Replaced(w) == /\ chain[w].pc = "replace"
               /\ chain[w].new = {} /\ chain[w].known = {}

(* Mutant of DestroyColRole: it does not wait for the new rows.            *)
DestroyAtOnce(w, row) ==
    /\ chain[w].pc = "replace" /\ row \in chain[w].old
    /\ colRoles' = {r \in colRoles :
                      ~(/\ r.col = row.col /\ RoleAction(r) = RoleAction(row)
                        /\ r.id = row.id /\ r.updated <= chain[w].policy)}
    /\ chain' = [chain EXCEPT ![w].old = @ \ {row}]
    /\ UNCHANGED <<sent, queue, check, crashes>>

(* destroyColRoles: by id, if it is not newer.                             *)
DestroyColRole(w, row) ==
    /\ Replaced(w) /\ row \in chain[w].old
    /\ colRoles' = {r \in colRoles :
                      ~(/\ r.col = row.col /\ RoleAction(r) = RoleAction(row)
                        /\ r.id = row.id /\ r.updated <= chain[w].policy)}
    /\ chain' = [chain EXCEPT ![w].old = @ \ {row}]
    /\ UNCHANGED <<sent, queue, check, crashes>>

(* Mutant of SetPolicyDone: the record of the queue stays.                 *)
DoneAndKept(w) ==
    /\ Replaced(w) /\ chain[w].old = {}
    /\ chain' = [chain EXCEPT ![w] = Free]
    /\ UNCHANGED <<colRoles, sent, queue, check, crashes>>

(* _processAttr: the record is destroyed when the policy is in force.      *)
SetPolicyDone(w) ==
    /\ Replaced(w) /\ chain[w].old = {}
    /\ queue' = queue \ {chain[w].policy}
    /\ chain' = [chain EXCEPT ![w] = Free]
    /\ UNCHANGED <<colRoles, sent, check, crashes>>

(* The Node process dies; the record of the queue is there for the next.   *)
Crash(w) ==
    /\ chain[w] # Free /\ crashes > 0
    /\ chain' = [chain EXCEPT ![w] = Free]
    /\ crashes' = crashes - 1
    /\ UNCHANGED <<colRoles, sent, queue, check>>

-----------------------------------------------------------------------------
(* modPermitted for an update of an attribute: is the user a super user?   *)
BeginCheck(subject, name) ==
    /\ check = NoCheck
    /\ check' =
         [pc |-> IF IsSuperUser(subject) THEN "granted" ELSE "policy",
          subject |-> subject, name |-> name,
          during |-> {Last(Col, sent)} \cup
                     (IF InForce THEN {} ELSE {Last(Col, sent - 1)})]
    /\ UNCHANGED <<colRoles, sent, queue, chain, crashes>>

Decide(answer) == /\ check' = [check EXCEPT !.pc = answer]
                  /\ UNCHANGED <<colRoles, sent, queue, chain, crashes>>

(* Has the collection a policy?  Has the attribute?                        *)
CheckPolicy ==
    /\ check.pc = "policy"
    /\ Decide(IF HasPolicy(colRoles, Col) THEN "attr" ELSE "granted")
CheckAttrPolicy ==
    /\ check.pc = "attr"
    /\ Decide(IF HasAttrPolicy(colRoles, Col, check.name)
              THEN "attrRole" ELSE "colRole")

(* Is there a role that the user has?                                      *)
Granted(level) ==
    IF HasColRole(colRoles, Col, check.subject, Owner, UPDATE, level)
    THEN "granted" ELSE "denied"
CheckRole ==
    \/ check.pc = "attrRole" /\ Decide(Granted(check.name))
    \/ check.pc = "colRole" /\ Decide(Granted(NULL))

EndCheck == /\ check.pc \in {"granted", "denied"}
            /\ check' = NoCheck
            /\ UNCHANGED <<colRoles, sent, queue, chain, crashes>>

-----------------------------------------------------------------------------
SetPolicy(w) ==
    \/ \E i \in queue : Start(w, i)
    \/ GetColRoles(w)
    \/ \E ra \in chain[w].new : CreateColRole(w, ra) \/ CreateRefused(w, ra)
    \/ \E ra \in chain[w].known : UpdateColRole(w, ra)
    \/ \E row \in chain[w].old : DestroyColRole(w, row)
    \/ SetPolicyDone(w)

Check == \/ \E c \in Checked : BeginCheck(c[1], c[2])
         \/ CheckPolicy \/ CheckAttrPolicy \/ CheckRole \/ EndCheck

Next == \/ SendPolicy
        \/ \E w \in Workers : SetPolicy(w) \/ Crash(w)
        \/ Check

Spec == Init /\ [][Next]_vars

(* Clients send their policies; process() is called again and again.       *)
FairSpec == Spec /\ WF_vars(SendPolicy)
                 /\ \A w \in Workers : WF_vars(SetPolicy(w))

-----------------------------------------------------------------------------
(* The types; and a collection has one row for a role, action and name.    *)
TypeOK ==
    /\ sent \in 0..Len(Policy) /\ queue \subseteq 1..sent
    /\ crashes \in 0..Crashes
    /\ \A r \in colRoles : /\ RoleAction(r) \in UNION {RuleOf(i) : i \in Times}
                           /\ r.col \in {Col, ALL} /\ r.updated \in 1..sent
    /\ \A r, s \in colRoles :
         r.col = s.col /\ RoleAction(r) = RoleAction(s) => r = s
    /\ \A w \in Workers :
         /\ chain[w].pc \in {"free", "select", "replace"}
         /\ chain[w].policy \in 0..sent
         /\ chain[w].pc = "free" <=> chain[w] = Free
    /\ check.pc \in {"none", "policy", "attr", "attrRole", "colRole",
                     "granted", "denied"}

(* When no policy is being put in force everybody may do what the latest   *)
(* policy of the collection says, and nothing else, whatever policies came *)
(* before it and however often a process died over it (col-roles.js:183,   *)
(* policy.js:165-247).                                                     *)
LatestDecides ==
    InForce =>
      \A s \in Subjects, n \in Names \cup {NULL}, a \in {READ, UPDATE} :
         ModPermitted(colRoles, Col, s, Owner, a, n)
            = Allows(Says(Last(Col, sent)), s, Owner, a, n)

(* Then the feed shows an attribute to those who may read it according to  *)
(* the latest policies of the collection and of the database               *)
(* (changes-query.js:114-165).                                             *)
FeedAsPoliciesSay ==
    InForce =>
      \A s \in Subjects, n \in Names :
         Shown(colRoles, Col, ALL, s, Owner, n)
            = MayRead(Says(Last(Col, sent)), Says(Last(ALL, sent)),
                      s, Owner, n)

(* A check that runs while a policy is replaced by another, where none of  *)
(* the two says anything of the attribute itself, answers as one of them   *)
(* does: the new rows are there before the old ones go.  (Next to a policy *)
(* that says nothing, as when there was none, it may deny what both        *)
(* allow.)                                                                 *)
CheckedByOldOrNew ==
    check.pc \in {"granted", "denied"} =>
       LET allows(i) == Allows(Says(i), check.subject, Owner, UPDATE,
                               check.name)
       IN  (\A i \in check.during : \A ra \in RoleActions(Says(i)) :
               ra.name # check.name)
           => IF check.pc = "granted" THEN \E i \in check.during : allows(i)
              ELSE \E i \in check.during :
                      ~allows(i) \/ RoleActions(Says(i)) = {}

(* A collection that has a policy is never without one: without rows,      *)
(* everything is permitted to everyone (policy.js:242).  Times are to      *)
(* "prevent race conditions" (col-roles.js:133, 159).                      *)
NeverUnprotected ==
    [][\A c \in {Col, ALL} : HasPolicy(colRoles, c) => HasPolicy(colRoles', c)
      ]_vars

(* Every policy is in force at last, and nothing else holds it up.         *)
AllInForce == <>[](sent = Len(Policy) /\ InForce)
==============================================================================
