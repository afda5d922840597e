------------------------------ MODULE MCAccounts ------------------------------
(* Instances of Accounts.                                                  *)
EXTENDS Accounts

CONSTANTS ann, bob, editors, tasks, notes

A(kind, by, at) ==
    [kind |-> kind, by |-> by, of |-> Nobody, at |-> at, super |-> FALSE,
     col |-> NULL, doc |-> NULL, role |-> NULL, add |-> FALSE, rule |-> {}]

Writes(by, col, doc, at) ==
    [A("write", by, at) EXCEPT !.col = <<col>>, !.doc = <<doc>>]
Signs(by, at) == [A("user", by, at) EXCEPT !.of = by]
Sets(by, col, role, at) ==
    [A("policy", by, at) EXCEPT !.col = col, !.doc = <<"p", at>>, !.role = role,
                                !.rule = {<<a, role>> : a \in Actions}]
Role(by, of, add, at) ==
    [A("role", by, at) EXCEPT !.of = of, !.role = editors, !.add = add]

Opens(by, col, at) == Sets(by, col, EVERYONE, at)

Of(sent, retries, deaths) ==
    [batches |-> sent, tries |-> retries, crashes |-> deaths]

Team == {Signs(ann, 1), Signs(bob, 2)}
Opened(by) == << {Signs(by, 1)}, {Opens(by, ALL, 2)} >>
OnlyAnn == Opened(ann) \o << {Sets(ann, USER, ann, 3)} >>

MCScenarios ==
    { \* two new users at the same time, who share a collection
      Of(<< Team, {Writes(ann, tasks, "a", 3), Writes(bob, tasks, "b", 4)} >>,
         1, 0),
      \* a new user writes to two collections at the same time
      Of(<< {Writes(ann, tasks, "a", 1), Writes(ann, notes, "b", 2)} >>, 1, 0),
      \* or twice to one that is not there yet
      Of(Opened(ann) \o << {Writes(ann, tasks, "a", 3),
                            Writes(ann, tasks, "b", 4)} >>, 1, 0),
      \* somebody who is not logged in, at the same time as a new user
      Of(<< {Writes(Nobody, tasks, "a", 1), Writes(ann, tasks, "b", 2)} >>,
         1, 0),
      \* a process dies over the first change of a user
      Of(<< {Signs(ann, 1)}, {Writes(ann, tasks, "a", 2)} >>, 3, 1),
      \* only ann may create users; another server knows one more
      Of(OnlyAnn \o << {[Writes(bob, tasks, "b", 4) EXCEPT !.super = TRUE],
                        Writes(ann, tasks, "a", 5)} >>, 1, 0),
      \* bob is given a role, and loses it, and processes die over it
      Of(Opened(bob) \o << {Role(bob, bob, TRUE, 3)},
                           {Role(bob, bob, FALSE, 4)} >>, 3, 1),
      \* ann does it, who is permitted, and then is not: by the policy of
      \* the users of the role, or by that of the roles of bob, which may
      \* change between the preparation and the recording
      Of(Opened(ann) \o << {Opens(ann, UserRolesCol(bob), 3)},
                           {Opens(ann, RoleUsersCol(editors), 4)},
                           {Role(ann, bob, TRUE, 5), Role(ann, bob, FALSE, 6)},
                           {Sets(bob, RoleUsersCol(editors), bob, 7)},
                           {Role(ann, bob, TRUE, 8)} >>, 1, 0),
      Of(Opened(ann) \o << {Opens(ann, UserRolesCol(bob), 3)},
                           {Opens(ann, RoleUsersCol(editors), 4)},
                           {Role(ann, bob, TRUE, 5)},
                           {Sets(bob, UserRolesCol(bob), bob, 7),
                            Role(ann, bob, FALSE, 8)} >>, 1, 0),
      \* a new user is given a role
      Of(<< {Signs(ann, 1)}, {Role(ann, bob, TRUE, 2)} >>, 2, 0),
      \* users who may not be created, and a role that there is not
      Of(OnlyAnn \o << {Role(Nobody, bob, TRUE, 5)}, {Role(ann, ann, TRUE, 6)},
                       {Role(Nobody, bob, TRUE, 7)},
                       {Role(bob, ann, FALSE, 8)} >>, 1, 0),
      Of(OnlyAnn \o << {Role(Nobody, bob, FALSE, 5)} >>, 1, 0),
      Of(Opened(ann) \o << {Role(ann, ann, FALSE, 5)} >>, 1, 0),
      \* a user is made by another
      Of(<< {[Signs(bob, 1) EXCEPT !.by = ann]} >>, 1, 0),
      \* a profile is changed twice, and processes die over it
      Of(<< {Signs(ann, 1)}, {Signs(ann, 3), Signs(ann, 2)} >>, 3, 1) }

(* Bob has the role; it is removed, and then an older addition arrives.    *)
(* With it and InOrder = FALSE LastChangeWins does not hold.               *)
LateAddition ==
    { Of(Opened(bob) \o << {Role(bob, bob, TRUE, 3)},
                           {Role(bob, bob, TRUE, 4), Role(bob, bob, FALSE, 5)}
                        >>, 1, 0) }
==============================================================================
