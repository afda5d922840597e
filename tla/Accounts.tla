------------------------------- MODULE Accounts -------------------------------
(***************************************************************************)
(* Users, roles and collections come into being with the first change that *)
(* mentions them (scripts/partitioner/sql: process.js and what it calls).  *)
(* To record a change of an unknown user, a Node process inserts the user, *)
(* the collection of the user's roles, the policies of the database and of *)
(* that collection, the role that those policies name, the collection of   *)
(* its users, and so on; each with statements of its own, without a        *)
(* transaction, while other processes do the same.                         *)
(*                                                                         *)
(* A worker is a stack of statements that are still to be executed.  Most  *)
(* calls of the program are a statement that pushes others; a statement    *)
(* that fails unwinds the stack to the handler of the error.  A process    *)
(* handles one change at a time (ProcessQueue has batches) and has two     *)
(* workers: the first prepares and records the change; a change of a role  *)
(* is split in two when it has been prepared, and the second records the   *)
(* other half at the same time.  Of the three partitions only LATEST is    *)
(* here (DocLifecycle has them all), and the values of attributes are left *)
(* out (AttrStore).                                                        *)
(***************************************************************************)
EXTENDS Naturals, FiniteSets, Sequences

CONSTANTS Processes,    \* Node processes
          Scenarios,    \* what happens: batches of changes, one sent when
                        \* the last has been handled; bounds: how often a
                        \* change is taken, and how many processes die
          InOrder,      \* changes of a user, or of a user's role, come in
                        \* order and are handled one by one
          Nobody, SUPER, OWNER, EVERYONE, NULL

INSTANCE PolicyRules

Workers == Processes \X {1, 2}
Twin(w) == <<w[1], 3 - w[2]>>

CREATE == "create_"
UPDATE == "update_"
DESTROY == "destroy_"
Actions == {CREATE, UPDATE, DESTROY}

(* The collections $all and $user, the one of the roles of a user and the  *)
(* one of the users of a role.                                             *)
ALL == <<"$all">>
USER == <<"$user">>
UserRolesCol(user) == <<"$ur", user>>
RoleUsersCol(role) == <<"$ru", role>>
Reserved == {ALL, USER, RoleUsersCol(SUPER), UserRolesCol(SUPER)}

ChangesOf(s) == UNION {s.batches[i] : i \in DOMAIN s.batches}
Everything == UNION {ChangesOf(s) : s \in Scenarios}
UUIDs == {c.by : c \in Everything} \cup {c.of : c \in Everything}

(* What changes are: of somebody, if they are of users or of their roles;  *)
(* the policies name one role of the application besides the reserved.     *)
(* Memberships of the reserved roles, and documents that are named like    *)
(* those of implicit roles, are left out.                                  *)
RoleDocOf(user) == <<"$ur", user>>
IsChange(c) ==
    /\ c.kind \in {"role", "user", "write", "policy"} /\ c.at \in Nat
    /\ c.add \in BOOLEAN
    /\ c.kind \in {"role", "user"} => c.of # Nobody
    /\ c.kind = "role" => c.role \notin {SUPER, OWNER, EVERYONE}
    /\ c.kind = "policy" =>
         \A p \in c.rule : p[2] \in {c.role, SUPER, OWNER, EVERYONE}
    /\ c.kind \in {"write", "policy"} =>
         \A u \in UUIDs : c.doc # RoleDocOf(u)

ASSUME AccountsAssumption ==
    /\ \A s \in Scenarios : /\ s.batches \in Seq(SUBSET Everything)
                            /\ s.tries \in Nat /\ s.crashes \in Nat
    /\ \A c \in Everything : IsChange(c)
    /\ {OWNER, EVERYONE} \cap UUIDs = {}
    /\ NULL \notin [made : Nat, profile : Nat]

VARIABLES users,    \* users[uuid]: its row, made and updated by changes
          roles,    \* the rows of roles: roles[id] is the uuid
          members,  \* the rows of user_roles: [user, role, doc]
          cols,     \* the names of the collections
          colRoles, \* the rows of policies, those of a collection
          docs,     \* the documents in LATEST: [id, col, owner, updated]
          batches,  \* the batches that have not been sent
          queue,    \* the changes that have a record in the queue
          work,     \* work[w]: the worker w
          tries,    \* how often a change may still be taken
          crashes,  \* how many processes may still die
          log       \* what was recorded, dropped, refused on the way, lost
                    \* with a process, and taken before its users were ready

tables == <<users, roles, members, cols, colRoles, docs>>
vars == <<tables, batches, queue, work, tries, crashes, log>>

Idle == [todo |-> <<>>]

(* createReserved: only super users change the roles of $super.            *)
ReservedRows ==
    {[col |-> c, name |-> NULL, role |-> SUPER, action |-> a] :
       c \in {RoleUsersCol(SUPER), UserRolesCol(SUPER)}, a \in Actions}

(* The reserved rows; users that exist without a row are Nobody.           *)
Init ==
    /\ users = [u \in UUIDs |-> NULL]
    /\ roles = <<>> /\ members = {} /\ cols = Reserved
    /\ colRoles = ReservedRows
    /\ docs = {} /\ queue = {}
    /\ work = [w \in Workers |-> Idle]
    /\ \E s \in Scenarios :
         /\ batches = s.batches /\ crashes = s.crashes
         /\ tries = [c \in ChangesOf(s) |-> s.tries]
    /\ log = [recorded |-> {}, dropped |-> {}, refused |-> {},
              lost |-> {}, early |-> {}, crashed |-> FALSE]

RoleIds(uuid) == IF uuid \in {OWNER, EVERYONE} THEN {uuid}
                 ELSE {i \in DOMAIN roles : roles[i] = uuid}
HasRole(user, uuid) ==
    \E m \in members : m.user = user /\ m.role \in RoleIds(uuid)

(* The user whose permissions count: servers synchronize as $super.        *)
Subject(user) == [user |-> user, enabled |-> TRUE,
                  roles |-> {m.role : m \in {x \in members : x.user = user}}]
Super == [user |-> SUPER, enabled |-> TRUE, roles |-> {SUPER}]
DocOwner(doc) == IF \E d \in docs : d.id = doc
                 THEN (CHOOSE d \in docs : d.id = doc).owner ELSE NULL
Permitted(subject, action, col, doc) ==
    ModPermitted(colRoles, col, subject, DocOwner(doc), action, NULL)

-----------------------------------------------------------------------------
(* The stack of a worker.                                                  *)
Op(w) == IF work[w].todo = <<>> THEN "none" ELSE Head(work[w].todo)[1]
Arg(w, i) == Head(work[w].todo)[i + 1]
Change(w) == work[w].change
Known(w, user) == user = Nobody \/ user \in work[w].users
As(w, user) == IF user \in work[w].users THEN Subject(user)
               ELSE Subject(Nobody)
Changer(w) == IF Change(w).super THEN Super ELSE As(w, Change(w).by)

Now(w, state, statements) ==
    [work EXCEPT ![w] = [state EXCEPT !.todo = statements \o Tail(@)]]
Push(w, statements) == Now(w, work[w], statements)
Return(w) == Push(w, <<>>)

(* The one handler that goes on is getOrCreateColId's, which catches every *)
(* error and looks for the collection.  Otherwise the worker is done, and  *)
(* does not touch the record of the queue: a ForbiddenError takes the      *)
(* change out of the batch, or is caught after it could not be recorded;   *)
(* any other error is one of process(), and its other half goes on.        *)
Unwind(todo) ==
    LET at == {i \in DOMAIN todo : todo[i][1] = "colMade"}
    IN  IF at = {} THEN <<>>
        ELSE SubSeq(todo, CHOOSE i \in at : \A j \in at : i <= j, Len(todo))
Raise(w) ==
    LET rest == Unwind(work[w].todo)
    IN  [work EXCEPT ![w] = IF rest = <<>> THEN Idle
                            ELSE [@ EXCEPT !.todo = rest]]

OnlyWork == UNCHANGED <<tables, batches, queue, tries, crashes, log>>
Keep == UNCHANGED <<batches, queue, tries, crashes, log>>

(* A batch is sent when every record of the last is gone, or was tried     *)
(* often enough.                                                           *)
Handled(c) == c \notin queue \/ tries[c] = 0
AllIdle == \A w \in Workers : work[w] = Idle

Queue == /\ batches # <<>> /\ AllIdle /\ \A c \in queue : Handled(c)
         /\ queue' = queue \cup Head(batches)
         /\ batches' = Tail(batches)
         /\ UNCHANGED <<tables, work, tries, crashes, log>>

-----------------------------------------------------------------------------
(* What is to be done for a change, by its kind.                           *)
RoleDoc(doc) == <<"$g", doc>>
FindUsers(c) ==
    (IF c.by # Nobody THEN <<<<"findUser", c.by>>>> ELSE <<>>)
    \o (IF c.of \notin {c.by, Nobody} THEN <<<<"findUser", c.of>>>> ELSE <<>>)
Write(doc, col) == <<<<"attr", doc, col>>, <<"attrDone">>>>

Program(c) ==
    FindUsers(c) \o
    CASE c.kind = "role" -> <<<<"userRole">>>>
      [] c.kind = "user" ->
           <<<<"col", USER>>, <<"doc", <<"$u", c.of>>, USER, c.by>>>>
           \o Write(<<"$u", c.of>>, USER)
      [] c.kind \in {"write", "policy"} ->
           <<<<"col", c.col>>, <<"doc", c.doc, c.col, c.by>>>>
           \o Write(c.doc, c.col)

(* Changes of the same membership, or of the same user.                    *)
Same(c, d) == /\ c.kind \in {"role", "user"} /\ d.kind = c.kind
              /\ c.of = d.of /\ c.role = d.role

(* The users whom a change concerns have their implicit roles, and the     *)
(* database has its policy.                                                *)
ConcernedBy(c) == {c.by} \cup ({c.of} \ {Nobody})
Established(c) == /\ HasPolicy(colRoles, ALL)
                  /\ \A u \in ConcernedBy(c) : u = Nobody \/ HasRole(u, u)

Take(w, c) ==
    /\ w[2] = 1 /\ work[w] = Idle /\ work[Twin(w)] = Idle
    /\ c \in queue /\ tries[c] > 0
    /\ InOrder =>
         /\ \A d \in queue : Same(c, d) => c.at <= d.at
         /\ \A v \in Workers : work[v] # Idle => ~Same(c, Change(v))
    /\ tries' = [tries EXCEPT ![c] = @ - 1]
    /\ work' = [work EXCEPT ![w] =
                  [change |-> c, todo |-> Program(c), users |-> {},
                   cols |-> {}, docs |-> {}, roleId |-> NULL,
                   got |-> FALSE, role |-> NULL, seen |-> {}]]
    /\ log' = IF Established(c) THEN log
              ELSE [log EXCEPT !.early = @ \cup {c}]
    /\ UNCHANGED <<tables, batches, queue, crashes>>

(* The process dies; one half of a change is lost with it, if the other    *)
(* has already left the queue for both.                                    *)
Crash(w) ==
    /\ work[w] # Idle /\ crashes > 0
    /\ work' = [work EXCEPT ![w] = Idle, ![Twin(w)] = Idle]
    /\ crashes' = crashes - 1
    /\ log' = [log EXCEPT !.crashed = TRUE,
                          !.lost = @ \cup ({Change(w)} \ queue)]
    /\ UNCHANGED <<tables, batches, queue, tries>>

-----------------------------------------------------------------------------
(* _getOrCreateUser looks for the user ...                                 *)
FindUser(w) ==
    /\ Op(w) = "findUser"
    /\ LET u == Arg(w, 1)
           found == IF users[u] # NULL THEN {u} ELSE {}
       IN  work' = Now(w, [work[w] EXCEPT !.users = @ \cup found],
                       <<<<"mayCreateUser", u>>>>)
    /\ OnlyWork

(* ... and creates it in any case, where that is allowed.                  *)
MayCreateUser(w) ==
    /\ Op(w) = "mayCreateUser"
    /\ LET u == Arg(w, 1)
       IN  work' = IF Permitted(As(w, Change(w).by), CREATE, USER,
                                <<"$u", u>>)
                   THEN Push(w, <<<<"getUser", u>>>>)
                   ELSE Now(w, [work[w] EXCEPT !.users = @ \ {u}], <<>>)
    /\ OnlyWork

UserKnown(w, u) == Now(w, [work[w] EXCEPT !.users = @ \cup {u}], <<>>)

GetUser(w) ==
    /\ Op(w) = "getUser"
    /\ LET u == Arg(w, 1)
       IN  work' = IF users[u] # NULL THEN UserKnown(w, u)
                   ELSE Push(w, <<<<"insertUser", u, 0>>>>)
    /\ OnlyWork

(* createUserAndImplicitRole, or else getUserId or update.                 *)
InsertUser(w) ==
    /\ Op(w) = "insertUser"
    /\ LET u == Arg(w, 1)
           profile == Arg(w, 2)
       IN  IF users[u] = NULL
           THEN /\ users' = [users EXCEPT ![u] = [made |-> Change(w).at,
                                                  profile |-> profile]]
                /\ work' = Push(w, <<
                     <<"getCol", UserRolesCol(u), Change(w).by>>,
                     <<"userDoc", u>>, <<"getRole", u, Nobody, u>>,
                     <<"addMember", u, RoleDocOf(u)>>, <<"userMade", u>>>>)
           ELSE /\ work' = IF profile = 0 THEN UserKnown(w, u)
                           ELSE Push(w, <<<<"updateUser", u, profile>>>>)
                /\ UNCHANGED users
    /\ UNCHANGED <<roles, members, cols, colRoles, docs>> /\ Keep

(* Mutants of UserDoc: the document is made without a collection, and its  *)
(* absence is an error.                                                    *)
UserDocAnyway(w) ==
    /\ Op(w) = "userDoc"
    /\ LET u == Arg(w, 1)
       IN  docs' = docs \cup {[id |-> RoleDocOf(u), col |-> UserRolesCol(u),
                               owner |-> u, updated |-> Change(w).at]}
    /\ work' = Return(w)
    /\ UNCHANGED <<users, roles, members, cols, colRoles>> /\ Keep
UserDocNeeded(w) ==
    /\ Op(w) = "userDoc"
    /\ LET u == Arg(w, 1)
           doc == [id |-> RoleDocOf(u), col |-> UserRolesCol(u),
                   owner |-> u, updated |-> Change(w).at]
       IN  docs' = IF work[w].got THEN docs \cup {doc} ELSE docs
    /\ work' = IF work[w].got THEN Return(w) ELSE Raise(w)
    /\ UNCHANGED <<users, roles, members, cols, colRoles>> /\ Keep

(* The document of the implicit role; without a collection there is none.  *)
UserDoc(w) ==
    /\ Op(w) = "userDoc"
    /\ LET u == Arg(w, 1)
           doc == [id |-> RoleDocOf(u), col |-> UserRolesCol(u),
                   owner |-> u, updated |-> Change(w).at]
       IN  docs' = IF work[w].got THEN docs \cup {doc} ELSE docs
    /\ work' = Return(w)
    /\ UNCHANGED <<users, roles, members, cols, colRoles>> /\ Keep

UserMade(w) == /\ Op(w) = "userMade"
               /\ work' = UserKnown(w, Arg(w, 1))
               /\ OnlyWork

(* Users.update does not set updated_at.                                   *)
UpdateUser(w) ==
    /\ Op(w) = "updateUser"
    /\ LET u == Arg(w, 1)
       IN  users' = IF users[u].made <= Arg(w, 2)
                    THEN [users EXCEPT ![u].profile = Arg(w, 2)] ELSE users
    /\ work' = Return(w)
    /\ UNCHANGED <<roles, members, cols, colRoles, docs>> /\ Keep

-----------------------------------------------------------------------------
(* _getOrCreateCol: a collection that may not be created stays unknown.    *)
Col(w) ==
    /\ Op(w) = "col"
    /\ LET name == Arg(w, 1)
       IN  work' = IF ~Known(w, Change(w).by) \/ name \in work[w].cols
                   THEN Return(w)
                   ELSE IF name \in cols
                   THEN Now(w, [work[w] EXCEPT !.cols = @ \cup {name}], <<>>)
                   ELSE Push(w, <<<<"createCol", name>>>>)
    /\ OnlyWork

CreateCol(w) ==
    /\ Op(w) = "createCol"
    /\ LET name == Arg(w, 1)
       IN  work' = IF Permitted(Changer(w), CREATE, ALL, NULL)
                   THEN Push(w, <<<<"getCol", name, Change(w).by>>,
                                  <<"knowCol", name>>>>)
                   ELSE Return(w)
    /\ OnlyWork

KnowCol(w) ==
    /\ Op(w) = "knowCol"
    /\ LET found == IF work[w].got THEN {Arg(w, 1)} ELSE {}
       IN  work' = Now(w, [work[w] EXCEPT !.cols = @ \cup found], <<>>)
    /\ OnlyWork

(* getOrCreateColId, createColAndDefaultPolicies.                          *)
GetCol(w) ==
    /\ Op(w) = "getCol"
    /\ LET name == Arg(w, 1)
           user == Arg(w, 2)
       IN  work' = IF name \in cols
                   THEN Now(w, [work[w] EXCEPT !.got = TRUE], <<>>)
                   ELSE Push(w, <<<<"hasPolicy", ALL, user>>,
                                  <<"insertCol", name, user>>,
                                  <<"colMade", name>>>>)
    /\ OnlyWork

InsertCol(w) ==
    /\ Op(w) = "insertCol"
    /\ LET name == Arg(w, 1)
       IN  IF name \in cols
           THEN work' = Raise(w) /\ UNCHANGED cols
           ELSE /\ cols' = cols \cup {name}
                /\ work' = Push(w, <<<<"hasPolicy", name, Arg(w, 2)>>>>)
    /\ UNCHANGED <<users, roles, members, colRoles, docs>> /\ Keep

(* Mutant of ColMade: there is no lookup after a failure.                  *)
NotLookedUp(w) ==
    /\ Op(w) = "colMade"
    /\ work' = Now(w, [work[w] EXCEPT !.got = FALSE], <<>>)
    /\ OnlyWork

ColMade(w) ==
    /\ Op(w) = "colMade"
    /\ work' = Now(w, [work[w] EXCEPT !.got = Arg(w, 1) \in cols], <<>>)
    /\ OnlyWork

-----------------------------------------------------------------------------
(* createDefaultPolicy, createPolicyIfMissing.                             *)
DefaultRows(col, role) ==
    {[col |-> col, name |-> NULL, role |-> role, action |-> a] : a \in Actions}

Installs(w, col) ==
    LET user == Arg(w, 2)
    IN  Push(w, <<<<"getRole", DefaultRole(user), Nobody, user>>,
                  <<"selectRows", col>>, <<"replaceRows", col>>>>)

(* Mutant of CreatePolicyIfMissing: the database has a policy already.     *)
IfDatabaseHasNone(w) ==
    /\ Op(w) = "hasPolicy"
    /\ work' = IF HasPolicy(colRoles, ALL) THEN Return(w)
               ELSE Installs(w, Arg(w, 1))
    /\ OnlyWork

CreatePolicyIfMissing(w) ==
    /\ Op(w) = "hasPolicy"
    /\ work' = IF HasPolicy(colRoles, Arg(w, 1)) THEN Return(w)
               ELSE Installs(w, Arg(w, 1))
    /\ OnlyWork

RowsOf(col) == {r \in colRoles : r.col = col}
SelectRows(w) ==
    /\ Op(w) = "selectRows"
    /\ work' = Now(w, [work[w] EXCEPT !.seen = RowsOf(Arg(w, 1))], <<>>)
    /\ OnlyWork

(* The time of a default policy is a string, and has no toISOString: what  *)
(* others have put there is neither updated nor destroyed, but the         *)
(* insertions are made all the same.                                       *)
ReplaceRows(w) ==
    /\ Op(w) = "replaceRows"
    /\ LET col == Arg(w, 1)
           rows == DefaultRows(col, work[w].role)
           seen == work[w].seen
           clash == (rows \ seen) \cap colRoles # {} \/ seen \ rows # {}
       IN  /\ colRoles' = colRoles \cup (rows \ seen)
           /\ work' = IF clash THEN Raise(w) ELSE Return(w)
    /\ UNCHANGED <<users, roles, members, cols, docs>> /\ Keep

-----------------------------------------------------------------------------
(* getOrCreateRole: by the changing user, whose permission is checked, and *)
(* for another, who is the creator of the collection.                      *)
RoleFound(w, id) == Now(w, [work[w] EXCEPT !.role = id], <<>>)

GetRole(w) ==
    /\ Op(w) = "getRole"
    /\ LET uuid == Arg(w, 1)
       IN  \/ \E id \in RoleIds(uuid) : work' = RoleFound(w, id)
           \/ /\ RoleIds(uuid) = {}
              /\ work' = Push(w, <<<<"insertRole", uuid, Arg(w, 2),
                                    Arg(w, 3)>>>>)
    /\ OnlyWork

(* Mutant of InsertRole: the collection comes first.                       *)
InsertRoleLast(w) ==
    /\ Op(w) = "insertRole"
    /\ LET uuid == Arg(w, 1)
       IN  work' = Push(w, <<
             <<"mayCreateCol", RoleUsersCol(uuid), Arg(w, 2), Arg(w, 3)>>,
             <<"getRole", uuid, Arg(w, 2), Arg(w, 3)>>>>)
    /\ OnlyWork

(* There is no unique index for the uuid of a role.                        *)
InsertRole(w) ==
    /\ Op(w) = "insertRole"
    /\ LET uuid == Arg(w, 1)
       IN  /\ roles' = Append(roles, uuid)
           /\ work' = Push(w, <<
                <<"mayCreateCol", RoleUsersCol(uuid), Arg(w, 2), Arg(w, 3)>>,
                <<"roleMade", Len(roles) + 1>>>>)
    /\ UNCHANGED <<users, members, cols, colRoles, docs>> /\ Keep

RoleMade(w) == /\ Op(w) = "roleMade"
               /\ work' = RoleFound(w, Arg(w, 1))
               /\ OnlyWork

(* getOrCreateIfPermitted for the users of a role.                         *)
MayCreateCol(w) ==
    /\ Op(w) = "mayCreateCol"
    /\ IF Permitted(Subject(Arg(w, 2)), CREATE, ALL, NULL)
       THEN /\ work' = Push(w, <<<<"getCol", Arg(w, 1), Arg(w, 3)>>>>)
            /\ UNCHANGED log
       ELSE /\ work' = Raise(w)
            /\ log' = [log EXCEPT !.refused = @ \cup {Change(w)}]
    /\ UNCHANGED <<tables, batches, queue, tries, crashes>>

(* The user of an option is one that the worker knows, its role one that   *)
(* there is; otherwise an id is missing, which is an error of the database.*)
MissingId(w) ==
    \/ /\ Op(w) = "addMember" /\ Arg(w, 2) # RoleDocOf(Arg(w, 1))
       /\ ~Known(w, Arg(w, 1))
    \/ /\ Op(w) = "removeMember"
       /\ ~Known(w, Arg(w, 1)) \/ RoleIds(Arg(w, 2)) = {}

HasNoId(w) ==
    /\ MissingId(w)
    /\ work' = Raise(w)
    /\ log' = [log EXCEPT !.refused = @ \cup {Change(w)}]
    /\ UNCHANGED <<tables, batches, queue, tries, crashes>>

(* UserRoles.getOrCreate; a user has a role once.                          *)
AddMember(w) ==
    /\ Op(w) = "addMember" /\ ~MissingId(w)
    /\ LET user == Arg(w, 1)
           doc == IF \E d \in docs : d.id = Arg(w, 2) THEN Arg(w, 2) ELSE NULL
           row == [user |-> user, role |-> work[w].role, doc |-> doc]
       IN  members' = IF \E m \in members : m.user = user /\ m.role = row.role
                      THEN members ELSE members \cup {row}
    /\ work' = Return(w)
    /\ UNCHANGED <<users, roles, cols, colRoles, docs>> /\ Keep

(* Users.removeRole.                                                       *)
RemoveMember(w) ==
    /\ Op(w) = "removeMember" /\ ~MissingId(w)
    /\ \E id \in RoleIds(Arg(w, 2)) :
         members' = {m \in members : m.user # Arg(w, 1) \/ m.role # id}
    /\ work' = Return(w)
    /\ UNCHANGED <<users, roles, cols, colRoles, docs>> /\ Keep

-----------------------------------------------------------------------------
(* _takeUserRoleInventoryForAttr: a role change is recorded for the user   *)
(* and for the role, if both are permitted.                                *)
UserRole(w) ==
    /\ Op(w) = "userRole"
    /\ LET c == Change(w)
           ids == RoleIds(c.role)
       IN  IF ~Known(w, c.by)
           THEN work' = Raise(w)
           ELSE \E id \in IF ids = {} THEN {NULL} ELSE ids :
                  work' = Now(w, [work[w] EXCEPT !.roleId = id],
                     <<<<"need", CREATE, ALL, NULL>>,
                       <<"col", UserRolesCol(c.of)>>,
                       <<"col", RoleUsersCol(c.role)>>, <<"roleDoc">>>>)
    /\ OnlyWork

Need(w) ==
    /\ Op(w) = "need"
    /\ work' = IF Permitted(Changer(w), Arg(w, 1), Arg(w, 2), Arg(w, 3))
               THEN Return(w) ELSE Raise(w)
    /\ OnlyWork

(* _getDocUUID: the document of the user's row in user_roles, or else a    *)
(* new one.  Ids that are missing are errors of the database.              *)
RoleDocs(w) ==
    LET c == Change(w)
        found == {m.doc : m \in {x \in members : x.user = c.of
                                             /\ x.role = work[w].roleId}}
        new == {<<c.at, w, tries[c]>>}
    IN  IF found \ {NULL} = {} THEN new ELSE found \ {NULL}

FindRoleDoc(w) ==
    /\ Op(w) = "roleDoc"
    /\ LET c == Change(w)
           ur == UserRolesCol(c.of)
           ru == RoleUsersCol(c.role)
           destroys == <<<<"need", DESTROY, ur, NULL>>,
                         <<"need", DESTROY, ru, NULL>>>>
       IN  IF \/ work[w].roleId # NULL /\ ~Known(w, c.of)
              \/ ~({ur, ru} \subseteq work[w].cols)
           THEN work' = Raise(w)
           ELSE \E d \in RoleDocs(w) :
                  work' = Push(w,
                     <<<<"need", CREATE, ur, d>>,
                       <<"need", CREATE, ru, RoleDoc(d)>>,
                       <<"doc", d, ur, c.of>>,
                       <<"doc", RoleDoc(d), ru, c.of>>>>
                     \o (IF c.add THEN <<>> ELSE destroys)
                     \o <<<<"doc", d, ur, c.by>>, <<"fork", d>>>>)
    /\ OnlyWork

(* _processAttrs: from here on the halves of the change, the one of the    *)
(* user and the one of the role, are two with the same record in the queue.*)
Fork(w) ==
    /\ Op(w) = "fork" /\ work[Twin(w)] = Idle
    /\ LET c == Change(w)
           d == Arg(w, 1)
           half(doc, col) == [work[w] EXCEPT !.todo = Write(doc, col)]
       IN  work' = [work EXCEPT
                      ![w] = half(d, UserRolesCol(c.of)),
                      ![Twin(w)] = half(RoleDoc(d), RoleUsersCol(c.role))]
    /\ OnlyWork

-----------------------------------------------------------------------------
(* _getOrCreateDoc: where the user and the collection are known.           *)
DocKnown(w, d) == Now(w, [work[w] EXCEPT !.docs = @ \cup {d}], <<>>)

GetDoc(w) ==
    /\ Op(w) = "doc"
    /\ LET d == Arg(w, 1)
       IN  work' = IF ~Known(w, Arg(w, 3)) \/ Arg(w, 2) \notin work[w].cols
                   THEN Return(w)
                   ELSE IF \E x \in docs : x.id = d
                   THEN DocKnown(w, d)
                   ELSE Push(w, <<<<"createDoc", d, Arg(w, 2), Arg(w, 3)>>>>)
    /\ OnlyWork

(* _createDoc: the permission is that of the document's owner.             *)
CreateDoc(w) ==
    /\ Op(w) = "createDoc"
    /\ LET d == Arg(w, 1)
           col == Arg(w, 2)
           owner == Arg(w, 3)
           subject == IF Change(w).super THEN Super ELSE As(w, owner)
       IN  IF Permitted(subject, CREATE, col, d)
           THEN /\ docs' = IF \E x \in docs : x.id = d THEN docs
                           ELSE docs \cup {[id |-> d, col |-> col,
                                            owner |-> owner,
                                            updated |-> Change(w).at]}
                /\ work' = DocKnown(w, d)
           ELSE work' = Return(w) /\ UNCHANGED docs
    /\ UNCHANGED <<users, roles, members, cols, colRoles>> /\ Keep

(* _createOrUpdateAttr: nothing is done where an id is missing.            *)
CreateAttr(w) ==
    /\ Op(w) = "attr"
    /\ LET d == Arg(w, 1)
           col == Arg(w, 2)
       IN  IF \/ ~Known(w, Change(w).by) \/ col \notin work[w].cols
              \/ d \notin work[w].docs
           THEN /\ log' = [log EXCEPT !.dropped = @ \cup {<<Change(w), col>>}]
                /\ work' = Return(w)
           ELSE /\ work' = IF Permitted(Changer(w), UPDATE, col, d)
                           THEN Push(w, <<<<"record", d, col>>>>)
                           ELSE Raise(w)
                /\ UNCHANGED log
    /\ UNCHANGED <<tables, batches, queue, tries, crashes>>

(* Attr.setOptions.                                                        *)
Options(c, d, col) ==
    CASE c.kind = "role" /\ col = UserRolesCol(c.of) ->
           IF c.add THEN <<<<"getRole", c.role, c.by, c.by>>,
                           <<"addMember", c.of, d>>>>
           ELSE <<<<"removeMember", c.of, c.role>>>>
      [] c.kind = "user" -> <<<<"insertUser", c.of, c.at>>>>
      [] c.kind = "policy" -> <<<<"getRole", c.role, c.by, c.by>>,
                                <<"setPolicy", col>>>>
      [] OTHER -> <<>>

(* Mutant of Updates: nor at the time of the last change.                  *)
UpdatesLater(d, at) == \E x \in docs : x.id = d /\ x.updated < at

(* DocRecs.update: has the document not been updated later?                *)
Updates(d, at) == \E x \in docs : x.id = d /\ x.updated <= at

Record(w) ==
    /\ Op(w) = "record"
    /\ LET c == Change(w)
           d == Arg(w, 1)
           col == Arg(w, 2)
       IN  /\ docs' = {IF x.id = d /\ x.updated < c.at
                       THEN [x EXCEPT !.updated = c.at] ELSE x : x \in docs}
           /\ work' = Push(w, IF Updates(d, c.at) THEN Options(c, d, col)
                              ELSE <<>>)
           /\ log' = [log EXCEPT !.recorded = @ \cup {<<c, col>>}]
    /\ UNCHANGED <<users, roles, members, cols, colRoles, batches, queue,
                   tries, crashes>>

(* Policy.setPolicy, in one step (Policies has them all).                  *)
SetPolicy(w) ==
    /\ Op(w) = "setPolicy"
    /\ LET c == Change(w)
           col == Arg(w, 1)
           id(uuid) == IF uuid = c.role THEN work[w].role ELSE uuid
       IN  colRoles' = (colRoles \ RowsOf(col)) \cup
                         {[col |-> col, name |-> NULL, role |-> id(p[2]),
                           action |-> p[1]] : p \in c.rule}
    /\ work' = Return(w)
    /\ UNCHANGED <<users, roles, members, cols, docs>> /\ Keep

(* _processAttr: the record of the queue is destroyed.                     *)
AttrDone(w) ==
    /\ Op(w) = "attrDone"
    /\ queue' = queue \ {Change(w)}
    /\ work' = [work EXCEPT ![w] = Idle]
    /\ UNCHANGED <<tables, batches, tries, crashes, log>>

-----------------------------------------------------------------------------
Step(w) ==
    \/ FindUser(w) \/ MayCreateUser(w) \/ GetUser(w) \/ InsertUser(w)
    \/ UserDoc(w) \/ UserMade(w) \/ UpdateUser(w)
    \/ Col(w) \/ CreateCol(w) \/ KnowCol(w) \/ GetCol(w) \/ InsertCol(w)
    \/ ColMade(w) \/ CreatePolicyIfMissing(w) \/ SelectRows(w)
    \/ ReplaceRows(w) \/ GetRole(w) \/ InsertRole(w) \/ RoleMade(w)
    \/ MayCreateCol(w) \/ AddMember(w) \/ RemoveMember(w) \/ HasNoId(w)
    \/ UserRole(w) \/ Need(w) \/ FindRoleDoc(w) \/ Fork(w) \/ GetDoc(w)
    \/ CreateDoc(w) \/ CreateAttr(w) \/ Record(w) \/ SetPolicy(w)
    \/ AttrDone(w)

Next == \/ Queue
        \/ \E w \in Workers : \/ Step(w) \/ Crash(w)
                             \/ \E c \in queue : Take(w, c)

Spec == Init /\ [][Next]_vars

-----------------------------------------------------------------------------
(* The rows refer to rows that are there, and what is unique is.           *)
TypeOK ==
    /\ \A m \in members : m.role \in DOMAIN roles /\ users[m.user] # NULL
    /\ \A m, n \in members : m.user = n.user /\ m.role = n.role => m = n
    /\ \A r \in colRoles :
         /\ r.col \in cols
         /\ r.role \in {SUPER, OWNER, EVERYONE} \cup DOMAIN roles
    /\ \A d \in docs : d.col \in cols
    /\ \A d, e \in docs : d.id = e.id => d = e
    /\ queue \subseteq DOMAIN tries
    /\ \A w \in Workers : work[w].todo = <<>> <=> work[w] = Idle

Settled == AllIdle /\ \A c \in queue : Handled(c)

(* When no process has died, every user has the implicit role, which       *)
(* default policies name, unless its creation was refused (users.js:164):  *)
(* whoever loses the race to insert the user goes on without it, and it is *)
(* never given later.                                                      *)
UsersComplete ==
    AllIdle /\ ~log.crashed =>
       \A u \in UUIDs : users[u] # NULL =>
          HasRole(u, u) \/ \E c \in log.refused : u \in {c.by, c.of}

(* Nor is a collection of an application without a policy, which would     *)
(* leave it to everybody, for good (cols.js:139, policy.js:150): the       *)
(* process that inserts it is the one that sets its policy, whatever       *)
(* others do to that of the database at the same time.                     *)
ColsProtected ==
    AllIdle /\ ~log.crashed =>
       \A col \in cols : Len(col) = 1 /\ col \notin {ALL, USER} =>
          HasPolicy(colRoles, col) \/ \E c \in log.refused : c.col = col

(* The last change recorded of a user, or of the membership of a user in a *)
(* role, is the one in effect, although it is put into effect in           *)
(* statements after it has been recorded, and again when a process dies    *)
(* (attr.js:77, users.js:200-252).  Not in effect may be a change whose    *)
(* process died with it when the half of the role was done already and had *)
(* removed the record from the queue (process.js:571-580, 689-697), and    *)
(* one that was refused by the policy of the users of its role, or that    *)
(* found a user or role missing.                                           *)
HalfOfUser(c) == IF c.kind = "user" THEN <<c, USER>>
                 ELSE <<c, UserRolesCol(c.of)>>
Recorded(c) == HalfOfUser(c) \in log.recorded
InEffect(c) == IF c.kind = "user" THEN users[c.of].profile = c.at
               ELSE HasRole(c.of, c.role) <=> c.add

LastChangeWins ==
    Settled =>
       \A c \in DOMAIN tries \ (log.lost \cup log.refused) :
          /\ c.kind \in {"role", "user"} /\ Recorded(c)
          /\ \A d \in DOMAIN tries : Same(c, d) /\ Recorded(d) =>
                d \notin queue /\ d.at <= c.at
          => InEffect(c)

(* Once its users have their roles and the database its policy, a change   *)
(* is gone from the queue without having been recorded only if users whom  *)
(* it concerns may not create users, collections or documents              *)
(* (process.js:59-84, 284-321), whatever races for the collection it lost  *)
(* (cols.js:115-118).  Before that it may be lost, permitted or not.       *)
LostOnlyIfForbidden ==
    Settled =>
       \A x \in log.dropped : x[1] \notin queue \cup log.early =>
          \E u \in ConcernedBy(x[1]), col \in {USER, ALL, x[2]} :
             ~Permitted(Subject(u), CREATE, col, NULL)

(* A role, its collection, the policy of that and the role that it names   *)
(* need each other; the recursion ends (users.js:172).                     *)
MostStatements == 19
RecursionEnds == \A w \in Workers : Len(work[w].todo) <= MostStatements
==============================================================================
