------------------------------ MODULE PolicyRules ------------------------------
(***************************************************************************)
(* What a policy lets users do, twice: as the policy says it, and as the   *)
(* statements of policy.js and changes-query.js find it in the table       *)
(* col_roles (scripts/partitioner/sql).                                    *)
(*                                                                         *)
(* A policy maps actions to roles, for the collection as a whole and for   *)
(* single attributes.  In col_roles it is a row [col, name, role, action]  *)
(* per role and action; the name of the collection's own rows is NULL.     *)
(***************************************************************************)
CONSTANTS Nobody,       \* the user of a client that is not logged in
          SUPER, OWNER, EVERYONE,   \* the roles $super, $owner and $all
          NULL          \* no name, no row

READ == "read_"

-----------------------------------------------------------------------------
(* parsePolicy, addRoles.                                                  *)
ForRoles(n, a, roles) ==
    {[name |-> n, action |-> a, role |-> r] : r \in roles}
ForRule(n, rule) == UNION {ForRoles(n, a, rule[a]) : a \in DOMAIN rule}
RoleActions(policy) ==
    ForRule(NULL, policy.col)
    \cup UNION {ForRule(n, policy.attrs[n]) : n \in DOMAIN policy.attrs}

(* getDefaultPolicy: only the creator, or everyone if there is none.       *)
DefaultRole(user) == IF user = Nobody THEN EVERYONE ELSE user

-----------------------------------------------------------------------------
(* The statements of modPermitted.  A subject is a user with the roles it  *)
(* has rows for in user_roles; owner is the user of the document's row in  *)
(* LATEST, NULL if there is none.                                          *)
IsSuperUser(subject) == SUPER \in subject.roles

(* What a user is: nobody has no roles, and no role is called NULL, $owner *)
(* or $all (roles.js:98-115).                                              *)
IsSubject(subject) ==
    /\ subject.user = Nobody => subject.roles = {}
    /\ NULL \notin subject.roles \cup {SUPER, OWNER, EVERYONE}
    /\ EVERYONE # OWNER /\ EVERYONE \notin subject.roles
    /\ OWNER \notin subject.roles

HasPolicy(rows, col) == \E r \in rows : r.col = col
HasAttrPolicy(rows, col, name) ==
    \E r \in rows : r.col = col /\ r.name = name

(* Somebody who is logged in and enabled has roles, and may own documents. *)
Active(subject) == subject.user # Nobody /\ subject.enabled

Holds(subject, owner, role) ==
    \/ role = EVERYONE
    \/ Active(subject) /\ role \in subject.roles
    \/ Active(subject) /\ role = OWNER /\ owner = subject.user

HasColRole(rows, col, subject, owner, action, name) ==
    \E r \in rows : /\ r.col = col /\ r.name = name /\ r.action = action
                    /\ Holds(subject, owner, r.role)

ModPermitted(rows, col, subject, owner, action, name) ==
    \/ IsSuperUser(subject)
    \/ ~HasPolicy(rows, col)
    \/ LET level == IF name # NULL /\ HasAttrPolicy(rows, col, name)
                    THEN name ELSE NULL
       IN  HasColRole(rows, col, subject, owner, action, level)

(* As the policy says it (policy.js:167): the roles of the attribute stand *)
(* in for those of the collection; without a policy everything is allowed. *)
RolesFor(policy, action, name) ==
    LET own == IF name \in DOMAIN policy.attrs
               THEN {a \in DOMAIN policy.attrs[name] :
                       policy.attrs[name][a] # {}}
               ELSE {}
        rule == IF own # {} THEN policy.attrs[name] ELSE policy.col
    IN  IF action \in DOMAIN rule THEN rule[action] ELSE {}

Allows(policy, subject, owner, action, name) ==
    \/ IsSuperUser(subject)
    \/ RoleActions(policy) = {}
    \/ \E r \in RolesFor(policy, action, name) : Holds(subject, owner, r)

-----------------------------------------------------------------------------
(* The feed, changes-query.js: col_roles is joined four times, each join   *)
(* only where the ones before it have found nothing.                       *)
Nothing == [role |-> NULL]
LeftJoin(matches) == IF matches = {} THEN {Nothing} ELSE matches

ReadRows(rows, col, name) ==
    {r \in rows : r.col = col /\ r.name = name /\ r.action = READ}

(* Mutant of ColPolicy: the collection's policy is joined as well.         *)
ColPolicyToo(rows, col, attr) == LeftJoin(ReadRows(rows, col, NULL))

AttrPolicy(rows, col, name) == LeftJoin(ReadRows(rows, col, name))
ColPolicy(rows, col, attr) ==
    LeftJoin(IF attr = Nothing THEN ReadRows(rows, col, NULL) ELSE {})
AllAttrPolicy(rows, all, name, attr, own) ==
    LeftJoin(IF attr = Nothing /\ own = Nothing
             THEN ReadRows(rows, all, name) ELSE {})
AllColPolicy(rows, all, attr, own, allAttr) ==
    LeftJoin(IF attr = Nothing /\ own = Nothing /\ allAttr = Nothing
             THEN ReadRows(rows, all, NULL) ELSE {})

(* user_roles is joined to each of them, and for super users to all.       *)
WhereHasRole(subject, found) ==
    \E r \in subject.roles : r = SUPER \/ \E f \in found : f.role = r
WhereIsOwner(subject, owner, found) ==
    owner = subject.user /\ \E f \in found : f.role = OWNER
WhereAllCanRead(found) == \E f \in found : f.role = EVERYONE

Where(subject, owner, found) ==
    IF subject.user = Nobody THEN WhereAllCanRead(found)
    ELSE /\ subject.enabled
         /\ \/ WhereHasRole(subject, found)
            \/ WhereIsOwner(subject, owner, found)
            \/ WhereAllCanRead(found)

(* _changesNestedSQL for one attribute: some combination of joined rows.   *)
Shown(rows, col, all, subject, owner, name) ==
    \E attr \in AttrPolicy(rows, col, name) :
    \E own \in ColPolicy(rows, col, attr) :
    \E allAttr \in AllAttrPolicy(rows, all, name, attr, own) :
    \E allCol \in AllColPolicy(rows, all, attr, own, allAttr) :
       Where(subject, owner, {attr, own, allAttr, allCol})

(* As the comment says it (changes-query.js:130-133): the attribute's      *)
(* readers, else the collection's, else those of the database for the      *)
(* attribute, else those of the database.                                  *)
Readers(policy, all, name) ==
    LET attrs(p) == IF name \in DOMAIN p.attrs /\ READ \in DOMAIN p.attrs[name]
                    THEN p.attrs[name][READ] ELSE {}
        own(p) == IF READ \in DOMAIN p.col THEN p.col[READ] ELSE {}
    IN  IF attrs(policy) # {} THEN attrs(policy)
        ELSE IF own(policy) # {} THEN own(policy)
        ELSE IF attrs(all) # {} THEN attrs(all)
        ELSE own(all)

MayRead(policy, all, subject, owner, name) ==
    /\ subject.user = Nobody \/ subject.enabled
    /\ \/ IsSuperUser(subject)
       \/ \E r \in Readers(policy, all, name) : Holds(subject, owner, r)
==============================================================================
