--------------------------- MODULE PoliciesProofs ---------------------------
(***************************************************************************)
(* Machine-checked theorems about Policies: for any policies, users and    *)
(* number of Node processes, however often they handle the same policy and *)
(* wherever they die, col_roles is that of the latest policy when it is in *)
(* force, if policies are put in force one after the other (Blocking).     *)
(* First, what follows from that for permissions and for the feed: for any *)
(* policies, users, roles, owners, actions and attributes the statements   *)
(* of policy.js and changes-query.js find in col_roles what the policies   *)
(* say, when the rows are those of the policies.                           *)
(***************************************************************************)
EXTENDS Policies, TLAPS

(* The role actions of a collection's rows are those of the policy.        *)
RolesOf(rows, col) == {[name |-> r.name, action |-> r.action, role |-> r.role] :
                         r \in {x \in rows : x.col = col}}
Carry(rows, col, policy) == /\ NULL \notin DOMAIN policy.attrs
                            /\ RolesOf(rows, col) = RoleActions(policy)

(* The collection's rule gives a role an action, or that of an attribute.  *)
ColGives(policy, a, r) == a \in DOMAIN policy.col /\ r \in policy.col[a]
AttrGives(policy, n, a, r) == /\ n \in DOMAIN policy.attrs
                              /\ a \in DOMAIN policy.attrs[n]
                              /\ r \in policy.attrs[n][a]

LEMMA InRoleActions ==
    ASSUME NEW policy, NEW n, NEW a, NEW r
    PROVE  [name |-> n, action |-> a, role |-> r] \in RoleActions(policy)
             <=> \/ n = NULL /\ ColGives(policy, a, r)
                 \/ AttrGives(policy, n, a, r)
<1> DEFINE x == [name |-> n, action |-> a, role |-> r]
<1>1. ASSUME NEW m, NEW rule
      PROVE  x \in ForRule(m, rule)
               <=> n = m /\ a \in DOMAIN rule /\ r \in rule[a]
  <2>1. \A b : x \in ForRoles(m, b, rule[b])
                <=> n = m /\ a = b /\ r \in rule[b]
    BY DEF ForRoles
  <2> QED
    BY <2>1 DEF ForRule
<1> HIDE DEF x
<1>2. x \in RoleActions(policy)
        <=> \/ x \in ForRule(NULL, policy.col)
            \/ \E m \in DOMAIN policy.attrs : x \in ForRule(m, policy.attrs[m])
  BY DEF RoleActions
<1>3. x \in RoleActions(policy) <=> \/ n = NULL /\ ColGives(policy, a, r)
                                   \/ AttrGives(policy, n, a, r)
  BY <1>1, <1>2 DEF ColGives, AttrGives
<1> QED
  BY <1>3 DEF x

LEMMA RowsSay ==
    ASSUME NEW rows, NEW col, NEW policy, Carry(rows, col, policy),
           NEW n, NEW a, NEW r
    PROVE  (\E x \in rows : x.col = col /\ x.name = n /\ x.action = a
                            /\ x.role = r)
             <=> \/ n = NULL /\ ColGives(policy, a, r)
                 \/ AttrGives(policy, n, a, r)
<1>1. (\E x \in rows : x.col = col /\ x.name = n /\ x.action = a /\ x.role = r)
        <=> [name |-> n, action |-> a, role |-> r] \in RolesOf(rows, col)
  BY DEF RolesOf
<1> QED
  BY <1>1, InRoleActions DEF Carry

LEMMA ColRowsSay ==
    ASSUME NEW rows, NEW col, NEW policy, Carry(rows, col, policy),
           NEW a, NEW r
    PROVE  (\E x \in rows : x.col = col /\ x.name = NULL /\ x.action = a
                            /\ x.role = r)
             <=> ColGives(policy, a, r)
<1>1. ~AttrGives(policy, NULL, a, r)
  BY DEF Carry, AttrGives
<1> QED
  BY <1>1, RowsSay

LEMMA AttrRowsSay ==
    ASSUME NEW rows, NEW col, NEW policy, Carry(rows, col, policy),
           NEW n, n # NULL, NEW a, NEW r
    PROVE  (\E x \in rows : x.col = col /\ x.name = n /\ x.action = a
                            /\ x.role = r)
             <=> AttrGives(policy, n, a, r)
BY RowsSay

(* The statements of modPermitted (policy.js:217-247): everybody may       *)
(* change what the policy lets them change, and nothing else.  The roles   *)
(* of an attribute stand in for those of the collection; no row at all     *)
(* means that the policy is empty.                                         *)
THEOREM ModAsPolicySays ==
    ASSUME NEW rows, NEW col, NEW policy, Carry(rows, col, policy),
           NEW subject, NEW owner, NEW action, NEW name
    PROVE  ModPermitted(rows, col, subject, owner, action, name)
             <=> Allows(policy, subject, owner, action, name)
<1>1. HasPolicy(rows, col) <=> RoleActions(policy) # {}
  <2>1. HasPolicy(rows, col) <=> RolesOf(rows, col) # {}
    BY DEF HasPolicy, RolesOf
  <2> QED
    BY <2>1 DEF Carry
<1> DEFINE own == IF name \in DOMAIN policy.attrs
                  THEN {a \in DOMAIN policy.attrs[name] :
                          policy.attrs[name][a] # {}}
                  ELSE {}
<1>2. CASE own # {}
  <2>1. name # NULL /\ name \in DOMAIN policy.attrs
    BY <1>2 DEF Carry
  <2>2. HasAttrPolicy(rows, col, name)
    <3>1. PICK a, r : AttrGives(policy, name, a, r)
      BY <1>2, <2>1 DEF AttrGives
    <3> QED
      BY <2>1, <3>1, AttrRowsSay DEF HasAttrPolicy
  <2>3. ModPermitted(rows, col, subject, owner, action, name)
          <=> \/ IsSuperUser(subject) \/ ~HasPolicy(rows, col)
              \/ HasColRole(rows, col, subject, owner, action, name)
    BY <2>1, <2>2 DEF ModPermitted
  <2>4. HasColRole(rows, col, subject, owner, action, name)
          <=> \E r : AttrGives(policy, name, action, r)
                     /\ Holds(subject, owner, r)
    BY <2>1, AttrRowsSay DEF HasColRole
  <2>5. RolesFor(policy, action, name)
          = IF action \in DOMAIN policy.attrs[name]
            THEN policy.attrs[name][action] ELSE {}
    BY <1>2 DEF RolesFor
  <2>6. \A r : r \in RolesFor(policy, action, name)
                <=> AttrGives(policy, name, action, r)
    BY <2>1, <2>5 DEF AttrGives
  <2> QED
    BY <1>1, <2>3, <2>4, <2>6 DEF Allows
<1>3. CASE own = {}
  <2>1. \A a, r : ~AttrGives(policy, name, a, r)
    BY <1>3 DEF AttrGives
  <2>2. name = NULL \/ ~HasAttrPolicy(rows, col, name)
    BY <2>1, AttrRowsSay DEF HasAttrPolicy
  <2>3. ModPermitted(rows, col, subject, owner, action, name)
          <=> \/ IsSuperUser(subject) \/ ~HasPolicy(rows, col)
              \/ HasColRole(rows, col, subject, owner, action, NULL)
    BY <2>2 DEF ModPermitted
  <2>4. HasColRole(rows, col, subject, owner, action, NULL)
          <=> \E r : ColGives(policy, action, r) /\ Holds(subject, owner, r)
    BY ColRowsSay DEF HasColRole
  <2>5. RolesFor(policy, action, name)
          = IF action \in DOMAIN policy.col THEN policy.col[action] ELSE {}
    BY <1>3 DEF RolesFor
  <2>6. \A r : r \in RolesFor(policy, action, name)
                <=> ColGives(policy, action, r)
    BY <2>5 DEF ColGives
  <2> QED
    BY <1>1, <2>3, <2>4, <2>6 DEF Allows
<1> QED
  BY <1>2, <1>3

-----------------------------------------------------------------------------
(* The feed.  A join finds the roles of one rule, or nothing.              *)
RolesIn(found) == {f.role : f \in found}

LEMMA WhereByRole ==
    ASSUME NEW subject, NEW owner, IsSubject(subject), NEW found
    PROVE  Where(subject, owner, found)
             <=> /\ subject.user = Nobody \/ subject.enabled
                 /\ \/ IsSuperUser(subject)
                    \/ \E f \in found : Holds(subject, owner, f.role)
BY DEF Where, IsSubject, WhereHasRole, WhereIsOwner, WhereAllCanRead,
       IsSuperUser, Holds, Active

(* The first rule that has readers.                                        *)
First(A, B, C, D) == IF A # {} THEN A ELSE IF B # {} THEN B
                     ELSE IF C # {} THEN C ELSE D

(* Each join finds rows only where the ones before it have found nothing:  *)
(* some combination of them has a role the subject holds exactly if a row  *)
(* of the first rule that has readers does.                                *)
LEMMA ShownByFirst ==
    ASSUME NEW rows, Nothing \notin rows, NEW col, NEW all,
           NEW subject, NEW owner, IsSubject(subject), NEW name
    PROVE  LET F == First(ReadRows(rows, col, name), ReadRows(rows, col, NULL),
                          ReadRows(rows, all, name), ReadRows(rows, all, NULL))
           IN  Shown(rows, col, all, subject, owner, name)
                 <=> /\ subject.user = Nobody \/ subject.enabled
                     /\ \/ IsSuperUser(subject)
                        \/ \E f \in F : Holds(subject, owner, f.role)
<1> DEFINE A == ReadRows(rows, col, name)
           B == ReadRows(rows, col, NULL)
           C == ReadRows(rows, all, name)
           D == ReadRows(rows, all, NULL)
           Held(f) == Holds(subject, owner, f.role)
           Found(w, x, y, z) == \E f \in {w, x, y, z} : Held(f)
           In == subject.user = Nobody \/ subject.enabled
           Super == IsSuperUser(subject)
<1>1. /\ Nothing \notin A /\ Nothing \notin B
      /\ Nothing \notin C /\ Nothing \notin D
  BY DEF ReadRows
<1>2. ~Held(Nothing)
  BY DEF IsSubject, Holds, Active, Nothing
<1>3. Shown(rows, col, all, subject, owner, name)
        <=> \E w \in AttrPolicy(rows, col, name) :
            \E x \in ColPolicy(rows, col, w) :
            \E y \in AllAttrPolicy(rows, all, name, w, x) :
            \E z \in AllColPolicy(rows, all, w, x, y) :
               In /\ (Super \/ Found(w, x, y, z))
  <2>1. \A w, x, y, z : Where(subject, owner, {w, x, y, z})
                          <=> In /\ (Super \/ Found(w, x, y, z))
    BY WhereByRole
  <2>2. Shown(rows, col, all, subject, owner, name)
          <=> \E w \in AttrPolicy(rows, col, name) :
              \E x \in ColPolicy(rows, col, w) :
              \E y \in AllAttrPolicy(rows, all, name, w, x) :
              \E z \in AllColPolicy(rows, all, w, x, y) :
                 Where(subject, owner, {w, x, y, z})
    BY Zenon DEF Shown
  <2> HIDE DEF In, Super, Found
  <2> QED
    BY <2>1, <2>2, ZenonT(60)
<1> HIDE DEF Held, In, Super
<1>4. /\ AttrPolicy(rows, col, name) = LeftJoin(A)
      /\ \A w : ColPolicy(rows, col, w) = LeftJoin(IF w = Nothing THEN B ELSE {})
      /\ \A w, x : AllAttrPolicy(rows, all, name, w, x)
                     = LeftJoin(IF w = Nothing /\ x = Nothing THEN C ELSE {})
      /\ \A w, x, y : AllColPolicy(rows, all, w, x, y)
                     = LeftJoin(IF w = Nothing /\ x = Nothing /\ y = Nothing
                                THEN D ELSE {})
  BY DEF AttrPolicy, ColPolicy, AllAttrPolicy, AllColPolicy
<1> HIDE DEF A, B, C, D
<1>5. Shown(rows, col, all, subject, owner, name)
        <=> \E w \in LeftJoin(A) :
            \E x \in LeftJoin(IF w = Nothing THEN B ELSE {}) :
            \E y \in LeftJoin(IF w = Nothing /\ x = Nothing THEN C ELSE {}) :
            \E z \in LeftJoin(IF w = Nothing /\ x = Nothing /\ y = Nothing
                              THEN D ELSE {}) :
               In /\ (Super \/ Found(w, x, y, z))
  BY <1>3, <1>4
<1>6. LeftJoin({}) = {Nothing}
  BY DEF LeftJoin
<1>7. \A S : S # {} => LeftJoin(S) = S
  BY DEF LeftJoin
<1> DEFINE Goal == In /\ (Super \/ \E f \in First(A, B, C, D) : Held(f))
<1>8. CASE A # {}
  BY <1>1, <1>2, <1>5, <1>6, <1>7, <1>8 DEF First, Held, In, Super, A, B, C, D
<1>9. CASE A = {} /\ B # {}
  BY <1>1, <1>2, <1>5, <1>6, <1>7, <1>9 DEF First, Held, In, Super, A, B, C, D
<1>10. CASE A = {} /\ B = {} /\ C # {}
  BY <1>1, <1>2, <1>5, <1>6, <1>7, <1>10 DEF First, Held, In, Super, A, B, C, D
<1>11. CASE A = {} /\ B = {} /\ C = {}
  BY <1>1, <1>2, <1>5, <1>6, <1>7, <1>11 DEF First, Held, In, Super, A, B, C, D
<1> QED
  BY <1>8, <1>9, <1>10, <1>11

(* The feed (changes-query.js:114-172) shows an attribute to those who     *)
(* read it by the first of the policies that says who does, in the order   *)
(* of the comment at changes-query.js:130-133: the attribute's, the        *)
(* collection's, and then those of the database.                           *)
THEOREM FeedAsPolicySays ==
    ASSUME NEW rows, Nothing \notin rows,
           NEW col, NEW policy, Carry(rows, col, policy),
           NEW all, NEW default, Carry(rows, all, default),
           NEW subject, NEW owner, IsSubject(subject), NEW name, name # NULL
    PROVE  Shown(rows, col, all, subject, owner, name)
             <=> MayRead(policy, default, subject, owner, name)
<1> DEFINE A == ReadRows(rows, col, name)
           B == ReadRows(rows, col, NULL)
           C == ReadRows(rows, all, name)
           D == ReadRows(rows, all, NULL)
           attrs(p) == IF name \in DOMAIN p.attrs /\ READ \in DOMAIN p.attrs[name]
                       THEN p.attrs[name][READ] ELSE {}
           own(p) == IF READ \in DOMAIN p.col THEN p.col[READ] ELSE {}
<1>1. /\ \A r : (r \in attrs(policy)) <=> (\E f \in A : f.role = r)
      /\ \A r : (r \in own(policy)) <=> (\E f \in B : f.role = r)
      /\ \A r : (r \in attrs(default)) <=> (\E f \in C : f.role = r)
      /\ \A r : (r \in own(default)) <=> (\E f \in D : f.role = r)
  <2>1. \A r : /\ (r \in attrs(policy)) <=> AttrGives(policy, name, READ, r)
               /\ (r \in attrs(default)) <=> AttrGives(default, name, READ, r)
               /\ (r \in own(policy)) <=> ColGives(policy, READ, r)
               /\ (r \in own(default)) <=> ColGives(default, READ, r)
    BY DEF AttrGives, ColGives
  <2> HIDE DEF attrs, own
  <2> QED
    BY <2>1, AttrRowsSay, ColRowsSay DEF ReadRows
<1>2. Readers(policy, default, name)
        = First(attrs(policy), own(policy), attrs(default), own(default))
  BY DEF Readers, First
<1> HIDE DEF A, B, C, D, attrs, own
<1>3. \A r : (r \in Readers(policy, default, name))
             <=> (\E f \in First(A, B, C, D) : f.role = r)
  <2>1. /\ attrs(policy) = {} <=> A = {}
        /\ own(policy) = {} <=> B = {}
        /\ attrs(default) = {} <=> C = {}
    BY <1>1
  <2>2. CASE A # {}
    <3>1. Readers(policy, default, name) = attrs(policy)
          /\ First(A, B, C, D) = A
      BY <1>2, <2>1, <2>2 DEF First
    <3> QED
      BY <1>1, <3>1
  <2>3. CASE A = {} /\ B # {}
    <3>1. Readers(policy, default, name) = own(policy)
          /\ First(A, B, C, D) = B
      BY <1>2, <2>1, <2>3 DEF First
    <3> QED
      BY <1>1, <3>1
  <2>4. CASE A = {} /\ B = {} /\ C # {}
    <3>1. Readers(policy, default, name) = attrs(default)
          /\ First(A, B, C, D) = C
      BY <1>2, <2>1, <2>4 DEF First
    <3> QED
      BY <1>1, <3>1
  <2>5. CASE A = {} /\ B = {} /\ C = {}
    <3>1. Readers(policy, default, name) = own(default)
          /\ First(A, B, C, D) = D
      BY <1>2, <2>1, <2>5 DEF First
    <3> QED
      BY <1>1, <3>1
  <2> QED
    BY <2>2, <2>3, <2>4, <2>5
<1>4. Shown(rows, col, all, subject, owner, name)
        <=> /\ subject.user = Nobody \/ subject.enabled
            /\ \/ IsSuperUser(subject)
               \/ \E f \in First(A, B, C, D) : Holds(subject, owner, f.role)
  BY ShownByFirst DEF A, B, C, D
<1> QED
  BY <1>3, <1>4 DEF MayRead

-----------------------------------------------------------------------------
AllRules == UNION {RuleOf(i) : i \in Times}
Row == [col : {Col, ALL}, name : {x.name : x \in AllRules},
        role : {x.role : x \in AllRules},
        action : {x.action : x \in AllRules},
        updated : Nat, id : Nat]

Setting == [pc : {"free", "select", "replace"}, policy : Nat,
            new : SUBSET AllRules, known : SUBSET AllRules, old : SUBSET Row]

Typed ==
    /\ sent \in Nat /\ sent <= Len(Policy)
    /\ \A c \in {Col, ALL} : Last(c, sent) \in {0} \cup Times
    /\ colRoles \subseteq Row /\ \A r \in colRoles : r.updated <= sent
    /\ chain \in [Workers -> Setting]
    /\ \A w \in Workers :
         /\ chain[w].pc = "free" => chain[w] = Free
         /\ chain[w].pc = "select" => chain[w].known = {}

(* The policy that is put in force is the last one.                        *)
OneAtATime ==
    /\ \A i \in queue : i = sent /\ i \in Times
    /\ \A w \in Workers : chain[w].pc # "free" =>
          chain[w].policy = sent /\ sent \in Times

(* What a process that has compared the rows with the policy knows stays   *)
(* true, whatever the others do: every row that the policy lacks is to be  *)
(* destroyed, every role action is there or is to be created.              *)
Replacing(w) ==
    /\ chain[w].new \subseteq RuleOf(sent)
    /\ chain[w].known \subseteq RuleOf(sent)
    /\ \A r \in chain[w].old : /\ r.col = Policy[sent].on
                               /\ RoleAction(r) \notin RuleOf(sent)
    /\ LeftOver(sent) \subseteq chain[w].old
    /\ \A ra \in RuleOf(sent) \ chain[w].new :
          \E r \in RowsOf(sent) : RoleAction(r) = ra

(* The rows are those of the policy, except of one that is in the queue.   *)
Carries ==
    \A c \in {Col, ALL} : queue = {} \/ c # Policy[sent].on =>
       RolesOf(colRoles, c) = RoleActions(Says(Last(c, sent)))

IInv == /\ Typed /\ OneAtATime /\ Carries
        /\ \A w \in Workers : chain[w].pc = "replace" => Replacing(w)

-----------------------------------------------------------------------------
LEMMA RulesAreRecords ==
    ASSUME NEW i, NEW ra \in RuleOf(i)
    PROVE  ra = [name |-> ra.name, action |-> ra.action, role |-> ra.role]
<1>1. PICK n, a, r : ra = [name |-> n, action |-> a, role |-> r]
  BY DEF RuleOf, RoleActions, ForRule, ForRoles
<1> QED
  BY <1>1

LEMMA NothingSaid == RoleActions(NoPolicy) = {}
BY DEF RoleActions, NoPolicy, ForRule, ForRoles

(* The last policy of a collection, when one more is sent.                 *)
LEMMA LastOfOther ==
    ASSUME NEW n \in Nat, NEW c, n + 1 \in Times, Policy[n + 1].on # c
    PROVE  Last(c, n + 1) = Last(c, n)
<1>1. Sent(c, n + 1) = Sent(c, n)
  BY DEF Sent
<1> QED
  BY <1>1 DEF Last

LEMMA LastIsNew ==
    ASSUME NEW n \in Nat \ {0}
    PROVE  Last(Policy[n].on, n) = n
<1> DEFINE S == Sent(Policy[n].on, n)
<1>1. n \in S /\ \A j \in S : j \in Nat /\ j <= n
  BY DEF Sent
<1>2. \A i \in S : (\A j \in S : j <= i) => i = n
  BY <1>1
<1>3. (CHOOSE i \in S : \A j \in S : j <= i) = n
  BY <1>1, <1>2
<1> QED
  BY <1>1, <1>3 DEF Last, Latest

-----------------------------------------------------------------------------
LEMMA InitHolds == ASSUME Init PROVE IInv
<1>1. Typed /\ OneAtATime
  <2>1. \A c : Last(c, 0) = 0
    BY DEF Last, Latest, Sent
  <2> QED
    BY <2>1, PoliciesAssumption DEF Init, Typed, OneAtATime, Free, Setting
<1>2. Carries
  <2>1. \A c : Sent(c, 0) = {}
    BY DEF Sent
  <2>2. \A c : Says(Last(c, 0)) = NoPolicy
    BY <2>1 DEF Last, Latest, Says
  <2>3. \A c : RolesOf({}, c) = {}
    BY DEF RolesOf
  <2> QED
    BY <2>2, <2>3, NothingSaid DEF Carries, Init
<1> QED
  BY <1>1, <1>2 DEF IInv, Init, Free

(* A policy is sent when the one before it is in force.                    *)
LEMMA SendKeeps == ASSUME IInv, Blocking, SendPolicy PROVE IInv'
<1>1. /\ sent \in Nat /\ sent' = sent + 1 /\ sent' \in Times
      /\ queue = {} /\ queue' = {sent + 1}
      /\ \A w \in Workers : chain[w] = Free
      /\ chain' = chain /\ colRoles' = colRoles
  BY PoliciesAssumption DEF IInv, Typed, SendPolicy, InForce, Times
<1>2. Typed'
  <2>1. sent' <= Len(Policy)
    BY <1>1, PoliciesAssumption DEF Times
  <2>2. \A r \in colRoles : r.updated <= sent'
    <3> SUFFICES ASSUME NEW r \in colRoles PROVE r.updated <= sent'
      OBVIOUS
    <3> r.updated \in Nat /\ r.updated <= sent
      BY DEF IInv, Typed, Row
    <3> QED
      BY <1>1
  <2>3. \A c \in {Col, ALL} : Last(c, sent + 1) \in {0} \cup Times
    BY <1>1, LastOfOther, LastIsNew DEF IInv, Typed
  <2> QED
    BY <1>1, <2>1, <2>2, <2>3 DEF IInv, Typed
<1>3. OneAtATime' /\ \A w \in Workers : chain'[w].pc # "replace"
  BY <1>1 DEF OneAtATime, Free
<1>4. Carries'
  <2> SUFFICES ASSUME NEW c \in {Col, ALL}, c # Policy[sent + 1].on
               PROVE  RolesOf(colRoles, c) = RoleActions(Says(Last(c, sent + 1)))
    BY <1>1 DEF Carries
  <2> QED
    BY <1>1, LastOfOther DEF IInv, Carries
<1> QED
  BY <1>2, <1>3, <1>4 DEF IInv

-----------------------------------------------------------------------------
(* What a process does to its own state only: it starts, dies, compares    *)
(* the rows, finds a row that is there, and is done.                       *)
ChainStep(w) == /\ colRoles' = colRoles /\ sent' = sent
                /\ queue' \subseteq queue
                /\ \A v \in Workers \ {w} : chain'[v] = chain[v]

LEMMA OthersKeep ==
    ASSUME IInv, NEW w \in Workers, ChainStep(w), queue' = queue, Typed',
           chain'[w].pc # "free" => chain'[w].policy = sent /\ sent \in Times,
           chain'[w].pc = "replace" => Replacing(w)'
    PROVE  IInv'
<1>1. OneAtATime'
  BY DEF IInv, OneAtATime, ChainStep
<1>2. Carries'
  BY DEF IInv, Carries, ChainStep
<1>3. ASSUME NEW v \in Workers \ {w}, chain'[v].pc = "replace"
      PROVE  Replacing(v)'
  BY <1>3 DEF IInv, ChainStep, Replacing, LeftOver, RowsOf
<1> QED
  BY <1>1, <1>2, <1>3 DEF IInv

LEMMA StartKeeps ==
    ASSUME IInv, NEW w \in Workers, NEW i \in queue, Start(w, i) PROVE IInv'
<1>1. i = sent /\ sent \in Times /\ sent \in Nat
  BY DEF IInv, OneAtATime, Typed
<1>2. /\ chain' = [chain EXCEPT ![w] = [Free EXCEPT !.pc = "select",
                                                   !.policy = i]]
      /\ UNCHANGED <<colRoles, sent, queue>>
  BY DEF Start
<1>3. Typed'
  BY <1>1, <1>2 DEF IInv, Typed, Free, Setting
<1> QED
  BY <1>1, <1>2, <1>3, OthersKeep DEF ChainStep, IInv, Typed, Free, Setting

LEMMA CrashKeeps ==
    ASSUME IInv, NEW w \in Workers, Crash(w) PROVE IInv'
<1>1. /\ chain' = [chain EXCEPT ![w] = Free]
      /\ UNCHANGED <<colRoles, sent, queue>>
  BY DEF Crash
<1>2. Typed'
  BY <1>1 DEF IInv, Typed, Free, Setting
<1> QED
  BY <1>1, <1>2, OthersKeep DEF ChainStep, IInv, Typed, Free, Setting

LEMMA SelectKeeps ==
    ASSUME IInv, NEW w \in Workers, GetColRoles(w) PROVE IInv'
<1>1. /\ chain[w].policy = sent /\ sent \in Times /\ chain[w].known = {}
      /\ chain[w].pc = "select"
  BY DEF IInv, OneAtATime, Typed, GetColRoles
<1> DEFINE new == [chain[w] EXCEPT !.pc = "replace", !.new = Missing(sent),
                                   !.old = LeftOver(sent)]
<1>2. /\ chain' = [chain EXCEPT ![w] = new]
      /\ UNCHANGED <<colRoles, sent, queue>>
  BY <1>1 DEF GetColRoles
<1>3. /\ Missing(sent) \subseteq RuleOf(sent) /\ RuleOf(sent) \subseteq AllRules
      /\ LeftOver(sent) \subseteq colRoles /\ colRoles \subseteq Row
  BY <1>1 DEF Missing, LeftOver, RowsOf, AllRules, IInv, Typed
<1>4. chain[w] \in Setting /\ chain \in [Workers -> Setting]
  BY DEF IInv, Typed
<1>5. /\ new.pc = "replace" /\ new.policy = sent /\ new.known = {}
      /\ new.new = Missing(sent) /\ new.old = LeftOver(sent)
      /\ new \in Setting
  BY <1>1, <1>3, <1>4 DEF Setting
<1> HIDE DEF new
<1>6. chain'[w] = new /\ \A v \in Workers \ {w} : chain'[v] = chain[v]
  BY <1>2, <1>4
<1>7. Typed'
  BY <1>2, <1>4, <1>5, <1>6 DEF IInv, Typed
<1>8. Replacing(w)'
  BY <1>1, <1>2, <1>3, <1>5, <1>6
     DEF Replacing, Missing, LeftOver, RowsOf
<1> QED
  BY <1>1, <1>2, <1>5, <1>6, <1>7, <1>8, OthersKeep DEF ChainStep

-----------------------------------------------------------------------------
(* What a process does to the rows, while it replaces them.                *)
LEMMA InRolesOf ==
    ASSUME NEW rows, NEW c, NEW x
    PROVE  x \in RolesOf(rows, c)
             <=> \E r \in rows : r.col = c /\ RoleAction(r) = x
BY DEF RolesOf, RoleAction

LEMMA AtWork ==
    ASSUME IInv, NEW w \in Workers, chain[w].pc = "replace"
    PROVE  /\ chain[w].policy = sent /\ sent \in Times /\ sent \in Nat \ {0}
           /\ chain[w] \in Setting /\ chain \in [Workers -> Setting]
           /\ RuleOf(sent) \subseteq AllRules
           /\ Policy[sent].on \in {Col, ALL}
           /\ RoleActions(Says(Last(Policy[sent].on, sent))) = RuleOf(sent)
           /\ Replacing(w)
<1>1. /\ chain[w].policy = sent /\ sent \in Times
      /\ chain \in [Workers -> Setting] /\ Replacing(w)
  BY DEF IInv, OneAtATime, Typed
<1>2. sent \in Nat \ {0} /\ Policy[sent].on \in {Col, ALL}
  BY <1>1, PoliciesAssumption DEF Times
<1>3. RoleActions(Says(Last(Policy[sent].on, sent))) = RuleOf(sent)
  BY <1>2, LastIsNew DEF Says, RuleOf
<1> QED
  BY <1>1, <1>2, <1>3 DEF AllRules

(* The rows of other collections, and the role actions that the policy     *)
(* does not say, are left alone or go; no other worker minds.              *)
LEMMA RowsKeep ==
    ASSUME IInv, NEW w \in Workers, chain[w].pc = "replace",
           sent' = sent, queue' = queue, NEW new \in Setting,
           chain' = [chain EXCEPT ![w] = new],
           new.pc = "replace", new.policy = sent,
           colRoles' \subseteq Row, \A r \in colRoles' : r.updated <= sent,
           \A r \in colRoles' \ colRoles :
              r.col = Policy[sent].on /\ RoleAction(r) \in RuleOf(sent),
           \A r \in colRoles :
              r.col # Policy[sent].on \/ RoleAction(r) \in RuleOf(sent) =>
                 \E s \in colRoles' : s.col = r.col
                                      /\ RoleAction(s) = RoleAction(r),
           Replacing(w)'
    PROVE  IInv'
<1>1. Typed' /\ OneAtATime'
  BY DEF IInv, Typed, OneAtATime
<1>2. ASSUME NEW v \in Workers \ {w}, chain'[v].pc = "replace"
      PROVE  Replacing(v)'
  <2>1. chain'[v] = chain[v] /\ Replacing(v)
    BY <1>2 DEF IInv, Typed
  <2>2. LeftOver(sent)' \subseteq LeftOver(sent)
    BY DEF LeftOver, RowsOf
  <2>3. \A r \in RowsOf(sent) : RoleAction(r) \in RuleOf(sent) =>
           \E s \in RowsOf(sent)' : RoleAction(s) = RoleAction(r)
    BY DEF RowsOf
  <2> QED
    BY <2>1, <2>2, <2>3 DEF Replacing
<1>3. Carries'
  <2> DEFINE on == Policy[sent].on
  <2>1. ASSUME NEW c, c # on \/ RolesOf(colRoles, c) = RuleOf(sent)
        PROVE  RolesOf(colRoles', c) = RolesOf(colRoles, c)
    <3>1. ASSUME NEW x
          PROVE  x \in RolesOf(colRoles', c) <=> x \in RolesOf(colRoles, c)
      <4>1. x \in RolesOf(colRoles', c)
              <=> \E r \in colRoles' : r.col = c /\ RoleAction(r) = x
        BY InRolesOf
      <4>2. x \in RolesOf(colRoles, c)
              <=> \E r \in colRoles : r.col = c /\ RoleAction(r) = x
        BY InRolesOf
      <4>3. CASE c # on
        BY <4>1, <4>2, <4>3
      <4>4. CASE c = on
        BY <4>1, <4>2, <4>4, <2>1
      <4> QED
        BY <4>3, <4>4
    <3> QED
      BY <3>1
  <2> QED
    BY <2>1, AtWork DEF IInv, Carries
<1> QED
  BY <1>1, <1>2, <1>3, AtWork DEF IInv

LEMMA CreateKeeps ==
    ASSUME IInv, NEW w \in Workers, NEW ra \in chain[w].new,
           CreateColRole(w, ra)
    PROVE  IInv'
<1> DEFINE new == [chain[w] EXCEPT !.new = @ \ {ra}]
           row == [col |-> Policy[sent].on, name |-> ra.name,
                   role |-> ra.role, action |-> ra.action,
                   updated |-> sent, id |-> sent]
<1>1. chain[w].pc = "replace"
  BY DEF CreateColRole
<1>2. ra \in RuleOf(sent) /\ ra \in AllRules
  BY <1>1, AtWork DEF Replacing
<1>3. /\ colRoles' = colRoles \cup {row} /\ sent' = sent /\ queue' = queue
      /\ chain' = [chain EXCEPT ![w] = new]
  BY <1>1, AtWork DEF CreateColRole
<1>4. /\ row \in Row /\ row.updated <= sent /\ row.col = Policy[sent].on
      /\ RoleAction(row) = ra
  BY <1>1, <1>2, AtWork, RulesAreRecords DEF Row, RoleAction
<1>5. /\ new \in Setting /\ new.pc = "replace" /\ new.policy = sent
      /\ new.new = chain[w].new \ {ra} /\ new.known = chain[w].known
      /\ new.old = chain[w].old
  BY <1>1, AtWork DEF Setting
<1> HIDE DEF new, row
<1>6. chain'[w] = new
  BY <1>1, <1>3, AtWork
<1>7. Replacing(w)'
  BY <1>1, <1>2, <1>3, <1>4, <1>5, <1>6, AtWork
     DEF Replacing, LeftOver, RowsOf
<1>8. colRoles' \subseteq Row /\ \A r \in colRoles' : r.updated <= sent
  BY <1>3, <1>4 DEF IInv, Typed
<1> QED
  BY <1>1, <1>2, <1>3, <1>4, <1>5, <1>7, <1>8, RowsKeep

LEMMA RefusedKeeps ==
    ASSUME IInv, NEW w \in Workers, NEW ra \in chain[w].new,
           CreateRefused(w, ra)
    PROVE  IInv'
<1> DEFINE new == [chain[w] EXCEPT !.new = @ \ {ra}, !.known = @ \cup {ra}]
<1>1. chain[w].pc = "replace"
  BY DEF CreateRefused
<1>2. /\ ra \in RuleOf(sent) /\ ra \in AllRules
      /\ \E r \in RowsOf(sent) : RoleAction(r) = ra
  BY <1>1, AtWork DEF Replacing, CreateRefused
<1>3. /\ colRoles' = colRoles /\ sent' = sent /\ queue' = queue
      /\ chain' = [chain EXCEPT ![w] = new]
  BY <1>1, AtWork DEF CreateRefused
<1>4. /\ new \in Setting /\ new.pc = "replace" /\ new.policy = sent
      /\ new.new = chain[w].new \ {ra}
      /\ new.known = chain[w].known \cup {ra} /\ new.old = chain[w].old
  BY <1>1, <1>2, AtWork DEF Setting
<1> HIDE DEF new
<1>5. chain'[w] = new
  BY <1>1, <1>3, AtWork
<1>6. Replacing(w)'
  BY <1>1, <1>2, <1>3, <1>4, <1>5, AtWork DEF Replacing, LeftOver, RowsOf
<1>7. colRoles' \subseteq Row /\ \A r \in colRoles' : r.updated <= sent
  BY <1>3 DEF IInv, Typed
<1> QED
  BY <1>1, <1>3, <1>4, <1>6, <1>7, RowsKeep

LEMMA UpdateKeeps ==
    ASSUME IInv, NEW w \in Workers, NEW ra \in chain[w].known,
           UpdateColRole(w, ra)
    PROVE  IInv'
<1> DEFINE new == [chain[w] EXCEPT !.known = @ \ {ra}]
           Upd(r) == IF r \in RowsOf(sent) /\ Updatable(r, ra, sent)
                     THEN [r EXCEPT !.updated = sent] ELSE r
<1>1. chain[w].pc = "replace"
  BY DEF UpdateColRole
<1>2. ra \in RuleOf(sent)
  BY <1>1, AtWork DEF Replacing
<1>3. /\ colRoles' = {Upd(r) : r \in colRoles}
      /\ sent' = sent /\ queue' = queue
      /\ chain' = [chain EXCEPT ![w] = new]
  BY <1>1, AtWork DEF UpdateColRole
<1>4. ASSUME NEW r \in colRoles
      PROVE  /\ Upd(r) \in Row /\ Upd(r).updated <= sent
             /\ Upd(r).col = r.col /\ RoleAction(Upd(r)) = RoleAction(r)
             /\ Upd(r) # r => r.col = Policy[sent].on /\ RoleAction(r) = ra
  <2>1. r \in Row /\ r.updated <= sent /\ sent \in Nat
    BY DEF IInv, Typed
  <2>2. CASE r \in RowsOf(sent) /\ Updatable(r, ra, sent)
    <3>1. Upd(r) = [r EXCEPT !.updated = sent]
      BY <2>2
    <3>2. r.col = Policy[sent].on /\ RoleAction(r) = ra
      BY <2>2 DEF RowsOf, Updatable
    <3> QED
      BY <2>1, <3>1, <3>2 DEF Row, RoleAction
  <2>3. CASE ~(r \in RowsOf(sent) /\ Updatable(r, ra, sent))
    BY <2>1, <2>3
  <2> QED
    BY <2>2, <2>3
<1>5. /\ new \in Setting /\ new.pc = "replace" /\ new.policy = sent
      /\ new.new = chain[w].new /\ new.known = chain[w].known \ {ra}
      /\ new.old = chain[w].old
  BY <1>1, AtWork DEF Setting
<1> HIDE DEF new, Upd
<1>6. chain'[w] = new
  BY <1>1, <1>3, AtWork
<1>7. colRoles' \subseteq Row /\ \A r \in colRoles' : r.updated <= sent
  BY <1>3, <1>4
<1>8. \A r \in colRoles' \ colRoles :
         r.col = Policy[sent].on /\ RoleAction(r) \in RuleOf(sent)
  BY <1>2, <1>3, <1>4
<1>9. \A r \in colRoles : \E s \in colRoles' :
         s.col = r.col /\ RoleAction(s) = RoleAction(r)
  BY <1>3, <1>4
<1>10. Replacing(w)'
  <2>1. LeftOver(sent)' \subseteq LeftOver(sent)
    BY <1>3, <1>8 DEF LeftOver, RowsOf
  <2>2. \A r \in RowsOf(sent) :
           \E s \in RowsOf(sent)' : RoleAction(s) = RoleAction(r)
    BY <1>3, <1>9 DEF RowsOf
  <2> QED
    BY <1>1, <1>3, <1>5, <1>6, <2>1, <2>2, AtWork DEF Replacing
<1> QED
  BY <1>1, <1>3, <1>5, <1>7, <1>8, <1>9, <1>10, RowsKeep

(* Only rows that the policy does not say are destroyed.                   *)
LEMMA DestroyedUnsaid ==
    ASSUME IInv, NEW w \in Workers, NEW row \in chain[w].old,
           DestroyColRole(w, row)
    PROVE  /\ chain[w].pc = "replace" /\ chain[w].new = {}
           /\ colRoles' \subseteq colRoles /\ row \notin colRoles'
           /\ \A r \in colRoles :
                 r.col # Policy[sent].on \/ RoleAction(r) \in RuleOf(sent)
                    => r \in colRoles'
<1>1. /\ chain[w].pc = "replace" /\ chain[w].new = {}
      /\ chain[w].policy = sent
  BY AtWork DEF DestroyColRole, Replaced
<1>2. colRoles' = {r \in colRoles :
                     ~(/\ r.col = row.col /\ RoleAction(r) = RoleAction(row)
                       /\ r.id = row.id /\ r.updated <= sent)}
  BY <1>1 DEF DestroyColRole
<1>3. row.col = Policy[sent].on /\ RoleAction(row) \notin RuleOf(sent)
  BY <1>1, AtWork DEF Replacing
<1>4. row \in colRoles => row.updated <= sent
  BY DEF IInv, Typed
<1> QED
  BY <1>1, <1>2, <1>3, <1>4

LEMMA DestroyKeeps ==
    ASSUME IInv, NEW w \in Workers, NEW row \in chain[w].old,
           DestroyColRole(w, row)
    PROVE  IInv'
<1> DEFINE new == [chain[w] EXCEPT !.old = @ \ {row}]
<1>1. /\ chain[w].pc = "replace"
      /\ colRoles' \subseteq colRoles /\ row \notin colRoles'
      /\ \A r \in colRoles :
            r.col # Policy[sent].on \/ RoleAction(r) \in RuleOf(sent)
               => r \in colRoles'
  BY DestroyedUnsaid
<1>2. /\ sent' = sent /\ queue' = queue
      /\ chain' = [chain EXCEPT ![w] = new]
  BY DEF DestroyColRole
<1>3. /\ new \in Setting /\ new.pc = "replace" /\ new.policy = sent
      /\ new.new = chain[w].new /\ new.known = chain[w].known
      /\ new.old = chain[w].old \ {row}
  BY <1>1, AtWork DEF Setting
<1> HIDE DEF new
<1>4. chain'[w] = new
  BY <1>1, <1>2, AtWork
<1>5. Replacing(w)'
  <2>1. LeftOver(sent)' \subseteq LeftOver(sent) \ {row}
    BY <1>1, <1>2 DEF LeftOver, RowsOf
  <2>2. \A r \in RowsOf(sent) : RoleAction(r) \in RuleOf(sent)
                                  => r \in RowsOf(sent)'
    BY <1>1, <1>2 DEF RowsOf
  <2> QED
    BY <1>1, <1>2, <1>3, <1>4, <2>1, <2>2, AtWork DEF Replacing
<1>6. colRoles' \subseteq Row /\ \A r \in colRoles' : r.updated <= sent
  BY <1>1 DEF IInv, Typed
<1>7. \A r \in colRoles' \ colRoles :
         r.col = Policy[sent].on /\ RoleAction(r) \in RuleOf(sent)
  BY <1>1
<1>8. \A r \in colRoles :
         r.col # Policy[sent].on \/ RoleAction(r) \in RuleOf(sent) =>
            \E s \in colRoles' : s.col = r.col
                                 /\ RoleAction(s) = RoleAction(r)
  BY <1>1
<1> QED
  BY <1>1, <1>2, <1>3, <1>5, <1>6, <1>7, <1>8, RowsKeep

(* Nothing is left to create or to destroy: the rows are the policy's.     *)
LEMMA DoneKeeps ==
    ASSUME IInv, NEW w \in Workers, SetPolicyDone(w) PROVE IInv'
<1>1. /\ chain[w].pc = "replace" /\ chain[w].new = {} /\ chain[w].old = {}
      /\ chain[w].policy = sent
  BY AtWork DEF SetPolicyDone, Replaced
<1>2. /\ chain' = [chain EXCEPT ![w] = Free]
      /\ queue' = {} /\ colRoles' = colRoles /\ sent' = sent
  BY <1>1 DEF SetPolicyDone, IInv, OneAtATime
<1>3. /\ chain'[w] = Free /\ Free.pc = "free"
      /\ \A v \in Workers \ {w} : chain'[v] = chain[v]
  BY <1>1, <1>2, AtWork DEF Free
<1>4. Typed' /\ OneAtATime'
  BY <1>1, <1>2, <1>3 DEF IInv, Typed, OneAtATime, Free, Setting
<1>5. RolesOf(colRoles, Policy[sent].on) = RuleOf(sent)
  <2>1. LeftOver(sent) = {}
    BY <1>1, AtWork DEF Replacing
  <2>2. \A ra \in RuleOf(sent) : \E r \in RowsOf(sent) : RoleAction(r) = ra
    BY <1>1, AtWork DEF Replacing
  <2>3. \A r \in RowsOf(sent) : RoleAction(r) \in RuleOf(sent)
    BY <2>1 DEF LeftOver
  <2>4. ASSUME NEW x
        PROVE  x \in RolesOf(colRoles, Policy[sent].on) <=> x \in RuleOf(sent)
    BY <2>2, <2>3, InRolesOf DEF RowsOf
  <2> QED
    BY <2>4
<1>6. Carries'
  <2> SUFFICES ASSUME NEW c \in {Col, ALL}
               PROVE  RolesOf(colRoles, c) = RoleActions(Says(Last(c, sent)))
    BY <1>2 DEF Carries
  <2>1. CASE c = Policy[sent].on
    BY <1>1, <1>5, <2>1, AtWork
  <2>2. CASE c # Policy[sent].on
    BY <2>2 DEF IInv, Carries
  <2> QED
    BY <2>1, <2>2
<1>7. ASSUME NEW v \in Workers \ {w}, chain'[v].pc = "replace"
      PROVE  Replacing(v)'
  BY <1>2, <1>3, <1>7 DEF IInv, Replacing, LeftOver, RowsOf
<1> QED
  BY <1>3, <1>4, <1>6, <1>7 DEF IInv

LEMMA SameKeeps ==
    ASSUME IInv, UNCHANGED <<colRoles, sent, queue, chain>> PROVE IInv'
BY DEF IInv, Typed, OneAtATime, Carries, Replacing, LeftOver, RowsOf

LEMMA NextKeeps == ASSUME IInv, Blocking, [Next]_vars PROVE IInv'
<1>1. CASE SendPolicy
  BY <1>1, SendKeeps
<1>2. ASSUME NEW w \in Workers, SetPolicy(w) PROVE IInv'
  <2>1. CASE \E i \in queue : Start(w, i)
    BY <2>1, StartKeeps
  <2>2. CASE GetColRoles(w)
    BY <2>2, SelectKeeps
  <2>3. CASE \E ra \in chain[w].new : CreateColRole(w, ra) \/ CreateRefused(w, ra)
    BY <2>3, CreateKeeps, RefusedKeeps
  <2>4. CASE \E ra \in chain[w].known : UpdateColRole(w, ra)
    BY <2>4, UpdateKeeps
  <2>5. CASE \E row \in chain[w].old : DestroyColRole(w, row)
    BY <2>5, DestroyKeeps
  <2>6. CASE SetPolicyDone(w)
    BY <2>6, DoneKeeps
  <2> QED
    BY <1>2, <2>1, <2>2, <2>3, <2>4, <2>5, <2>6 DEF SetPolicy
<1>3. ASSUME NEW w \in Workers, Crash(w) PROVE IInv'
  BY <1>3, CrashKeeps
<1>4. CASE Check
  <2>1. UNCHANGED <<colRoles, sent, queue, chain>>
    BY <1>4 DEF Check, BeginCheck, CheckPolicy, CheckAttrPolicy, CheckRole,
                Decide, EndCheck
  <2> QED
    BY <2>1, SameKeeps
<1>5. CASE UNCHANGED vars
  BY <1>5, SameKeeps DEF vars
<1> QED
  BY <1>1, <1>2, <1>3, <1>4, <1>5 DEF Next

-----------------------------------------------------------------------------
(* When nothing is being put in force, the rows are the last policy's.     *)
LEMMA InForceCarry ==
    ASSUME IInv, InForce, NEW c \in {Col, ALL}
    PROVE  Carry(colRoles, c, Says(Last(c, sent)))
<1>1. RolesOf(colRoles, c) = RoleActions(Says(Last(c, sent)))
  BY DEF IInv, Carries, InForce
<1>2. NULL \notin DOMAIN NoPolicy.attrs
  BY DEF NoPolicy
<1>3. Last(c, sent) = 0 \/ Last(c, sent) \in Times
  BY DEF IInv, Typed
<1>4. NULL \notin DOMAIN Says(Last(c, sent)).attrs
  BY <1>2, <1>3, PoliciesAssumption DEF Says
<1> QED
  BY <1>1, <1>4 DEF Carry

LEMMA Invariance == ASSUME Blocking PROVE Spec => []IInv
<1>1. Init => IInv
  BY InitHolds
<1>2. IInv /\ [Next]_vars => IInv'
  BY NextKeeps
<1> QED
  BY <1>1, <1>2, PTL DEF Spec

(* When no policy is being put in force, everybody may change what the     *)
(* latest policy lets them change and nothing else, whatever policies came *)
(* before and however many processes handled it or died over it            *)
(* (col-roles.js:122-225, policy.js:165-247).                              *)
THEOREM LatestPolicyDecides == ASSUME Blocking PROVE Spec => []LatestDecides
<1>1. IInv => LatestDecides
  <2> SUFFICES ASSUME IInv, InForce,
                      NEW s \in Subjects, NEW n \in Names \cup {NULL},
                      NEW a \in {READ, UPDATE}
               PROVE  ModPermitted(colRoles, Col, s, Owner, a, n)
                         = Allows(Says(Last(Col, sent)), s, Owner, a, n)
    BY DEF LatestDecides
  <2>1. Carry(colRoles, Col, Says(Last(Col, sent)))
    BY InForceCarry
  <2>2. ModPermitted(colRoles, Col, s, Owner, a, n)
           <=> Allows(Says(Last(Col, sent)), s, Owner, a, n)
    BY <2>1, ModAsPolicySays
  <2>3. /\ ModPermitted(colRoles, Col, s, Owner, a, n) \in BOOLEAN
        /\ Allows(Says(Last(Col, sent)), s, Owner, a, n) \in BOOLEAN
    BY DEF ModPermitted, Allows
  <2> QED
    BY <2>2, <2>3
<1> QED
  BY <1>1, Invariance, PTL

(* Then the feed shows an attribute to those, and only those, who may read *)
(* it by the latest policies of the collection and of the database         *)
(* (changes-query.js:114-172).                                             *)
THEOREM FeedFollowsPolicies == ASSUME Blocking PROVE Spec => []FeedAsPoliciesSay
<1>1. IInv => FeedAsPoliciesSay
  <2> SUFFICES ASSUME IInv, InForce, NEW s \in Subjects, NEW n \in Names
               PROVE  Shown(colRoles, Col, ALL, s, Owner, n)
                         = MayRead(Says(Last(Col, sent)),
                                   Says(Last(ALL, sent)), s, Owner, n)
    BY DEF FeedAsPoliciesSay
  <2>1. /\ Carry(colRoles, Col, Says(Last(Col, sent)))
        /\ Carry(colRoles, ALL, Says(Last(ALL, sent)))
    BY InForceCarry
  <2>2. Nothing \notin colRoles
    <3>1. DOMAIN Nothing = {"role"}
      BY DEF Nothing
    <3>2. \A r \in Row : "col" \in DOMAIN r
      BY DEF Row
    <3> QED
      BY <3>1, <3>2 DEF IInv, Typed
  <2>3. IsSubject(s) /\ n # NULL
    BY PoliciesAssumption
  <2>4. Shown(colRoles, Col, ALL, s, Owner, n)
           <=> MayRead(Says(Last(Col, sent)), Says(Last(ALL, sent)),
                       s, Owner, n)
    BY <2>1, <2>2, <2>3, FeedAsPolicySays
  <2>5. /\ Shown(colRoles, Col, ALL, s, Owner, n) \in BOOLEAN
        /\ MayRead(Says(Last(Col, sent)), Says(Last(ALL, sent)), s, Owner, n)
              \in BOOLEAN
    BY DEF Shown, MayRead
  <2> QED
    BY <2>4, <2>5
<1> QED
  BY <1>1, Invariance, PTL

(* Where every policy gives somebody something, a collection that has a    *)
(* policy always has rows: the new ones are there before the first old one *)
(* is destroyed, even if another process is ahead (col-roles.js:183-209).  *)
(* Without rows everything would be permitted to everyone (policy.js:242). *)
THEOREM AlwaysProtected ==
    ASSUME Blocking, \A i \in Times : RuleOf(i) # {}
    PROVE  Spec => NeverUnprotected
<1> DEFINE Stays == \A c \in {Col, ALL} :
                       HasPolicy(colRoles, c) => HasPolicy(colRoles', c)
<1>1. ASSUME IInv, NEW w \in Workers, NEW row \in chain[w].old,
             DestroyColRole(w, row), NEW c \in {Col, ALL},
             HasPolicy(colRoles, c)
      PROVE  HasPolicy(colRoles', c)
  <2>1. /\ chain[w].pc = "replace" /\ chain[w].new = {}
        /\ \A r \in colRoles :
              r.col # Policy[sent].on \/ RoleAction(r) \in RuleOf(sent)
                 => r \in colRoles'
    BY <1>1, DestroyedUnsaid
  <2>2. CASE c # Policy[sent].on
    BY <1>1, <2>1, <2>2 DEF HasPolicy
  <2>3. CASE c = Policy[sent].on
    <3>1. PICK ra \in RuleOf(sent) : TRUE
      BY <1>1, <2>1, AtWork
    <3>2. PICK r \in RowsOf(sent) : RoleAction(r) = ra
      BY <1>1, <2>1, <3>1, AtWork DEF Replacing
    <3> QED
      BY <2>1, <2>3, <3>1, <3>2 DEF HasPolicy, RowsOf
  <2> QED
    BY <2>2, <2>3
<1>2. ASSUME IInv, NEW w \in Workers, NEW ra, UpdateColRole(w, ra),
             NEW c, HasPolicy(colRoles, c)
      PROVE  HasPolicy(colRoles', c)
  <2>1. \A r \in colRoles : \E s \in colRoles' : s.col = r.col
    <3> SUFFICES ASSUME NEW r \in colRoles
                 PROVE  \E s \in colRoles' : s.col = r.col
      OBVIOUS
    <3>1. r \in Row
      BY <1>2 DEF IInv, Typed
    <3>2. [r EXCEPT !.updated = chain[w].policy].col = r.col
      BY <3>1 DEF Row
    <3> QED
      BY <1>2, <3>2 DEF UpdateColRole
  <2> QED
    BY <1>2, <2>1 DEF HasPolicy
<1>3. ASSUME IInv, [Next]_vars PROVE Stays
  <2>1. CASE colRoles \subseteq colRoles'
    BY <2>1 DEF HasPolicy
  <2>2. CASE \E w \in Workers : \E row \in chain[w].old :
                DestroyColRole(w, row)
    BY <1>1, <1>3, <2>2
  <2>3. CASE \E w \in Workers : \E ra \in chain[w].known :
                UpdateColRole(w, ra)
    BY <1>2, <1>3, <2>3
  <2>4. \/ colRoles \subseteq colRoles'
        \/ \E w \in Workers : \E row \in chain[w].old : DestroyColRole(w, row)
        \/ \E w \in Workers : \E ra \in chain[w].known : UpdateColRole(w, ra)
    BY <1>3 DEF Next, vars, SendPolicy, SetPolicy, Start, GetColRoles,
                CreateColRole, CreateRefused, SetPolicyDone, Crash, Check,
                BeginCheck, CheckPolicy, CheckAttrPolicy, CheckRole, Decide,
                EndCheck
  <2> QED
    BY <2>1, <2>2, <2>3, <2>4
<1>4. IInv /\ [Next]_vars => [Stays]_vars
  BY <1>3
<1> QED
  BY <1>4, Invariance, PTL DEF Spec, NeverUnprotected

-----------------------------------------------------------------------------
(* The types need no order of the policies.                                *)
TInv ==
    /\ TypeOK /\ colRoles \subseteq Row /\ chain \in [Workers -> Setting]
    /\ "pc" \in DOMAIN check
    /\ \A w \in Workers : chain[w].pc # "free" => chain[w].policy \in 1..sent
    /\ \A w \in Workers : chain[w].new \subseteq AllRules

LEMMA SentInNat == ASSUME TInv PROVE sent \in Nat /\ sent <= Len(Policy)
BY PoliciesAssumption DEF TInv, TypeOK

LEMMA InitTypes == ASSUME Init PROVE TInv
BY PoliciesAssumption DEF Init, TInv, TypeOK, Free, NoCheck, Setting

(* A process changes its own state; the rows stay well formed.             *)
LEMMA WorkerTypes ==
    ASSUME TInv, NEW w \in Workers, NEW new \in Setting,
           chain' = [chain EXCEPT ![w] = new],
           new = Free \/ (new.pc # "free" /\ new.policy \in 1..sent),
           sent' = sent, queue' \subseteq queue, crashes' \in 0..Crashes,
           check' = check, colRoles' \subseteq Row,
           \A r \in colRoles' : /\ RoleAction(r) \in AllRules
                                /\ r.updated \in 1..sent,
           \A r, s \in colRoles' :
              r.col = s.col /\ RoleAction(r) = RoleAction(s) => r = s
    PROVE  TInv'
<1>1. chain'[w] = new /\ \A v \in Workers \ {w} : chain'[v] = chain[v]
  BY DEF TInv
<1>2. chain' \in [Workers -> Setting]
  BY DEF TInv
<1>3. \A r \in colRoles' : r.col \in {Col, ALL}
  BY DEF Row
<1>4. \A v \in Workers : /\ chain'[v].pc \in {"free", "select", "replace"}
                         /\ chain'[v].new \subseteq AllRules
  BY <1>2 DEF Setting
<1>5. \A v \in Workers :
         /\ chain'[v].policy \in 0..sent
         /\ chain'[v].pc = "free" <=> chain'[v] = Free
         /\ chain'[v].pc # "free" => chain'[v].policy \in 1..sent
  <2>1. /\ new.policy \in 0..sent
        /\ new.pc = "free" <=> new = Free
        /\ new.pc # "free" => new.policy \in 1..sent
    BY SentInNat DEF Free
  <2> QED
    BY <1>1, <2>1 DEF TInv, TypeOK
<1>6. TypeOK'
  BY <1>3, <1>4, <1>5 DEF TInv, TypeOK, AllRules
<1> QED
  BY <1>2, <1>4, <1>5, <1>6 DEF TInv

LEMMA RowsTyped ==
    ASSUME TInv
    PROVE  /\ colRoles \subseteq Row
           /\ \A r \in colRoles : /\ RoleAction(r) \in AllRules
                                  /\ r.updated \in 1..sent
           /\ \A r, s \in colRoles :
                 r.col = s.col /\ RoleAction(r) = RoleAction(s) => r = s
BY DEF TInv, TypeOK, AllRules

LEMMA SetPolicyTypes ==
    ASSUME TInv, NEW w \in Workers, SetPolicy(w) \/ Crash(w) PROVE TInv'
<1> DEFINE c == chain[w]
<1>1. c \in Setting /\ c.new \subseteq AllRules /\ sent \in Nat
  BY SentInNat DEF TInv
<1>2. c.pc # "free" => c.policy \in 1..sent
  BY DEF TInv
<1>3. crashes \in 0..Crashes /\ queue \subseteq 1..sent /\ Crashes \in Nat
  BY PoliciesAssumption DEF TInv, TypeOK
<1>4. ASSUME NEW i \in queue, Start(w, i) PROVE TInv'
  <2> DEFINE new == [c EXCEPT !.pc = "select", !.policy = i]
  <2>1. i \in 1..sent /\ i \in Nat
    BY <1>1, <1>3
  <2>3. chain' = [chain EXCEPT ![w] = new]
    BY <1>4 DEF Start
  <2>2. new \in Setting /\ new.pc = "select" /\ new.policy = i
    BY <1>1, <2>1 DEF Setting
  <2> HIDE DEF new, c
  <2> QED
    BY <1>3, <1>4, <2>1, <2>2, <2>3, RowsTyped, WorkerTypes DEF Start
<1>5. CASE GetColRoles(w)
  <2> DEFINE new == [c EXCEPT !.pc = "replace", !.new = Missing(c.policy),
                              !.old = LeftOver(c.policy)]
  <2>1. chain' = [chain EXCEPT ![w] = new] /\ c.policy \in 1..sent
    BY <1>2, <1>5 DEF GetColRoles
  <2>2. c.policy \in Times
    BY <2>1, SentInNat, PoliciesAssumption DEF Times
  <2>3. Missing(c.policy) \subseteq AllRules /\ LeftOver(c.policy) \subseteq Row
    BY <2>2, RowsTyped DEF Missing, AllRules, LeftOver, RowsOf
  <2>4. new \in Setting /\ new.pc = "replace" /\ new.policy = c.policy
    BY <1>1, <2>3 DEF Setting
  <2> HIDE DEF new, c
  <2> QED
    BY <1>1, <1>3, <1>5, <2>1, <2>4, RowsTyped, WorkerTypes
       DEF GetColRoles
<1>6. ASSUME NEW ra \in c.new, CreateColRole(w, ra) PROVE TInv'
  <2> DEFINE new == [c EXCEPT !.new = @ \ {ra}]
             row == [col |-> Policy[c.policy].on, name |-> ra.name,
                     role |-> ra.role, action |-> ra.action,
                     updated |-> c.policy, id |-> c.policy]
  <2>1. /\ chain' = [chain EXCEPT ![w] = new] /\ c.pc = "replace"
        /\ colRoles' = colRoles \cup {row} /\ c.policy \in 1..sent
        /\ \A r \in RowsOf(c.policy) : RoleAction(r) # ra
    BY <1>2, <1>6 DEF CreateColRole
  <2>2. c.policy \in Times /\ c.policy \in Nat
    BY <1>1, <2>1, SentInNat, PoliciesAssumption DEF Times
  <2>3. ra \in AllRules /\ RoleAction(row) = ra
    BY <1>1, <1>6, RulesAreRecords DEF AllRules, RoleAction
  <2>4. row \in Row
    BY <2>2, <2>3, PoliciesAssumption DEF Row
  <2>5. row.col = Policy[c.policy].on /\ row.updated = c.policy
    OBVIOUS
  <2>6. new \in Setting /\ new.pc = "replace" /\ new.policy = c.policy
    BY <1>1, <2>1 DEF Setting
  <2> HIDE DEF new, c, row
  <2>8. \A r, s \in colRoles' :
           r.col = s.col /\ RoleAction(r) = RoleAction(s) => r = s
    BY <2>1, <2>3, <2>5, RowsTyped DEF RowsOf
  <2>9. \A r \in colRoles' : RoleAction(r) \in AllRules /\ r.updated \in 1..sent
    BY <2>1, <2>3, <2>5, RowsTyped
  <2>10. colRoles' \subseteq Row
    BY <2>1, <2>4, RowsTyped
  <2>11. /\ sent' = sent /\ queue' = queue /\ crashes' = crashes
         /\ check' = check
    BY <1>6 DEF CreateColRole
  <2> QED
    BY <1>1, <1>3, <2>1, <2>6, <2>8, <2>9, <2>10, <2>11, WorkerTypes
<1>7. ASSUME NEW ra \in c.new, CreateRefused(w, ra) PROVE TInv'
  <2> DEFINE new == [c EXCEPT !.new = @ \ {ra}, !.known = @ \cup {ra}]
  <2>1. /\ chain' = [chain EXCEPT ![w] = new] /\ c.pc = "replace"
        /\ c.policy \in 1..sent
    BY <1>2, <1>7 DEF CreateRefused
  <2>2. new \in Setting /\ new.pc = "replace" /\ new.policy = c.policy
    BY <1>1, <1>7, <2>1 DEF Setting
  <2> HIDE DEF new, c
  <2> QED
    BY <1>1, <1>3, <1>7, <2>1, <2>2, RowsTyped, WorkerTypes
       DEF CreateRefused
<1>8. ASSUME NEW ra \in c.known, UpdateColRole(w, ra) PROVE TInv'
  <2> DEFINE new == [c EXCEPT !.known = @ \ {ra}]
             i == c.policy
             Upd(r) == IF r \in RowsOf(i) /\ Updatable(r, ra, i)
                       THEN [r EXCEPT !.updated = i] ELSE r
  <2>1. /\ chain' = [chain EXCEPT ![w] = new] /\ c.pc = "replace"
        /\ i \in 1..sent /\ colRoles' = {Upd(r) : r \in colRoles}
    BY <1>2, <1>8 DEF UpdateColRole
  <2>2. new \in Setting /\ new.pc = "replace" /\ new.policy = c.policy
    BY <1>1, <2>1 DEF Setting
  <2>4. ASSUME NEW r \in colRoles
        PROVE  /\ Upd(r) \in Row /\ Upd(r).updated \in 1..sent
               /\ Upd(r).col = r.col /\ RoleAction(Upd(r)) = RoleAction(r)
    <3>1. r \in Row /\ r.updated \in 1..sent
      BY RowsTyped
    <3>2. i \in 1..sent /\ i \in Nat
      BY <1>1, <2>1
    <3> QED
      BY <3>1, <3>2 DEF Row, RoleAction
  <2> HIDE DEF new, c, i, Upd
  <2>5. colRoles' \subseteq Row
    BY <2>1, <2>4
  <2>6. \A r \in colRoles' : RoleAction(r) \in AllRules /\ r.updated \in 1..sent
    BY <2>1, <2>4, RowsTyped
  <2>7. \A r, s \in colRoles' :
           r.col = s.col /\ RoleAction(r) = RoleAction(s) => r = s
    BY <2>1, <2>4, RowsTyped
  <2>8. /\ sent' = sent /\ queue' = queue /\ crashes' = crashes
        /\ check' = check
    BY <1>8 DEF UpdateColRole
  <2> QED
    BY <1>1, <1>3, <2>1, <2>2, <2>5, <2>6, <2>7, <2>8, WorkerTypes DEF i
<1>9. ASSUME NEW row \in c.old, DestroyColRole(w, row) PROVE TInv'
  <2> DEFINE new == [c EXCEPT !.old = @ \ {row}]
  <2>1. /\ chain' = [chain EXCEPT ![w] = new] /\ c.pc = "replace"
        /\ c.policy \in 1..sent /\ colRoles' \subseteq colRoles
    BY <1>2, <1>9 DEF DestroyColRole, Replaced
  <2>2. new \in Setting /\ new.pc = "replace" /\ new.policy = c.policy
    BY <1>1, <2>1 DEF Setting
  <2> HIDE DEF new, c
  <2>4. /\ colRoles' \subseteq Row
        /\ \A r \in colRoles' : /\ RoleAction(r) \in AllRules
                                /\ r.updated \in 1..sent
        /\ \A r, s \in colRoles' :
              r.col = s.col /\ RoleAction(r) = RoleAction(s) => r = s
    BY <2>1, RowsTyped
  <2>5. /\ sent' = sent /\ queue' = queue /\ crashes' = crashes
        /\ check' = check
    BY <1>9 DEF DestroyColRole
  <2> QED
    BY <1>1, <1>3, <2>1, <2>2, <2>4, <2>5, WorkerTypes
<1>10. CASE SetPolicyDone(w) \/ Crash(w)
  <2>1. /\ chain' = [chain EXCEPT ![w] = Free] /\ queue' \subseteq queue
        /\ sent' = sent /\ colRoles' = colRoles /\ check' = check
        /\ crashes' \in 0..Crashes
    BY <1>3, <1>10 DEF SetPolicyDone, Crash
  <2>2. Free \in Setting
    BY DEF Free, Setting
  <2>3. /\ colRoles' \subseteq Row
        /\ \A r \in colRoles' : /\ RoleAction(r) \in AllRules
                                /\ r.updated \in 1..sent
        /\ \A r, s \in colRoles' :
              r.col = s.col /\ RoleAction(r) = RoleAction(s) => r = s
    BY <2>1, RowsTyped
  <2> QED
    BY <2>1, <2>2, <2>3, WorkerTypes
<1> QED
  BY <1>4, <1>5, <1>6, <1>7, <1>8, <1>9, <1>10 DEF SetPolicy

LEMMA NextTypes == ASSUME TInv, [Next]_vars PROVE TInv'
<1>1. CASE SendPolicy
  <2>1. sent \in Nat /\ sent' = sent + 1 /\ sent' <= Len(Policy)
        /\ Len(Policy) \in Nat
    BY <1>1, SentInNat, PoliciesAssumption DEF SendPolicy
  <2>2. sent' \in 0..Len(Policy) /\ queue' \subseteq 1..sent'
    BY <1>1, <2>1 DEF TInv, TypeOK, SendPolicy
  <2>3. "pc" \in DOMAIN check' /\ check'.pc = check.pc
    BY <1>1 DEF TInv, SendPolicy, Witness
  <2>4. /\ \A r \in colRoles : r.updated \in 1..sent'
        /\ \A w \in Workers : chain[w].policy \in 0..sent'
        /\ \A w \in Workers : chain[w].pc # "free"
                                 => chain[w].policy \in 1..sent'
    BY <2>1 DEF TInv, TypeOK
  <2>5. chain' = chain /\ colRoles' = colRoles /\ crashes' = crashes
    BY <1>1 DEF SendPolicy
  <2> QED
    BY <2>2, <2>3, <2>4, <2>5 DEF TInv, TypeOK
<1>2. CASE \E w \in Workers : SetPolicy(w) \/ Crash(w)
  BY <1>2, SetPolicyTypes
<1>3. CASE Check
  <2>1. UNCHANGED <<colRoles, sent, queue, chain, crashes>>
    BY <1>3 DEF Check, BeginCheck, CheckPolicy, CheckAttrPolicy, CheckRole,
                Decide, EndCheck
  <2>2. /\ "pc" \in DOMAIN check'
        /\ check'.pc \in {"none", "policy", "attr", "attrRole", "colRole",
                          "granted", "denied"}
    BY <1>3 DEF TInv, TypeOK, Check, BeginCheck, CheckPolicy, NoCheck,
                CheckAttrPolicy, CheckRole, Granted, Decide, EndCheck
  <2> QED
    BY <2>1, <2>2 DEF TInv, TypeOK
<1>4. CASE UNCHANGED vars
  BY <1>4 DEF vars, TInv, TypeOK
<1> QED
  BY <1>1, <1>2, <1>3, <1>4 DEF Next

(* The types; and whatever policies are set at the same time, a collection *)
(* has one row for a role, an action and a name (col-roles.js:80-86).      *)
THEOREM RowsAreUnique == Spec => []TypeOK
<1>1. TInv => TypeOK
  BY DEF TInv
<1> QED
  BY <1>1, InitTypes, NextTypes, PTL DEF Spec

-----------------------------------------------------------------------------
(* Permission checks while policies are put in force.  The role actions of *)
(* the collection's rows are all of the old or of the new policy, and of   *)
(* one of the two none is missing.                                         *)
OldSays == RoleActions(Says(Last(Col, sent - 1)))
NewSays == RoleActions(Says(Last(Col, sent)))
Mixed ==
    /\ Last(Col, sent - 1) \in {0} \cup Times
    /\ RolesOf(colRoles, Col) \subseteq OldSays \cup NewSays
    /\ \/ OldSays \subseteq RolesOf(colRoles, Col)
       \/ NewSays \subseteq RolesOf(colRoles, Col)

(* A policy that was in force during the check says something of the       *)
(* attribute; it lets the user do what is checked.                         *)
Said(k) == \E i \in k.during : \E ra \in RoleActions(Says(i)) : ra.name = k.name
Permits(k, i) == Allows(Says(i), k.subject, Owner, UPDATE, k.name)
Justified(k) ==
    \/ Said(k)
    \/ k.pc = "granted" /\ \E i \in k.during : Permits(k, i)
    \/ k.pc = "denied" /\ \E i \in k.during : \/ ~Permits(k, i)
                                              \/ RoleActions(Says(i)) = {}

Pcs == {"policy", "attr", "attrRole", "colRole", "granted", "denied"}
CheckRec == [pc : Pcs, subject : Subjects, name : Names,
             during : SUBSET ({0} \cup Times)]

Ongoing(k) ==
    /\ k \in CheckRec
    /\ Last(Col, sent) \in k.during
    /\ ~InForce => Last(Col, sent - 1) \in k.during
    /\ k.pc # "granted" => ~IsSuperUser(k.subject)
    /\ k.pc = "attrRole" => Said(k)
    /\ k.pc \in {"granted", "denied"} => Justified(k)

CInv == IInv /\ Mixed /\ (check = NoCheck \/ Ongoing(check))

LEMMA SaysNoNull == \A i \in {0} \cup Times : NULL \notin DOMAIN Says(i).attrs
BY PoliciesAssumption DEF Says, NoPolicy

(* Where nothing is said of the attribute, the collection's rule decides.  *)
LEMMA AllowsByCol ==
    ASSUME NEW policy, NEW n, \A ra \in RoleActions(policy) : ra.name # n,
           NEW subject, NEW owner, NEW a
    PROVE  Allows(policy, subject, owner, a, n)
             <=> \/ IsSuperUser(subject) \/ RoleActions(policy) = {}
                 \/ \E r : ColGives(policy, a, r) /\ Holds(subject, owner, r)
<1>1. \A b, r : ~AttrGives(policy, n, b, r)
  <2> SUFFICES ASSUME NEW b, NEW r, AttrGives(policy, n, b, r) PROVE FALSE
    OBVIOUS
  <2>1. [name |-> n, action |-> b, role |-> r] \in RoleActions(policy)
    BY InRoleActions
  <2> QED
    BY <2>1
<1>2. RolesFor(policy, a, n)
        = IF a \in DOMAIN policy.col THEN policy.col[a] ELSE {}
  <2>1. n \in DOMAIN policy.attrs =>
           {b \in DOMAIN policy.attrs[n] : policy.attrs[n][b] # {}} = {}
    BY <1>1 DEF AttrGives
  <2> QED
    BY <2>1 DEF RolesFor
<1>3. \A r : r \in RolesFor(policy, a, n) <=> ColGives(policy, a, r)
  BY <1>2 DEF ColGives
<1> QED
  BY <1>3 DEF Allows

LEMMA ColRoleByRoles ==
    ASSUME NEW subject, NEW owner, NEW a
    PROVE  HasColRole(colRoles, Col, subject, owner, a, NULL)
             <=> \E r : /\ [name |-> NULL, action |-> a, role |-> r]
                              \in RolesOf(colRoles, Col)
                        /\ Holds(subject, owner, r)
<1>1. \A r : [name |-> NULL, action |-> a, role |-> r] \in RolesOf(colRoles, Col)
               <=> \E x \in colRoles : /\ x.col = Col /\ x.name = NULL
                                       /\ x.action = a /\ x.role = r
  BY DEF RolesOf
<1> QED
  BY <1>1 DEF HasColRole

(* What is found in the rows is said by a policy of the check, and all     *)
(* that one of them says is found.                                         *)
LEMMA Seen ==
    ASSUME CInv, Ongoing(check)
    PROVE  /\ \A x \in RolesOf(colRoles, Col) :
                 \E i \in check.during : x \in RoleActions(Says(i))
           /\ \E j \in check.during :
                 RoleActions(Says(j)) \subseteq RolesOf(colRoles, Col)
<1>1. CASE InForce
  <2>1. RolesOf(colRoles, Col) = NewSays
    BY <1>1 DEF CInv, IInv, Carries, InForce, NewSays
  <2> QED
    BY <2>1 DEF Ongoing, NewSays
<1>2. CASE ~InForce
  BY <1>2 DEF CInv, Mixed, Ongoing, OldSays, NewSays
<1> QED
  BY <1>1, <1>2

-----------------------------------------------------------------------------
(* The statements of a check.                                              *)
LEMMA GrantedJustified ==
    ASSUME CInv, Ongoing(check), ~Said(check),
           HasColRole(colRoles, Col, check.subject, Owner, UPDATE, NULL)
    PROVE  \E i \in check.during : Permits(check, i)
<1>1. PICK r : /\ [name |-> NULL, action |-> UPDATE, role |-> r]
                     \in RolesOf(colRoles, Col)
               /\ Holds(check.subject, Owner, r)
  BY ColRoleByRoles
<1>2. PICK i \in check.during :
         [name |-> NULL, action |-> UPDATE, role |-> r] \in RoleActions(Says(i))
  BY <1>1, Seen
<1>3. NULL \notin DOMAIN Says(i).attrs
  BY SaysNoNull DEF Ongoing, CheckRec
<1>4. ColGives(Says(i), UPDATE, r)
  BY <1>2, <1>3, InRoleActions DEF AttrGives
<1>5. \A ra \in RoleActions(Says(i)) : ra.name # check.name
  BY DEF Said
<1> QED
  BY <1>1, <1>4, <1>5, AllowsByCol DEF Permits

LEMMA DeniedJustified ==
    ASSUME CInv, Ongoing(check), ~Said(check), check.pc # "granted",
           ~HasColRole(colRoles, Col, check.subject, Owner, UPDATE, NULL)
    PROVE  \E i \in check.during : \/ ~Permits(check, i)
                                   \/ RoleActions(Says(i)) = {}
<1>1. PICK j \in check.during :
         RoleActions(Says(j)) \subseteq RolesOf(colRoles, Col)
  BY Seen
<1>2. \A ra \in RoleActions(Says(j)) : ra.name # check.name
  BY DEF Said
<1>3. ASSUME Permits(check, j), RoleActions(Says(j)) # {} PROVE FALSE
  <2>1. ~IsSuperUser(check.subject)
    BY DEF Ongoing
  <2>2. PICK r : /\ ColGives(Says(j), UPDATE, r)
                 /\ Holds(check.subject, Owner, r)
    BY <1>2, <1>3, <2>1, AllowsByCol DEF Permits
  <2>3. [name |-> NULL, action |-> UPDATE, role |-> r] \in RoleActions(Says(j))
    BY <2>2, InRoleActions
  <2> QED
    BY <1>1, <2>2, <2>3, ColRoleByRoles
<1> QED
  BY <1>3

LEMMA UnprotectedJustified ==
    ASSUME CInv, Ongoing(check), ~HasPolicy(colRoles, Col)
    PROVE  \E i \in check.during : Permits(check, i)
<1>1. RolesOf(colRoles, Col) = {}
  BY DEF RolesOf, HasPolicy
<1>2. PICK j \in check.during : RoleActions(Says(j)) = {}
  BY <1>1, Seen
<1> QED
  BY <1>2 DEF Permits, Allows

LEMMA AttrFoundIsSaid ==
    ASSUME CInv, Ongoing(check), HasAttrPolicy(colRoles, Col, check.name)
    PROVE  Said(check)
<1>1. PICK r \in colRoles : r.col = Col /\ r.name = check.name
  BY DEF HasAttrPolicy
<1>2. RoleAction(r) \in RolesOf(colRoles, Col)
  BY <1>1, InRolesOf
<1> QED
  BY <1>1, <1>2, Seen DEF Said, RoleAction

(* A check goes on to its next statement, or ends.                         *)
LEMMA DecideKeeps ==
    ASSUME CInv, Ongoing(check), NEW pc \in Pcs, Decide(pc),
           pc # "granted" => check.pc # "granted",
           pc = "attrRole" => Said(check),
           pc = "granted" => Said(check)
                             \/ \E i \in check.during : Permits(check, i),
           pc = "denied" => \/ Said(check)
                            \/ \E i \in check.during :
                                  ~Permits(check, i) \/ RoleActions(Says(i)) = {}
    PROVE  Ongoing(check)'
<1>1. /\ check' = [check EXCEPT !.pc = pc] /\ check \in CheckRec
      /\ sent' = sent /\ queue' = queue /\ chain' = chain
  BY DEF Decide, Ongoing
<1>2. /\ check' \in CheckRec /\ check'.pc = pc
      /\ check'.subject = check.subject /\ check'.name = check.name
      /\ check'.during = check.during
  BY <1>1 DEF CheckRec
<1>3. InForce' = InForce
  BY <1>1 DEF InForce
<1>4. Said(check') <=> Said(check)
  BY <1>2 DEF Said
<1>5. \A i : Permits(check', i) <=> Permits(check, i)
  BY <1>2 DEF Permits
<1>6. check'.pc \in {"granted", "denied"} => Justified(check')
  BY <1>2, <1>4, <1>5 DEF Justified
<1> QED
  BY <1>1, <1>2, <1>3, <1>4, <1>6 DEF Ongoing

LEMMA CheckKeeps ==
    ASSUME CInv, Check PROVE CInv'
<1>1. UNCHANGED <<colRoles, sent, queue, chain>>
  BY DEF Check, BeginCheck, CheckPolicy, CheckAttrPolicy, CheckRole,
         Decide, EndCheck
<1>2. IInv' /\ Mixed'
  BY <1>1, SameKeeps DEF CInv, Mixed, OldSays, NewSays
<1>3. ASSUME NEW c \in Checked, BeginCheck(c[1], c[2]) PROVE Ongoing(check)'
  <2> DEFINE pc == IF IsSuperUser(c[1]) THEN "granted" ELSE "policy"
             during == {Last(Col, sent)} \cup
                       (IF InForce THEN {} ELSE {Last(Col, sent - 1)})
  <2>1. check' = [pc |-> pc, subject |-> c[1], name |-> c[2],
                  during |-> during]
    BY <1>3 DEF BeginCheck
  <2>2. c[1] \in Subjects /\ c[2] \in Names
    BY PoliciesAssumption
  <2>3. during \subseteq {0} \cup Times
    BY DEF CInv, IInv, Typed, Mixed
  <2>4. InForce' = InForce
    BY <1>1 DEF InForce
  <2>5. pc = "granted" \/ pc = "policy"
    OBVIOUS
  <2>6. pc = "granted" <=> IsSuperUser(c[1])
    OBVIOUS
  <2>7. Last(Col, sent) \in during /\ (~InForce => Last(Col, sent - 1) \in during)
    OBVIOUS
  <2> HIDE DEF pc, during
  <2>8. /\ check' \in CheckRec /\ check'.pc = pc /\ check'.subject = c[1]
        /\ check'.during = during
    BY <2>1, <2>2, <2>3, <2>5 DEF CheckRec, Pcs
  <2>9. pc = "granted" => Justified(check')
    BY <2>6, <2>7, <2>8 DEF Justified, Permits, Allows
  <2> QED
    BY <1>1, <2>4, <2>5, <2>6, <2>7, <2>8, <2>9 DEF Ongoing
<1>4. ASSUME check = NoCheck, CheckPolicy \/ CheckAttrPolicy \/ CheckRole
      PROVE  FALSE
  BY <1>4 DEF CheckPolicy, CheckAttrPolicy, CheckRole, NoCheck
<1>5. CASE CheckPolicy
  <2>1. Ongoing(check)
    BY <1>4, <1>5 DEF CInv
  <2>2. CASE HasPolicy(colRoles, Col)
    <3>1. Decide("attr") /\ check.pc = "policy"
      BY <1>5, <2>2 DEF CheckPolicy
    <3> QED
      BY <1>2, <2>1, <3>1, DecideKeeps DEF Pcs, CInv
  <2>3. CASE ~HasPolicy(colRoles, Col)
    <3>1. Decide("granted")
      BY <1>5, <2>3 DEF CheckPolicy
    <3> QED
      BY <1>2, <2>1, <2>3, <3>1, DecideKeeps, UnprotectedJustified DEF Pcs, CInv
  <2> QED
    BY <2>2, <2>3
<1>6. CASE CheckAttrPolicy
  <2>1. Ongoing(check)
    BY <1>4, <1>6 DEF CInv
  <2>2. CASE HasAttrPolicy(colRoles, Col, check.name)
    <3>1. Decide("attrRole") /\ check.pc = "attr"
      BY <1>6, <2>2 DEF CheckAttrPolicy
    <3> QED
      BY <1>2, <2>1, <2>2, <3>1, DecideKeeps, AttrFoundIsSaid DEF Pcs, CInv
  <2>3. CASE ~HasAttrPolicy(colRoles, Col, check.name)
    <3>1. Decide("colRole") /\ check.pc = "attr"
      BY <1>6, <2>3 DEF CheckAttrPolicy
    <3> QED
      BY <1>2, <2>1, <3>1, DecideKeeps DEF Pcs, CInv
  <2> QED
    BY <2>2, <2>3
<1>7. CASE CheckRole
  <2>1. Ongoing(check)
    BY <1>4, <1>7 DEF CInv
  <2> DEFINE Has == HasColRole(colRoles, Col, check.subject, Owner, UPDATE, NULL)
  <2>2. CASE check.pc = "attrRole"
    <3>1. Said(check)
      BY <2>1, <2>2 DEF Ongoing
    <3>2. Decide("granted") \/ Decide("denied")
      BY <1>7, <2>2 DEF CheckRole, Granted
    <3> QED
      BY <1>2, <2>1, <2>2, <3>1, <3>2, DecideKeeps DEF Pcs, CInv
  <2>3. CASE check.pc = "colRole" /\ Has
    <3>1. Decide("granted")
      BY <1>7, <2>3 DEF CheckRole, Granted
    <3> QED
      BY <1>2, <2>1, <2>3, <3>1, DecideKeeps, GrantedJustified DEF Pcs, CInv
  <2>4. CASE check.pc = "colRole" /\ ~Has
    <3>1. Decide("denied")
      BY <1>7, <2>4 DEF CheckRole, Granted
    <3> QED
      BY <1>2, <2>1, <2>4, <3>1, DecideKeeps, DeniedJustified DEF Pcs, CInv
  <2> QED
    BY <1>7, <2>2, <2>3, <2>4 DEF CheckRole
<1>8. CASE EndCheck
  BY <1>2, <1>8 DEF EndCheck, CInv
<1> QED
  BY <1>2, <1>3, <1>5, <1>6, <1>7, <1>8 DEF Check, CInv

-----------------------------------------------------------------------------
(* What a process does to the rows of the collection.                      *)
Drifts == /\ RolesOf(colRoles', Col) \subseteq RolesOf(colRoles, Col) \cup NewSays
          /\ \/ RolesOf(colRoles, Col) \subseteq RolesOf(colRoles', Col)
             \/ NewSays \subseteq RolesOf(colRoles', Col)

LEMMA WorkerDrifts ==
    ASSUME IInv, NEW w \in Workers, SetPolicy(w) \/ Crash(w) PROVE Drifts
<1>1. CASE colRoles' = colRoles
  BY <1>1 DEF Drifts
<1>2. ASSUME NEW ra \in chain[w].new, CreateColRole(w, ra) PROVE Drifts
  <2>1. chain[w].pc = "replace"
    BY <1>2 DEF CreateColRole
  <2> DEFINE row == [col |-> Policy[sent].on, name |-> ra.name,
                     role |-> ra.role, action |-> ra.action,
                     updated |-> sent, id |-> sent]
  <2>2. colRoles' = colRoles \cup {row} /\ ra \in RuleOf(sent)
    BY <1>2, <2>1, AtWork DEF CreateColRole, Replacing
  <2>3. row.col = Policy[sent].on /\ RoleAction(row) = ra
    BY <2>2, RulesAreRecords DEF RoleAction
  <2> HIDE DEF row
  <2>4. Policy[sent].on = Col => NewSays = RuleOf(sent)
    BY <2>1, AtWork DEF NewSays
  <2>5. ASSUME NEW x \in RolesOf(colRoles', Col)
        PROVE  x \in RolesOf(colRoles, Col) \cup NewSays
    <3>1. PICK r \in colRoles' : r.col = Col /\ RoleAction(r) = x
      BY <2>5, InRolesOf
    <3>2. CASE r = row
      BY <2>2, <2>3, <2>4, <3>1, <3>2
    <3>3. CASE r \in colRoles
      BY <3>1, <3>3, InRolesOf
    <3> QED
      BY <2>2, <3>2, <3>3
  <2>6. RolesOf(colRoles, Col) \subseteq RolesOf(colRoles', Col)
    BY <2>2 DEF RolesOf
  <2> QED
    BY <2>5, <2>6 DEF Drifts
<1>3. ASSUME NEW ra \in chain[w].known, UpdateColRole(w, ra) PROVE Drifts
  <2> DEFINE i == chain[w].policy
             Upd(r) == IF r \in RowsOf(i) /\ Updatable(r, ra, i)
                       THEN [r EXCEPT !.updated = i] ELSE r
  <2>1. colRoles' = {Upd(r) : r \in colRoles}
    BY <1>3 DEF UpdateColRole
  <2>2. ASSUME NEW r \in colRoles
        PROVE  Upd(r).col = r.col /\ RoleAction(Upd(r)) = RoleAction(r)
    <3>1. r \in Row
      BY DEF IInv, Typed
    <3> QED
      BY <3>1 DEF Row, RoleAction
  <2> HIDE DEF Upd
  <2>3. ASSUME NEW x
        PROVE  x \in RolesOf(colRoles', Col) <=> x \in RolesOf(colRoles, Col)
    <3>1. x \in RolesOf(colRoles', Col)
            <=> \E r \in colRoles' : r.col = Col /\ RoleAction(r) = x
      BY InRolesOf
    <3>2. x \in RolesOf(colRoles, Col)
            <=> \E r \in colRoles : r.col = Col /\ RoleAction(r) = x
      BY InRolesOf
    <3> QED
      BY <2>1, <2>2, <3>1, <3>2
  <2> QED
    BY <2>3 DEF Drifts
<1>4. ASSUME NEW row \in chain[w].old, DestroyColRole(w, row) PROVE Drifts
  <2>1. /\ chain[w].pc = "replace" /\ chain[w].new = {}
        /\ colRoles' \subseteq colRoles
        /\ \A r \in colRoles :
              r.col # Policy[sent].on \/ RoleAction(r) \in RuleOf(sent)
                 => r \in colRoles'
    BY <1>4, DestroyedUnsaid
  <2>2. RolesOf(colRoles', Col) \subseteq RolesOf(colRoles, Col)
    BY <2>1 DEF RolesOf
  <2>3. CASE Policy[sent].on # Col
    <3>1. RolesOf(colRoles, Col) \subseteq RolesOf(colRoles', Col)
      BY <2>1, <2>3 DEF RolesOf
    <3> QED
      BY <2>2, <3>1 DEF Drifts
  <2>4. CASE Policy[sent].on = Col
    <3>1. NewSays = RuleOf(sent)
      BY <2>1, <2>4, AtWork DEF NewSays
    <3>2. ASSUME NEW ra \in RuleOf(sent) PROVE ra \in RolesOf(colRoles', Col)
      <4>1. PICK r \in RowsOf(sent) : RoleAction(r) = ra
        BY <2>1, AtWork DEF Replacing
      <4>2. r \in colRoles' /\ r.col = Col
        BY <2>1, <2>4, <4>1 DEF RowsOf
      <4> QED
        BY <4>1, <4>2, InRolesOf
    <3> QED
      BY <2>2, <3>1, <3>2 DEF Drifts
  <2> QED
    BY <2>3, <2>4
<1>5. \/ colRoles' = colRoles
      \/ \E ra \in chain[w].new : CreateColRole(w, ra)
      \/ \E ra \in chain[w].known : UpdateColRole(w, ra)
      \/ \E row \in chain[w].old : DestroyColRole(w, row)
  BY DEF SetPolicy, Start, GetColRoles, CreateRefused, SetPolicyDone, Crash
<1> QED
  BY <1>1, <1>2, <1>3, <1>4, <1>5

LEMMA WorkerKeeps ==
    ASSUME CInv, NEW w \in Workers, SetPolicy(w) \/ Crash(w), IInv'
    PROVE  CInv'
<1>1. sent' = sent /\ check' = check
  BY DEF SetPolicy, Start, GetColRoles, CreateColRole, CreateRefused,
         UpdateColRole, DestroyColRole, SetPolicyDone, Crash
<1>2. ~InForce
  <2>1. SetPolicy(w) /\ queue = {} => chain[w].pc # "free"
    <3>1. chain[w] = Free => chain[w].pc # "select" /\ chain[w].pc # "replace"
      BY DEF Free
    <3> QED
      BY DEF SetPolicy, Start, GetColRoles, CreateColRole, CreateRefused,
             UpdateColRole, DestroyColRole, SetPolicyDone, Replaced
  <2> QED
    BY <2>1 DEF InForce, Crash, Free
<1>3. Drifts
  BY WorkerDrifts DEF CInv
<1>4. OldSays' = OldSays /\ NewSays' = NewSays
  BY <1>1 DEF OldSays, NewSays
<1>5. Mixed'
  BY <1>1, <1>3, <1>4 DEF CInv, Mixed, Drifts
<1>6. Ongoing(check) => Ongoing(check)'
  BY <1>1, <1>2 DEF Ongoing
<1> QED
  BY <1>1, <1>5, <1>6 DEF CInv

(* A policy is sent when the one before it is in force, and the check sees *)
(* one more policy.                                                        *)
LEMMA SendPolicyKeeps ==
    ASSUME CInv, Blocking, SendPolicy, IInv' PROVE CInv'
<1>1. /\ sent \in Nat /\ sent' = sent + 1 /\ sent + 1 \in Times
      /\ InForce /\ colRoles' = colRoles /\ check' = Witness(sent + 1)
      /\ (sent + 1) - 1 = sent
  BY PoliciesAssumption DEF CInv, IInv, Typed, SendPolicy, Times
<1>2. RolesOf(colRoles, Col) = NewSays
  BY <1>1 DEF CInv, IInv, Carries, InForce, NewSays
<1>3. OldSays' = NewSays /\ Last(Col, sent' - 1) = Last(Col, sent)
  BY <1>1 DEF OldSays, NewSays
<1>4. Last(Col, sent) \in {0} \cup Times
  BY DEF CInv, IInv, Typed
<1>5. Mixed'
  BY <1>1, <1>2, <1>3, <1>4 DEF Mixed
<1>6. ASSUME check # NoCheck PROVE Ongoing(check)'
  <2>1. Ongoing(check) /\ check \in CheckRec
    BY <1>6 DEF CInv, Ongoing
  <2>2. CASE Policy[sent + 1].on # Col
    <3>1. check' = check /\ Last(Col, sent') = Last(Col, sent)
      BY <1>1, <2>2, LastOfOther DEF Witness
    <3> QED
      BY <1>1, <1>3, <2>1, <3>1 DEF Ongoing
  <2>3. CASE Policy[sent + 1].on = Col
    <3>1. /\ check' = [check EXCEPT !.during = @ \cup {sent + 1}]
          /\ Last(Col, sent') = sent + 1
      BY <1>1, <1>6, <2>3, LastIsNew DEF Witness
    <3>2. /\ check' \in CheckRec /\ check'.pc = check.pc
          /\ check'.subject = check.subject /\ check'.name = check.name
          /\ check'.during = check.during \cup {sent + 1}
      BY <1>1, <2>1, <3>1 DEF CheckRec
    <3>3. Said(check) => Said(check')
      BY <3>2 DEF Said
    <3>4. \A i : Permits(check', i) <=> Permits(check, i)
      BY <3>2 DEF Permits
    <3>5. Justified(check) => Justified(check')
      BY <3>2, <3>3, <3>4 DEF Justified
    <3> QED
      BY <1>1, <1>3, <2>1, <3>1, <3>2, <3>3, <3>5 DEF Ongoing
  <2> QED
    BY <2>2, <2>3
<1>7. check = NoCheck => check' = NoCheck
  BY <1>1 DEF Witness
<1> QED
  BY <1>5, <1>6, <1>7 DEF CInv

LEMMA CheckedStep == ASSUME CInv, Blocking, [Next]_vars PROVE CInv'
<1>1. IInv'
  BY NextKeeps DEF CInv
<1>2. CASE UNCHANGED vars
  BY <1>1, <1>2 DEF vars, CInv, Mixed, OldSays, NewSays, Ongoing, InForce
<1> QED
  BY <1>1, <1>2, CheckKeeps, WorkerKeeps, SendPolicyKeeps DEF Next

LEMMA CheckedInit == ASSUME Init PROVE CInv
<1>1. sent = 0 /\ colRoles = {} /\ check = NoCheck
  BY DEF Init
<1>2. Sent(Col, 0) = {} /\ Sent(Col, 0 - 1) = {}
  BY DEF Sent
<1>3. Last(Col, 0) = 0 /\ Last(Col, 0 - 1) = 0
  BY <1>2 DEF Last, Latest
<1>4. NewSays = {} /\ RolesOf(colRoles, Col) = {}
  BY <1>1, <1>3, NothingSaid DEF NewSays, Says, RolesOf
<1>5. Mixed
  BY <1>1, <1>3, <1>4 DEF Mixed
<1> QED
  BY <1>1, <1>5, InitHolds DEF CInv

(* A permission check whose statements run while processes replace the     *)
(* rows of one policy by those of the next (policy.js:187-247,             *)
(* col-roles.js:183-209) answers as a policy does that was in force while  *)
(* it ran, if none of them says anything of the attribute itself.          *)
THEOREM ChecksAgree == ASSUME Blocking PROVE Spec => []CheckedByOldOrNew
<1>1. CInv => CheckedByOldOrNew
  <2> SUFFICES ASSUME CInv, check.pc \in {"granted", "denied"}, ~Said(check)
               PROVE  IF check.pc = "granted"
                      THEN \E i \in check.during : Permits(check, i)
                      ELSE \E i \in check.during :
                              ~Permits(check, i) \/ RoleActions(Says(i)) = {}
    BY DEF CheckedByOldOrNew, Said, Permits
  <2>1. Ongoing(check)
    BY DEF CInv, NoCheck
  <2> QED
    BY <2>1 DEF Ongoing, Justified
<1> QED
  BY <1>1, CheckedInit, CheckedStep, PTL DEF Spec

=============================================================================
