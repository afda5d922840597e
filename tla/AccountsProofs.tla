--------------------------- MODULE AccountsProofs ---------------------------
(***************************************************************************)
(* Machine-checked theorems about Accounts, for any scenarios, users,      *)
(* roles, collections, and number of processes, deaths and retries.        *)
(*                                                                         *)
(* What a process still has to do is on its stack, so that the invariant   *)
(* is about stacks: what the statements on one refer to is there, each is  *)
(* followed by what its result is for, and what an error unwinds is known. *)
(***************************************************************************)
EXTENDS Accounts, SequenceTheorems, FiniteSetTheorems, TLAPS

(* The tables, as far as statements on a stack depend on them.             *)
db == [users |-> users, roles |-> roles, cols |-> cols, docs |-> docs]

Made(s, u) == u \in UUIDs /\ s.users[u] # NULL
HasDoc(s, d) == \E x \in s.docs : x.id = d
IsRoleDoc(d) == \E u \in UUIDs : d = RoleDocOf(u)
Reserve == {OWNER, EVERYONE}
RoleKnown(s, r) == r \in Reserve \/ r \in 1..Len(s.roles)

(* A collection of an application: the change is about it.                 *)
OfApp(col) == Len(col) = 1 /\ col \notin {ALL, USER}
About(c, col) == OfApp(col) => c.col = col

(* Sequences, of whatever.                                                 *)
IsSeq(T) == Len(T) \in Nat /\ T = [i \in 1..Len(T) |-> T[i]]

(* What a statement f on the stack of the change c refers to.              *)
ColKnown(s, c, f) == f[2] \in s.cols /\ About(c, f[2])
Framed(s, c, f) ==
    /\ f[1] \in {"findUser", "mayCreateUser", "getUser", "insertUser",
                 "userDoc", "userMade", "updateUser", "addMember"}
         => f[2] \in UUIDs /\ f[2] \in {c.by, c.of}
    /\ f[1] = "insertUser" => f[3] \in Nat
    /\ f[1] = "updateUser" => f[3] \in Nat
    /\ f[1] \in {"userDoc", "userMade", "updateUser"} => Made(s, f[2])
    /\ f[1] = "addMember" =>
         IF f[3] = RoleDocOf(f[2]) THEN Made(s, f[2]) ELSE f[2] # Nobody
    /\ f[1] \in {"col", "createCol", "knowCol", "getCol", "insertCol",
                 "colMade", "mayCreateCol"} => About(c, f[2])
    /\ f[1] = "mayCreateCol" => ~OfApp(f[2])
    /\ f[1] \in {"hasPolicy", "selectRows", "replaceRows"}
         => ColKnown(s, c, f)
    /\ f[1] = "insertRole" => f[2] \notin Reserve
    /\ f[1] = "roleMade" => f[2] \in 1..Len(s.roles)
    /\ f[1] = "removeMember" =>
         c.kind = "role" /\ ~c.add /\ f[2] = c.of /\ f[3] = c.role
    /\ f[1] \in {"roleDoc", "userRole", "fork"} => c.kind = "role"
    /\ f[1] \in {"doc", "createDoc", "fork", "attr", "record"} =>
         (IsRoleDoc(f[2]) => HasDoc(s, f[2]))
    /\ f[1] \in {"createDoc", "record"} => f[3] \in s.cols
    /\ f[1] = "setPolicy" => f[2] \in s.cols /\ c.kind = "policy"

(* What comes after what: who needs the role that was found, the rows or   *)
(* the collection comes right after the statement that finds it; what may  *)
(* fail comes before what takes the failure.                               *)
Givers == {"getRole", "insertRole", "roleMade"}
Given(s, f) == IF f[1] = "roleMade" THEN s.roles[f[2]] ELSE f[2]
AfterCol(f, col) == f[1] \in {"getCol", "colMade"} /\ f[2] = col
Follows(s, f, g) ==
    /\ g[1] \in {"addMember", "selectRows", "setPolicy"} => f[1] \in Givers
    /\ g[1] = "addMember" => Given(s, f) \notin Reserve
    /\ g[1] = "replaceRows" => f[1] = "selectRows" /\ f[2] = g[2]
    /\ g[1] = "userDoc" => AfterCol(f, UserRolesCol(g[2]))
    /\ g[1] = "knowCol" => AfterCol(f, g[2])
    /\ f[1] = "insertCol" => g[1] = "colMade"
    /\ f[1] \in {"hasPolicy", "replaceRows"}
         => g[1] \in {"insertCol", "colMade"}
    /\ f[1] = "selectRows" => g[1] = "replaceRows" /\ f[2] = g[2]
    /\ f[1] = "mayCreateCol" => g[1] = "roleMade"

(* ... and at the top of the stack the process p has it.                   *)
Ready(s, p, g) ==
    /\ g[1] = "addMember" => p.role \in 1..Len(s.roles)
    /\ g[1] \in {"selectRows", "replaceRows", "setPolicy"}
         => RoleKnown(s, p.role)
    /\ g[1] = "replaceRows" => \A r \in p.seen : r.col = g[2]
    /\ g[1] = "userDoc" => (p.got => UserRolesCol(g[2]) \in s.cols)
    /\ g[1] = "knowCol" => (p.got => g[2] \in s.cols)

(* The statements of the change itself lie below those of what it needs.   *)
Base == {"findUser", "userRole", "need", "col", "createCol", "knowCol",
         "roleDoc", "fork", "doc", "createDoc", "attr", "record",
         "removeMember", "attrDone"}

IsProc(p) ==
    /\ p = [change |-> p.change, todo |-> p.todo, users |-> p.users,
            cols |-> p.cols, docs |-> p.docs, roleId |-> p.roleId,
            got |-> p.got, role |-> p.role, seen |-> p.seen]
    /\ p.change \in Everything
Learnt(s, p) ==
    /\ \A u \in p.users : Made(s, u)
    /\ p.cols \subseteq s.cols

Ends == {"userRole", "roleDoc", "fork", "attrDone"}
Ordered(s, c, T) ==
    /\ IsSeq(T)
    /\ \A i \in 1..Len(T) : Framed(s, c, T[i])
    /\ \A i \in 1..(Len(T) - 1) : Follows(s, T[i], T[i + 1])
    /\ \A i, j \in 1..Len(T) : i < j /\ T[i][1] \in Base => T[j][1] \in Base
    /\ T[Len(T)][1] \in Ends

Good(s, p) ==
    \/ p = Idle
    \/ /\ IsProc(p) /\ Learnt(s, p)
       /\ p.todo # <<>>
       /\ Ordered(s, p.change, p.todo) /\ Ready(s, p, p.todo[1])

(* The document of an implicit role is created at most once.               *)
Makes(T, i, u) == i \in 1..Len(T) /\ T[i][1] = "userDoc" /\ T[i][2] = u
NotMade == \A u \in UUIDs : users[u] = NULL =>
             /\ ~HasDoc(db, RoleDocOf(u))
             /\ \A w \in Workers : \A i \in 1..Len(work[w].todo) :
                  ~Makes(work[w].todo, i, u)
MadeOnce == \A u \in UUIDs, w \in Workers : \A i \in 1..Len(work[w].todo) :
              Makes(work[w].todo, i, u) =>
                /\ ~HasDoc(db, RoleDocOf(u))
                /\ \A v \in Workers : \A j \in 1..Len(work[v].todo) :
                     Makes(work[v].todo, j, u) => v = w /\ j = i

(* The tables.                                                             *)
Shapes ==
    /\ users \in [UUIDs -> [made : Nat, profile : Nat] \cup {NULL}]
    /\ IsSeq(roles)
    /\ work = [w \in Workers |-> work[w]]
    /\ log = [recorded |-> log.recorded, dropped |-> log.dropped,
              refused |-> log.refused, lost |-> log.lost,
              early |-> log.early, crashed |-> log.crashed]
RolesOK == \A i \in DOMAIN roles : roles[i] \notin Reserve
MembersOK ==
    /\ \A m \in members : /\ m.role \in DOMAIN roles /\ Made(db, m.user)
                          /\ m.doc # NULL => HasDoc(db, m.doc)
    /\ \A m, n \in members : m.user = n.user /\ m.role = n.role => m = n
PoliciesOK ==
    \A r \in colRoles : r.col \in cols
                        /\ (r.role = SUPER \/ RoleKnown(db, r.role))
IsDoc(d) == d = [id |-> d.id, col |-> d.col, owner |-> d.owner,
                 updated |-> d.updated]
DocsOK == /\ \A d \in docs : IsDoc(d) /\ d.col \in cols
          /\ \A d, e \in docs : d.id = e.id => d = e
ColsOK == ALL \in cols
SentOK == /\ batches \in Seq(SUBSET Everything)
          /\ \A i \in DOMAIN batches : batches[i] \subseteq DOMAIN tries
          /\ queue \subseteq DOMAIN tries
          /\ DOMAIN tries \subseteq Everything

Tables == Shapes /\ RolesOK /\ MembersOK /\ PoliciesOK /\ DocsOK /\ ColsOK
Stacks == \A w \in Workers : Good(db, work[w])
IInv == Tables /\ SentOK /\ Stacks /\ NotMade /\ MadeOnce

(* Every user has the implicit role, or will have it, or was refused it.   *)
Joins(s, p, i, u) ==
    /\ i \in 1..Len(p.todo) /\ p.todo[i][1] = "addMember" /\ p.todo[i][2] = u
    /\ u = IF i = 1 THEN s.roles[p.role] ELSE Given(s, p.todo[i - 1])
Complete ==
    \A u \in UUIDs : users[u] # NULL =>
       \/ log.crashed \/ HasRole(u, u)
       \/ \E c \in log.refused : u \in {c.by, c.of}
       \/ \E w \in Workers : \E i \in 1..Len(work[w].todo) :
             Joins(db, work[w], i, u)

(* Every collection of an application has a policy, or will have one.      *)
Installing(T, i, col) == /\ i \in 1..Len(T)
                         /\ T[i][1] \in {"hasPolicy", "replaceRows"}
                         /\ T[i][2] = col
Protected ==
    \A col \in cols : OfApp(col) =>
       \/ log.crashed \/ HasPolicy(colRoles, col)
       \/ \E c \in log.refused : c.col = col
       \/ \E w \in Workers : \E i \in 1..Len(work[w].todo) :
             Installing(work[w].todo, i, col)
Seen == \A w \in Workers : work[w] # Idle =>
          \A r \in work[w].seen : HasPolicy(colRoles, r.col)

(* The next stack N of a process has n new statements, on what is left of  *)
(* the stack T when its first k are gone.                                  *)
Rest(N, T, n, k) == /\ Len(N) = n + (Len(T) - k)
                    /\ \A i \in 1..(Len(T) - k) : N[n + i] = T[k + i]

-----------------------------------------------------------------------------
(* Sequences.                                                              *)
LEMMA SeqOfItems ==
    ASSUME NEW T, IsSeq(T)
    PROVE  /\ T \in Seq({T[i] : i \in 1..Len(T)})
           /\ DOMAIN T = 1..Len(T) /\ (T = <<>> <=> Len(T) = 0)
<1> DEFINE S == {T[i] : i \in 1..Len(T)}
<1>1. T \in [1..Len(T) -> S] /\ Len(T) \in Nat
  BY DEF IsSeq
<1>2. T \in Seq(S)
  BY <1>1, SeqDef
<1>3. T = <<>> <=> Len(T) = 0
  BY <1>2, EmptySeq
<1> QED
  BY <1>1, <1>2, <1>3

LEMMA SeqIsSeq ==
    ASSUME NEW S, NEW T \in Seq(S)
    PROVE  IsSeq(T) /\ DOMAIN T = 1..Len(T)
           /\ \A i \in 1..Len(T) : T[i] \in S
BY LenProperties DEF IsSeq

LEMMA JoinedSeq ==
    ASSUME NEW S, NEW T, IsSeq(S), IsSeq(T)
    PROVE  /\ IsSeq(S \o T) /\ Len(S \o T) = Len(S) + Len(T)
           /\ \A i \in 1..Len(S) : (S \o T)[i] = S[i]
           /\ \A i \in 1..Len(T) : (S \o T)[Len(S) + i] = T[i]
<1> DEFINE A == {S[i] : i \in 1..Len(S)} \cup {T[i] : i \in 1..Len(T)}
<1>1. S \in [1..Len(S) -> A] /\ Len(S) \in Nat
  BY DEF IsSeq
<1>2. T \in [1..Len(T) -> A] /\ Len(T) \in Nat
  BY DEF IsSeq
<1>3. S \in Seq(A) /\ T \in Seq(A)
  BY <1>1, <1>2, SeqDef
<1> HIDE DEF A
<1>4. S \o T \in Seq(A) /\ Len(S \o T) = Len(S) + Len(T)
  BY <1>3, ConcatProperties
<1>5. \A i \in 1..Len(S) + Len(T) :
        (S \o T)[i] = IF i <= Len(S) THEN S[i] ELSE T[i - Len(S)]
  BY <1>3, ConcatProperties
<1>6. IsSeq(S \o T)
  BY <1>4, SeqIsSeq
<1>7. \A i \in 1..Len(T) :
        /\ Len(S) + i \in 1..Len(S) + Len(T) /\ ~(Len(S) + i <= Len(S))
        /\ (Len(S) + i) - Len(S) = i
  BY <1>1, <1>2
<1>8. \A i \in 1..Len(S) : i \in 1..Len(S) + Len(T) /\ i <= Len(S)
  BY <1>1, <1>2
<1> QED
  BY <1>4, <1>5, <1>6, <1>7, <1>8

LEMMA CutSeq ==
    ASSUME NEW T, IsSeq(T), NEW k \in 0..Len(T)
    PROVE  /\ IsSeq(SubSeq(T, k + 1, Len(T)))
           /\ Rest(SubSeq(T, k + 1, Len(T)), T, 0, k)
           /\ SubSeq(T, k + 1, Len(T)) = <<>> <=> k = Len(T)
<1> DEFINE S == {T[i] : i \in 1..Len(T)}
           N == SubSeq(T, k + 1, Len(T))
<1>1. Len(T) \in Nat /\ k \in Nat /\ k <= Len(T)
  BY DEF IsSeq
<1>2. \A i \in k + 1 .. Len(T) : T[i] \in S
  BY <1>1
<1>3. k + 1 \in Int /\ Len(T) \in Int
  BY <1>1
<1>4. /\ N \in Seq(S)
      /\ Len(N) = IF k + 1 <= Len(T) THEN Len(T) - (k + 1) + 1 ELSE 0
      /\ \A i \in 1 .. Len(T) - (k + 1) + 1 : N[i] = T[(k + 1) + i - 1]
  <2> HIDE DEF S, N
  <2> QED
    BY <1>2, <1>3, SubSeqProperties DEF N
<1> HIDE DEF S, N
<1>5. Len(N) = Len(T) - k
  BY <1>1, <1>4
<1>6. \A i \in 1..(Len(T) - k) : N[0 + i] = T[k + i]
  BY <1>1, <1>4
<1>7. IsSeq(N)
  BY <1>4, SeqIsSeq
<1>8. N = <<>> <=> Len(N) = 0
  BY <1>7, SeqOfItems
<1> QED
  BY <1>1, <1>5, <1>6, <1>7, <1>8 DEF N, Rest

(* Statements that are pushed on a stack take the place of its first.      *)
LEMMA PushedSeq ==
    ASSUME NEW S, NEW T, IsSeq(S), IsSeq(T), T # <<>>
    PROVE  /\ Len(S) \in Nat /\ Len(T) \in Nat /\ Len(T) >= 1
           /\ Head(T) = T[1]
           /\ IsSeq(S \o Tail(T)) /\ Rest(S \o Tail(T), T, Len(S), 1)
           /\ \A i \in 1..Len(S) : (S \o Tail(T))[i] = S[i]
<1> DEFINE A == {T[i] : i \in 1..Len(T)}
<1>1. T \in Seq(A) /\ Len(T) \in Nat /\ Len(T) # 0 /\ Len(S) \in Nat
  BY SeqOfItems DEF IsSeq
<1> HIDE DEF A
<1>2. /\ Tail(T) \in Seq(A) /\ Len(Tail(T)) = Len(T) - 1
      /\ \A i \in 1..Len(Tail(T)) : Tail(T)[i] = T[i + 1]
  BY <1>1, HeadTailProperties
<1>3. Head(T) = T[1]
  BY <1>1
<1>4. IsSeq(Tail(T))
  BY <1>2, SeqIsSeq
<1>5. /\ IsSeq(S \o Tail(T)) /\ Len(S \o Tail(T)) = Len(S) + (Len(T) - 1)
      /\ \A i \in 1..Len(S) : (S \o Tail(T))[i] = S[i]
      /\ \A i \in 1..Len(Tail(T)) : (S \o Tail(T))[Len(S) + i] = Tail(T)[i]
  BY <1>2, <1>4, JoinedSeq
<1>6. \A i \in 1..(Len(T) - 1) : (S \o Tail(T))[Len(S) + i] = T[1 + i]
  BY <1>1, <1>2, <1>5
<1> QED
  BY <1>1, <1>3, <1>5, <1>6 DEF Rest

(* A set of positions that is not empty has a first.                       *)
LEMMA FirstPosition ==
    ASSUME NEW n \in Nat, NEW at \in SUBSET (1..n), at # {}
    PROVE  \E i \in at : \A j \in at : i <= j

<1> DEFINE S == 1..n
           upTo(k) == at \cap (1..k)
           cuts == {upTo(k) : k \in at}
<1>1. IsFiniteSet(S)
  BY FS_Interval, n \in Int, 1 \in Int
<1>2. FiniteSubsetsOf(S) = SUBSET S
  BY <1>1, FS_FiniteSubsetsOfFinite
<1>3. IsWellFoundedOn(StrictSubsetOrdering(S), SUBSET S)
  BY <1>2, FS_StrictSubsetOrderingWellFounded
<1>4. cuts \subseteq SUBSET S /\ cuts # {}
  OBVIOUS
<1>5. PICK x \in cuts : \A y \in cuts : <<y, x>> \notin StrictSubsetOrdering(S)
  <2> HIDE DEF cuts, S
  <2> QED
    BY <1>3, <1>4, WFMin
<1>6. PICK i \in at : x = upTo(i)
  BY <1>5
<1>7. ASSUME NEW j \in at, ~(i <= j) PROVE FALSE
  <2>1. upTo(j) \subseteq upTo(i) /\ i \in upTo(i) /\ i \notin upTo(j)
    BY <1>7
  <2>2. upTo(j) \in SUBSET S /\ upTo(i) \in SUBSET S
    OBVIOUS
  <2>3. <<upTo(j), upTo(i)>> \in StrictSubsetOrdering(S)
    <3> HIDE DEF upTo, S
    <3> QED
      BY <2>1, <2>2 DEF StrictSubsetOrdering
  <2> QED
    BY <1>5, <1>6, <2>3
<1> QED
  BY <1>7

-----------------------------------------------------------------------------
(* Nothing that a statement may refer to goes away.                        *)
Grows(s, s2) ==
    /\ \A u \in UUIDs : s.users[u] # NULL => s2.users[u] # NULL
    /\ s.cols \subseteq s2.cols
    /\ \A i \in 1..Len(s.roles) :
         i \in 1..Len(s2.roles) /\ s2.roles[i] = s.roles[i]
    /\ \A d : HasDoc(s, d) => HasDoc(s2, d)

LEMMA FramedGrows ==
    ASSUME NEW s, NEW s2, Grows(s, s2), NEW c, NEW f, Framed(s, c, f)
    PROVE  Framed(s2, c, f)
BY DEF Grows, Framed, Made, ColKnown

LEMMA FollowsGrows ==
    ASSUME NEW s, NEW s2, Grows(s, s2), NEW c, NEW f, NEW g,
           Framed(s, c, f), Follows(s, f, g)
    PROVE  Follows(s2, f, g) /\ Given(s2, f) = Given(s, f)
<1>1. Given(s2, f) = Given(s, f)
  BY DEF Grows, Framed, Given
<1> QED
  BY <1>1 DEF Follows

LEMMA ReadyGrows ==
    ASSUME NEW s, NEW s2, Grows(s, s2), NEW p, NEW g, Ready(s, p, g)
    PROVE  Ready(s2, p, g)
BY DEF Grows, Ready, RoleKnown

LEMMA LearntGrows ==
    ASSUME NEW s, NEW s2, Grows(s, s2), NEW p, Learnt(s, p),
           p.change \in Everything
    PROVE  Learnt(s2, p)
BY DEF Grows, Learnt, Made

(* What was good for a process remains so, whatever others do.             *)
LEMMA GoodGrows ==
    ASSUME NEW s, NEW s2, Grows(s, s2), NEW p, Good(s, p)
    PROVE  Good(s2, p)
<1>1. CASE p = Idle
  BY <1>1 DEF Good
<1>2. CASE p # Idle
  <2> DEFINE T == p.todo
  <2>1. /\ IsProc(p) /\ Learnt(s, p) /\ p.todo # <<>>
        /\ Ordered(s, p.change, T) /\ Ready(s, p, T[1])
    BY <1>2 DEF Good
  <2>2. Learnt(s2, p) /\ Ready(s2, p, T[1])
    BY <2>1, LearntGrows, ReadyGrows DEF IsProc
  <2>3. \A i \in 1..Len(T) : Framed(s2, p.change, T[i])
    BY <2>1, FramedGrows DEF Ordered
  <2>4. \A i \in 1..(Len(T) - 1) : Follows(s2, T[i], T[i + 1])
    <3> SUFFICES ASSUME NEW i \in 1..(Len(T) - 1)
                 PROVE  Follows(s2, T[i], T[i + 1])
      OBVIOUS
    <3>1. i \in 1..Len(T)
      BY <2>1 DEF Ordered, IsSeq
    <3>2. Framed(s, p.change, T[i]) /\ Follows(s, T[i], T[i + 1])
      BY <2>1, <3>1 DEF Ordered
    <3> QED
      BY <3>2, FollowsGrows
  <2>5. Ordered(s2, p.change, T)
    BY <2>1, <2>3, <2>4 DEF Ordered
  <2> QED
    BY <2>1, <2>2, <2>5 DEF Good
<1> QED
  BY <1>1, <1>2

(* A process goes on with n new statements, when the first k are gone.     *)
LEMMA GoodNext ==
    ASSUME NEW s, NEW s2, Grows(s, s2), NEW p, Good(s, p), p # Idle,
           NEW q, IsProc(q), q.change = p.change, Learnt(s2, q),
           IsSeq(q.todo), q.todo # <<>>,
           NEW n \in Nat, NEW k \in 1..Len(p.todo),
           Rest(q.todo, p.todo, n, k),
           \A i \in 1..n : Framed(s2, p.change, q.todo[i]),
           \A i \in 1..n : i < Len(q.todo) =>
             Follows(s2, q.todo[i], q.todo[i + 1]),
           \A i, j \in 1..n : i < j /\ q.todo[i][1] \in Base
             => q.todo[j][1] \in Base,
           \A i \in 1..n : q.todo[i][1] \in Base
             => k = 1 /\ p.todo[1][1] \in Base,
           q.todo[Len(q.todo)][1] \in Ends, Ready(s2, q, q.todo[1])
    PROVE  Good(s2, q)
<1> DEFINE T == p.todo
           N == q.todo
<1>1. /\ IsSeq(T) /\ T # <<>>
      /\ \A i \in 1..Len(T) : Framed(s, p.change, T[i])
      /\ \A i \in 1..(Len(T) - 1) : Follows(s, T[i], T[i + 1])
      /\ \A i, j \in 1..Len(T) : i < j /\ T[i][1] \in Base => T[j][1] \in Base
  BY DEF Good, Ordered
<1>2. /\ Len(T) \in Nat /\ k \in Nat /\ k >= 1 /\ k <= Len(T)
      /\ Len(N) = n + (Len(T) - k)
      /\ \A i \in 1..(Len(T) - k) : N[n + i] = T[k + i]
  BY <1>1 DEF IsSeq, Rest
<1> HIDE DEF T, N
<1>3. ASSUME NEW i \in 1..Len(N), i > n
      PROVE  i - n \in 1..(Len(T) - k) /\ N[i] = T[k + (i - n)]
             /\ k + (i - n) \in 1..Len(T)
  <2>1. i - n \in 1..(Len(T) - k) /\ n + (i - n) = i
    BY <1>2, <1>3
  <2>2. k + (i - n) \in 1..Len(T)
    BY <1>2, <2>1
  <2>3. \A j \in 1..(Len(T) - k) : N[n + j] = T[k + j]
    BY <1>2
  <2>4. N[n + (i - n)] = T[k + (i - n)]
    BY <2>1, <2>3
  <2> QED
    BY <2>1, <2>2, <2>4
<1>4. \A i \in 1..Len(N) : Framed(s2, p.change, N[i])
  <2> SUFFICES ASSUME NEW i \in 1..Len(N) PROVE Framed(s2, p.change, N[i])
    OBVIOUS
  <2>1. CASE i > n
    BY <2>1, <1>1, <1>3, FramedGrows
  <2>2. CASE i <= n
    <3>1. i \in 1..n
      BY <2>2, <1>2
    <3> QED
      BY <3>1 DEF N
  <2> QED
    BY <1>2, <2>1, <2>2
<1>5. \A i \in 1..(Len(N) - 1) : Follows(s2, N[i], N[i + 1])
  <2> SUFFICES ASSUME NEW i \in 1..(Len(N) - 1)
               PROVE  Follows(s2, N[i], N[i + 1])
    OBVIOUS
  <2>0. i \in 1..Len(N) /\ i + 1 \in 1..Len(N) /\ i < Len(N) /\ i \in Nat
    BY <1>2
  <2>1. CASE i > n
    <3>1. /\ N[i] = T[k + (i - n)] /\ k + (i - n) \in 1..Len(T)
          /\ N[i + 1] = T[k + ((i + 1) - n)] /\ k + ((i + 1) - n) \in 1..Len(T)
      BY <2>0, <2>1, <1>2, <1>3
    <3>2. PICK j \in 1..(Len(T) - 1) : j = k + (i - n)
      <4>1. i \in Nat /\ i <= (n + (Len(T) - k)) - 1 /\ i > n
        BY <1>2, <2>0, <2>1
      <4>2. k + (i - n) \in 1..(Len(T) - 1)
        BY <1>2, <4>1
      <4> QED
        BY <4>2
    <3>3. j \in 1..Len(T) /\ N[i] = T[j] /\ N[i + 1] = T[j + 1]
      BY <3>1, <3>2, <1>2, <2>0
    <3> QED
      BY <3>2, <3>3, <1>1, FollowsGrows
  <2>2. CASE i <= n
    <3>1. i \in 1..n
      BY <2>2, <2>0
    <3> QED
      BY <3>1, <2>0 DEF N
  <2> QED
    BY <1>2, <2>0, <2>1, <2>2
<1>6. \A i, j \in 1..Len(N) : i < j /\ N[i][1] \in Base => N[j][1] \in Base
  <2> SUFFICES ASSUME NEW i \in 1..Len(N), NEW j \in 1..Len(N), i < j,
                      N[i][1] \in Base
               PROVE  N[j][1] \in Base
    OBVIOUS
  <2>1. CASE i > n
    <3>1. /\ N[i] = T[k + (i - n)] /\ k + (i - n) \in 1..Len(T)
          /\ N[j] = T[k + (j - n)] /\ k + (j - n) \in 1..Len(T)
          /\ k + (i - n) < k + (j - n)
      BY <2>1, <1>2, <1>3
    <3> QED
      BY <3>1, <1>1
  <2>2. CASE i <= n /\ j <= n
    <3>1. i \in 1..n /\ j \in 1..n
      BY <2>2, <1>2
    <3> QED
      BY <3>1 DEF N
  <2>3. CASE i <= n /\ j > n
    <3>1. i \in 1..n
      BY <2>3, <1>2
    <3>2. k = 1 /\ T[1][1] \in Base
      BY <3>1 DEF N, T
    <3>3. /\ N[j] = T[k + (j - n)] /\ k + (j - n) \in 1..Len(T)
          /\ 1 < k + (j - n) /\ 1 \in 1..Len(T)
      BY <2>3, <1>2, <1>3, <3>2
    <3> QED
      BY <3>2, <3>3, <1>1
  <2> QED
    BY <1>2, <2>1, <2>2, <2>3
<1>7. Ordered(s2, q.change, N)
  BY <1>4, <1>5, <1>6 DEF Ordered, N
<1> QED
  BY <1>7 DEF Good, N

(* How the stack of a process becomes its next: statements are pushed that *)
(* make no document, or that of a user who is new; and unless the change   *)
(* is refused (r), what is skipped is of the change itself, or inserts a   *)
(* collection.                                                             *)
MovesBy(s, s2, p, q, r, n, k) ==
    /\ Rest(q.todo, p.todo, n, k)
    /\ \A i \in 1..n : q.todo[i][1] = "userDoc" =>
         i = 2 /\ s.users[q.todo[i][2]] = NULL
    /\ r \/ \A i \in 2..k : p.todo[i][1] \in Base \cup {"insertCol"}
    /\ k < Len(p.todo) /\ p.todo[k + 1][1] = "addMember" =>
         /\ k = 1
         /\ Given(s, p.todo[1]) = IF n = 0 THEN s2.roles[q.role]
                                  ELSE Given(s2, q.todo[n])
Moves(s, s2, p, q, r) ==
    /\ IsSeq(q.todo)
    /\ \E n \in Nat : \E k \in 1..Len(p.todo) : MovesBy(s, s2, p, q, r, n, k)

(* The statements S fit in place of the first of p's, and q is what p      *)
(* becomes.                                                                *)
Fits(s, s2, p, q, S) ==
    /\ \A i \in 1..Len(S) :
         /\ Framed(s2, p.change, S[i])
         /\ S[i][1] = "userDoc" => i = 2 /\ s.users[S[i][2]] = NULL
         /\ S[i][1] \in Base => p.todo[1][1] \in Base
    /\ \A i \in 1..(Len(S) - 1) : Follows(s2, S[i], S[i + 1])
    /\ \A i, j \in 1..Len(S) : i < j /\ S[i][1] \in Base => S[j][1] \in Base
    /\ Len(p.todo) > 1 /\ Follows(s, p.todo[1], p.todo[2]) =>
         /\ IF Len(S) = 0 THEN Ready(s2, q, p.todo[2])
            ELSE Follows(s2, S[Len(S)], p.todo[2])
         /\ p.todo[2][1] = "addMember" =>
              Given(s, p.todo[1]) = IF Len(S) = 0 THEN s2.roles[q.role]
                                    ELSE Given(s2, S[Len(S)])
    /\ Len(S) > 0 => Ready(s2, q, S[1])
    /\ Len(p.todo) = 1 /\ p.todo[1][1] \in Ends =>
         Len(S) > 0 /\ S[Len(S)][1] \in Ends
Becomes(s2, p, q) == IsProc(q) /\ q.change = p.change /\ Learnt(s2, q)

(* Statements are pushed in place of the first.                            *)
LEMMA Pushing ==
    ASSUME NEW s, NEW s2, Grows(s, s2), NEW p, Good(s, p), p # Idle,
           NEW q, Becomes(s2, p, q), NEW r,
           NEW S, IsSeq(S), q.todo = S \o Tail(p.todo), Fits(s, s2, p, q, S)
    PROVE  Good(s2, q) /\ Moves(s, s2, p, q, r)
<1> DEFINE T == p.todo
           N == q.todo
           n == Len(S)
<1>1. /\ IsSeq(T) /\ T # <<>> /\ T[Len(T)][1] \in Ends
      /\ \A i \in 1..(Len(T) - 1) : Follows(s, T[i], T[i + 1])
  BY DEF Good, Ordered
<1>2. /\ n \in Nat /\ Len(T) \in Nat /\ Len(T) >= 1
      /\ IsSeq(N) /\ Rest(N, T, n, 1)
      /\ \A i \in 1..n : N[i] = S[i]
  BY <1>1, PushedSeq
<1>3. /\ Len(N) = n + (Len(T) - 1)
      /\ \A i \in 1..(Len(T) - 1) : N[n + i] = T[1 + i]
  BY <1>2 DEF Rest
<1> HIDE DEF T, N, n
<1>4. Len(T) > 1 => N[n + 1] = T[2] /\ Follows(s, T[1], T[2])
  <2>1. Len(T) > 1 => 1 \in 1..(Len(T) - 1) /\ 1 + 1 = 2
    BY <1>2
  <2> QED
    BY <2>1, <1>1, <1>3
<1>5. Len(N) >= 1 /\ N # <<>>
  <2>0. Len(T) = 1 => n > 0
    BY <1>1 DEF Fits, T, n
  <2>1. Len(N) = n + (Len(T) - 1) /\ n \in Nat /\ Len(T) \in Nat
        /\ Len(T) >= 1
    BY <1>2, <1>3
  <2>2. Len(N) >= 1
    <3>1. ASSUME NEW x \in Nat, NEW y \in Nat, y >= 1, y = 1 => x > 0
          PROVE  x + (y - 1) >= 1
      BY <3>1
    <3> QED
      BY <2>0, <2>1, <3>1
  <2> QED
    BY <2>2, <1>2, SeqOfItems
<1>6. N[Len(N)][1] \in Ends
  <2>1. CASE Len(T) > 1
    <3>1. Len(T) - 1 \in 1..(Len(T) - 1) /\ 1 + (Len(T) - 1) = Len(T)
      BY <1>2, <2>1
    <3>2. N[n + (Len(T) - 1)] = T[1 + (Len(T) - 1)]
      BY <3>1, <1>3
    <3>3. N[Len(N)] = T[Len(T)]
      BY <3>1, <3>2, <1>3
    <3> QED
      BY <3>3, <1>1
  <2>2. CASE Len(T) = 1
    <3>1. n > 0 /\ S[n][1] \in Ends
      BY <2>2, <1>1 DEF Fits, T, n
    <3>2. n \in 1..n /\ Len(N) = n
      <4>1. ASSUME NEW x \in Nat, NEW y \in Nat, y = 1, x > 0
            PROVE  x \in 1..x /\ x + (y - 1) = x
        BY <4>1
      <4> QED
        BY <2>2, <3>1, <1>2, <1>3, <4>1
    <3>3. N[n] = S[n]
      BY <3>2, <1>2
    <3> QED
      BY <3>1, <3>2, <3>3
  <2>3. Len(T) > 1 \/ Len(T) = 1
    <3>1. \A x \in Nat : x >= 1 => x > 1 \/ x = 1
      OBVIOUS
    <3> QED
      BY <1>2, <3>1
  <2> QED
    BY <2>1, <2>2, <2>3
<1>7. \A i \in 1..n : i < Len(N) => Follows(s2, N[i], N[i + 1])
  <2> SUFFICES ASSUME NEW i \in 1..n, i < Len(N)
               PROVE  Follows(s2, N[i], N[i + 1])
    OBVIOUS
  <2>1. CASE i < n
    <3>1. i \in 1..(n - 1) /\ i + 1 \in 1..n
      BY <2>1, <1>2
    <3>2. Follows(s2, S[i], S[i + 1])
      BY <3>1 DEF n, Fits
    <3> QED
      BY <3>1, <3>2, <1>2
  <2>2. CASE i = n
    <3>1. Len(T) > 1 /\ n # 0
      BY <2>2, <1>2, <1>3
    <3>2. Follows(s2, S[n], T[2])
      BY <3>1, <1>4 DEF Fits, T, n
    <3> QED
      BY <2>2, <3>1, <3>2, <1>2, <1>4
  <2> QED
    BY <1>2, <2>1, <2>2
<1>8. Ready(s2, q, N[1])
  <2>1. CASE n = 0
    <3>1. Len(T) > 1
      BY <2>1, <1>2, <1>3, <1>5
    <3>2. Ready(s2, q, T[2])
      BY <2>1, <3>1, <1>4 DEF Fits, T, n
    <3> QED
      BY <2>1, <3>1, <3>2, <1>4
  <2>2. CASE n > 0
    <3>1. 1 \in 1..n
      BY <2>2, <1>2
    <3> QED
      BY <2>2, <3>1, <1>2 DEF Fits, n
  <2> QED
    BY <1>2, <2>1, <2>2
<1>9. 1 \in 1..Len(T)
  BY <1>2
<1>10. Good(s2, q)
  <2>1. \A i \in 1..n : Framed(s2, p.change, N[i])
    BY <1>2 DEF Fits, n
  <2>2. \A i, j \in 1..n : i < j /\ N[i][1] \in Base => N[j][1] \in Base
    BY <1>2 DEF Fits, n
  <2>3. \A i \in 1..n : N[i][1] \in Base => 1 = 1 /\ T[1][1] \in Base
    BY <1>2 DEF Fits, n, T
  <2> QED
    BY <1>2, <1>5, <1>6, <1>7, <1>8, <1>9, <2>1, <2>2, <2>3, GoodNext
    DEF Becomes, T, N
<1>11. MovesBy(s, s2, p, q, r, n, 1)
  <2>1. \A i \in 1..n : N[i][1] = "userDoc" =>
          i = 2 /\ s.users[N[i][2]] = NULL
    BY <1>2 DEF Fits, n
  <2>2. 2..1 = {}
    OBVIOUS
  <2>3. 1 < Len(T) /\ T[1 + 1][1] = "addMember" =>
          Given(s, T[1]) = IF n = 0 THEN s2.roles[q.role]
                           ELSE Given(s2, N[n])
    <3>1. n # 0 => n \in 1..n
      BY <1>2
    <3> QED
      BY <3>1, <1>2, <1>4 DEF Fits, n, T
  <2> QED
    BY <1>2, <2>1, <2>2, <2>3 DEF MovesBy, T, N
<1> QED
  BY <1>2, <1>9, <1>10, <1>11 DEF Moves, T, N

-----------------------------------------------------------------------------
(* What an error leaves of a stack.                                        *)
Caught(T, k) ==
    /\ \A j \in 1..k : T[j][1] # "colMade"
    /\ k = Len(T) \/ T[k + 1][1] = "colMade"

LEMMA Unwound ==
    ASSUME NEW T, IsSeq(T)
    PROVE  \E k \in 0..Len(T) :
             Unwind(T) = SubSeq(T, k + 1, Len(T)) /\ Caught(T, k)
<1> DEFINE at == {i \in DOMAIN T : T[i][1] = "colMade"}
           first == CHOOSE i \in at : \A j \in at : i <= j
<1>1. Len(T) \in Nat /\ DOMAIN T = 1..Len(T)
  BY SeqOfItems DEF IsSeq
<1>2. CASE at = {}
  <2>1. Unwind(T) = <<>>
    BY <1>2 DEF Unwind
  <2>2. SubSeq(T, Len(T) + 1, Len(T)) = <<>>
    BY <1>1, SubSeqEmpty
  <2>3. \A j \in 1..Len(T) : T[j][1] # "colMade"
    BY <1>1, <1>2
  <2>4. Len(T) \in 0..Len(T)
    BY <1>1
  <2> QED
    BY <2>1, <2>2, <2>3, <2>4 DEF Caught
<1>3. CASE at # {}
  <2>1. \E i \in at : \A j \in at : i <= j
    BY <1>1, <1>3, FirstPosition
  <2>2. first \in at /\ \A j \in at : first <= j
    BY <2>1
  <2>3. Unwind(T) = SubSeq(T, first, Len(T))
    BY <1>3 DEF Unwind
  <2>4. first \in 1..Len(T) /\ T[first][1] = "colMade"
    BY <1>1, <2>2
  <2>5. \A j \in 1..Len(T) : j < first => T[j][1] # "colMade"
    <3> SUFFICES ASSUME NEW j \in 1..Len(T), j < first, T[j][1] = "colMade"
                 PROVE  FALSE
      OBVIOUS
    <3>1. j \in at
      BY <1>1
    <3>2. first <= j
      BY <3>1, <2>2
    <3>3. first \in Int /\ j \in Int
      BY <1>1, <2>4
    <3> HIDE DEF first, at
    <3> QED
      BY <3>2, <3>3
  <2> HIDE DEF first, at
  <2>6. first - 1 \in 0..Len(T) /\ (first - 1) + 1 = first
    BY <1>1, <2>4
  <2>7. \A j \in 1..(first - 1) : j \in 1..Len(T) /\ j < first
    BY <1>1, <2>4
  <2> QED
    BY <2>3, <2>4, <2>5, <2>6, <2>7 DEF Caught
<1> QED
  BY <1>2, <1>3

(* The statements that fail, other than those that refuse the change.      *)
Fails == Base \cup {"insertCol", "replaceRows"}

(* What a failure skips: the statements of the change itself, or those     *)
(* that would have made a collection.                                      *)
LEMMA Skipped ==
    ASSUME NEW s, NEW c, NEW T, Ordered(s, c, T), NEW k \in 1..Len(T),
           T[1][1] \in Fails, \A j \in 1..k : T[j][1] # "colMade"
    PROVE  \A i \in 2..k : T[i][1] \in Base \cup {"insertCol"}
<1>0. /\ Len(T) \in Nat /\ T[Len(T)][1] \in Ends
      /\ \A i \in 1..(Len(T) - 1) : Follows(s, T[i], T[i + 1])
      /\ \A i, j \in 1..Len(T) : i < j /\ T[i][1] \in Base => T[j][1] \in Base
  BY DEF Ordered, IsSeq
<1>1. \A i \in 1..Len(T) : T[i][1] \notin Ends =>
        i + 1 \in 1..Len(T) /\ Follows(s, T[i], T[i + 1])
  <2> SUFFICES ASSUME NEW i \in 1..Len(T), T[i][1] \notin Ends
               PROVE  i + 1 \in 1..Len(T) /\ Follows(s, T[i], T[i + 1])
    OBVIOUS
  <2>1. i # Len(T)
    BY <1>0
  <2>2. i \in 1..(Len(T) - 1) /\ i + 1 \in 1..Len(T)
    BY <2>1, <1>0
  <2> QED
    BY <2>2, <1>0
<1>2. ASSUME NEW i \in 1..Len(T), T[i][1] = "insertCol"
      PROVE  ~(i < k)
  <2>1. i + 1 \in 1..Len(T) /\ T[i + 1][1] = "colMade"
    BY <1>1, <1>2 DEF Ends, Follows
  <2>2. i + 1 \notin 1..k
    BY <2>1
  <2> QED
    BY <2>1, <2>2, <1>0
<1>3. 1 \in 1..Len(T)
  BY <1>0
<1>4. CASE T[1][1] \in Base
  <2> SUFFICES ASSUME NEW i \in 2..k PROVE T[i][1] \in Base
    OBVIOUS
  <2>1. i \in 1..Len(T) /\ 1 < i
    BY <1>0
  <2> QED
    BY <1>0, <1>3, <1>4, <2>1
<1>5. CASE T[1][1] = "insertCol"
  <2>1. k = 1
    BY <1>0, <1>2, <1>3, <1>5
  <2> QED
    BY <2>1
<1>6. CASE T[1][1] = "replaceRows"
  <2>1. 1 + 1 \in 1..Len(T) /\ T[1 + 1][1] \in {"insertCol", "colMade"}
    BY <1>1, <1>3, <1>6 DEF Ends, Follows
  <2>2. CASE k = 1
    BY <2>2
  <2>3. CASE k > 1
    <3>1. 2 \in 1..k /\ 2 \in 1..Len(T)
      BY <2>3, <1>0
    <3>2. T[2][1] = "insertCol"
      BY <2>1, <3>1
    <3>3. k = 2
      BY <1>0, <1>2, <2>3, <3>1, <3>2
    <3> QED
      BY <3>2, <3>3
  <2> QED
    BY <2>2, <2>3
<1> QED
  BY <1>4, <1>5, <1>6 DEF Fails

AfterError(p) ==
    LET rest == Unwind(p.todo)
    IN  IF rest = <<>> THEN Idle ELSE [p EXCEPT !.todo = rest]

(* An error leaves a process that goes on where the error is taken.        *)
LEMMA Raising ==
    ASSUME NEW s, NEW s2, Grows(s, s2), NEW p, Good(s, p), p # Idle,
           NEW r, NEW q, q = AfterError(p),
           p.todo[1][1] # "colMade", r \/ p.todo[1][1] \in Fails
    PROVE  Good(s2, q) /\ Moves(s, s2, p, q, r)
<1> DEFINE T == p.todo
           rest == Unwind(T)
<1>1. /\ IsProc(p) /\ Learnt(s, p) /\ T # <<>>
      /\ Ordered(s, p.change, T)
  BY DEF Good
<1>2. /\ IsSeq(T) /\ T[Len(T)][1] \in Ends
      /\ Len(T) \in Nat /\ Len(T) >= 1
      /\ \A i \in 1..(Len(T) - 1) : Follows(s, T[i], T[i + 1])
  <2>1. IsSeq(T)
    BY <1>1 DEF Ordered
  <2> QED
    BY <1>1, <2>1, SeqOfItems DEF Ordered, IsSeq
<1>3. PICK k \in 0..Len(T) :
        rest = SubSeq(T, k + 1, Len(T)) /\ Caught(T, k)
  BY <1>2, Unwound
<1>4. k \in 1..Len(T)
  <2>1. k # 0
    BY <1>2, <1>3 DEF Caught, T
  <2> QED
    BY <2>1, <1>2
<1>5. /\ IsSeq(rest) /\ Rest(rest, T, 0, k)
      /\ rest = <<>> <=> k = Len(T)
  BY <1>2, <1>3, CutSeq
<1>6. q.todo = rest
  <2>0. q = IF rest = <<>> THEN Idle ELSE [p EXCEPT !.todo = rest]
    BY DEF AfterError
  <2>1. Idle.todo = <<>>
    BY DEF Idle
  <2>2. [p EXCEPT !.todo = rest].todo = rest
    BY <1>1 DEF IsProc
  <2> QED
    BY <2>0, <2>1, <2>2
<1> HIDE DEF rest
<1>7. k < Len(T) => /\ T[k + 1][1] = "colMade"
                    /\ T[k + 1][1] # "addMember"
                    /\ Ready(s2, q, T[k + 1])
  <2>1. k < Len(T) => T[k + 1][1] = "colMade"
    BY <1>2, <1>3 DEF Caught
  <2> QED
    BY <2>1 DEF Ready
<1>8. MovesBy(s, s2, p, q, r, 0, k)
  <2>1. r \/ \A i \in 2..k : T[i][1] \in Base \cup {"insertCol"}
    BY <1>1, <1>3, <1>4, Skipped DEF T, Caught
  <2>2. 1..0 = {}
    OBVIOUS
  <2> QED
    BY <1>5, <1>6, <1>7, <2>1, <2>2 DEF MovesBy, T
<1>9. CASE k = Len(T)
  <2>1. q = Idle
    BY <1>5, <1>9 DEF AfterError, rest, T
  <2> QED
    BY <1>4, <1>5, <1>6, <1>8, <2>1 DEF Good, Moves, T
<1>10. CASE k < Len(T)
  <2>1. q = [p EXCEPT !.todo = rest] /\ rest # <<>>
    BY <1>2, <1>5, <1>10 DEF AfterError, rest, T
  <2>2. IsProc(q) /\ q.change = p.change /\ Learnt(s, q)
    BY <1>1, <2>1 DEF IsProc, Learnt
  <2>3. Learnt(s2, q)
    BY <2>2, LearntGrows DEF IsProc
  <2>4. /\ Len(rest) = Len(T) - k
        /\ \A i \in 1..(Len(T) - k) : rest[i] = T[k + i]
    BY <1>2, <1>4, <1>5 DEF Rest
  <2>5. rest[1] = T[k + 1] /\ rest[Len(rest)] = T[Len(T)]
    <3>1. /\ 1 \in 1..(Len(T) - k) /\ Len(T) - k \in 1..(Len(T) - k)
          /\ k + (Len(T) - k) = Len(T)
      BY <1>2, <1>4, <1>10
    <3> QED
      BY <2>4, <3>1
  <2>6. 1..0 = {} /\ 0 \in Nat
    OBVIOUS
  <2>7. Good(s2, q)
    <3>1. q.todo # <<>> /\ IsSeq(q.todo) /\ Rest(q.todo, p.todo, 0, k)
      BY <1>5, <1>6, <2>1 DEF T
    <3>2. q.todo[Len(q.todo)][1] \in Ends /\ Ready(s2, q, q.todo[1])
      BY <1>2, <1>6, <1>7, <1>10, <2>5
    <3>3. k \in 1..Len(p.todo)
      BY <1>4 DEF T
    <3> HIDE DEF T
    <3> QED
      BY <2>2, <2>3, <2>6, <3>1, <3>2, <3>3, GoodNext
  <2> QED
    BY <1>4, <1>5, <1>6, <1>8, <2>6, <2>7 DEF Moves, T
<1> QED
  BY <1>2, <1>4, <1>9, <1>10

-----------------------------------------------------------------------------
(* Statements that hand nothing to the next, and those that need to be     *)
(* handed something.                                                       *)
Free == {"findUser", "mayCreateUser", "getUser", "insertUser", "userDoc",
         "userMade", "updateUser", "col", "createCol", "knowCol",
         "addMember", "removeMember", "userRole", "need", "roleDoc", "doc",
         "createDoc", "fork", "attr", "record", "setPolicy", "attrDone"}
Needy == {"addMember", "selectRows", "setPolicy", "replaceRows", "userDoc",
          "knowCol"}

LEMMA FreeFollows ==
    ASSUME NEW s, NEW f, NEW g, f[1] \in Free
    PROVE  Follows(s, f, g) <=> g[1] \notin Needy
BY DEF Free, Needy, Follows, Givers, AfterCol

LEMMA NotNeedyReady ==
    ASSUME NEW s, NEW p, NEW g, g[1] \notin Needy
    PROVE  Ready(s, p, g)
BY DEF Needy, Ready

LEMMA Literals ==
    /\ IsSeq(<<>>) /\ Len(<<>>) = 0
    /\ \A a : IsSeq(<<a>>) /\ Len(<<a>>) = 1 /\ <<a>>[1] = a
    /\ \A a, b : /\ IsSeq(<<a, b>>) /\ Len(<<a, b>>) = 2
                 /\ <<a, b>>[1] = a /\ <<a, b>>[2] = b
    /\ \A a, b, c : /\ IsSeq(<<a, b, c>>) /\ Len(<<a, b, c>>) = 3
                    /\ <<a, b, c>>[1] = a /\ <<a, b, c>>[2] = b
                    /\ <<a, b, c>>[3] = c
<1>1. IsSeq(<<>>) /\ Len(<<>>) = 0
  BY SeqIsSeq, EmptySeq
<1>2. \A a : IsSeq(<<a>>) /\ Len(<<a>>) = 1 /\ <<a>>[1] = a
  <2> TAKE a
  <2>1. <<a>> \in Seq({a}) /\ Len(<<a>>) = 1 /\ <<a>>[1] = a
    OBVIOUS
  <2> QED
    BY <2>1, SeqIsSeq
<1>3. \A a, b : /\ IsSeq(<<a, b>>) /\ Len(<<a, b>>) = 2
                /\ <<a, b>>[1] = a /\ <<a, b>>[2] = b
  <2> TAKE a, b
  <2>1. <<a, b>> \in Seq({a, b}) /\ Len(<<a, b>>) = 2
        /\ <<a, b>>[1] = a /\ <<a, b>>[2] = b
    OBVIOUS
  <2> QED
    BY <2>1, SeqIsSeq
<1>4. \A a, b, c : /\ IsSeq(<<a, b, c>>) /\ Len(<<a, b, c>>) = 3
                   /\ <<a, b, c>>[1] = a /\ <<a, b, c>>[2] = b
                   /\ <<a, b, c>>[3] = c
  <2> TAKE a, b, c
  <2>1. <<a, b, c>> \in Seq({a, b, c}) /\ Len(<<a, b, c>>) = 3
        /\ <<a, b, c>>[1] = a /\ <<a, b, c>>[2] = b /\ <<a, b, c>>[3] = c
    OBVIOUS
  <2> QED
    BY <2>1, SeqIsSeq
<1> QED
  BY <1>1, <1>2, <1>3, <1>4

(* What goes under statements that are pushed: what was under the first.   *)
Under(s, s2, p, last) ==
    Len(p.todo) > 1 /\ Follows(s, p.todo[1], p.todo[2]) =>
      /\ Follows(s2, last, p.todo[2])
      /\ p.todo[2][1] = "addMember" => Given(s, p.todo[1]) = Given(s2, last)
NextReady(s, s2, p, q) ==
    Len(p.todo) > 1 /\ Follows(s, p.todo[1], p.todo[2]) =>
      /\ Ready(s2, q, p.todo[2])
      /\ p.todo[2][1] = "addMember" => Given(s, p.todo[1]) = s2.roles[q.role]

LEMMA FreeUnder ==
    ASSUME NEW s, NEW s2, NEW p, p.todo[1][1] \in Free
    PROVE  /\ \A f : f[1] \in Free => Under(s, s2, p, f)
           /\ \A q : NextReady(s, s2, p, q)
<1>1. ASSUME NEW f, f[1] \in Free PROVE Under(s, s2, p, f)
  BY <1>1, FreeFollows DEF Under, Needy
<1>2. ASSUME NEW q PROVE NextReady(s, s2, p, q)
  BY FreeFollows, NotNeedyReady DEF NextReady, Needy
<1> QED
  BY <1>1, <1>2

(* One statement, or none, in place of another.                            *)
Placed(s, s2, p, f) ==
    /\ Framed(s2, p.change, f) /\ f[1] # "userDoc"
    /\ f[1] \in Base => p.todo[1][1] \in Base

LEMMA FitsNone ==
    ASSUME NEW s, NEW s2, NEW p, NEW q, NextReady(s, s2, p, q),
           p.todo[1][1] \notin Ends
    PROVE  Fits(s, s2, p, q, <<>>)
<1>1. 1..0 = {} /\ 1..(0 - 1) = {}
  OBVIOUS
<1> QED
  BY <1>1, Literals DEF Fits, NextReady

LEMMA FitsOne ==
    ASSUME NEW s, NEW s2, NEW p, NEW q, NEW a, Placed(s, s2, p, a),
           Ready(s2, q, a), Under(s, s2, p, a), p.todo[1][1] \notin Ends
    PROVE  Fits(s, s2, p, q, <<a>>)
<1>1. 1..1 = {1} /\ 1..(1 - 1) = {}
  OBVIOUS
<1> QED
  BY <1>1, Literals DEF Fits, Placed, Under

LEMMA FitsTwo ==
    ASSUME NEW s, NEW s2, NEW p, NEW q, NEW a, NEW b,
           Placed(s, s2, p, a), Placed(s, s2, p, b), Follows(s2, a, b),
           a[1] \in Base => b[1] \in Base,
           Ready(s2, q, a), Under(s, s2, p, b), p.todo[1][1] \notin Ends
    PROVE  Fits(s, s2, p, q, <<a, b>>)
<1>1. 1..2 = {1, 2} /\ 1..(2 - 1) = {1} /\ 1 + 1 = 2
  OBVIOUS
<1> QED
  BY <1>1, Literals DEF Fits, Placed, Under

LEMMA FitsThree ==
    ASSUME NEW s, NEW s2, NEW p, NEW q, NEW a, NEW b, NEW c,
           Placed(s, s2, p, a), Placed(s, s2, p, b), Placed(s, s2, p, c),
           Follows(s2, a, b), Follows(s2, b, c),
           a[1] \notin Base, b[1] \notin Base,
           Ready(s2, q, a), Under(s, s2, p, c), p.todo[1][1] \notin Ends
    PROVE  Fits(s, s2, p, q, <<a, b, c>>)
<1>1. 1..3 = {1, 2, 3} /\ 1..(3 - 1) = {1, 2} /\ 1 + 1 = 2 /\ 2 + 1 = 3
  OBVIOUS
<1> QED
  BY <1>1, Literals DEF Fits, Placed, Under

-----------------------------------------------------------------------------
(* What a step of the process w does for it.                               *)
Effect(w) ==
    /\ work' = [work EXCEPT ![w] = work'[w]]
    /\ Grows(db, db') /\ Good(db', work'[w])
    /\ Moves(db, db', work[w], work'[w], Change(w) \in log'.refused)

(* The process w, and its first statement.                                 *)
Top(w) ==
    /\ work[w] # Idle /\ Good(db, work[w]) /\ IsProc(work[w])
    /\ Learnt(db, work[w]) /\ IsChange(Change(w)) /\ Change(w) \in Everything
    /\ work[w].todo # <<>> /\ IsSeq(work[w].todo)
    /\ work[w].todo[1][1] = Op(w) /\ Op(w) # "none"
    /\ \A i \in Nat : Arg(w, i) = work[w].todo[1][i + 1]
    /\ Arg(w, 1) = work[w].todo[1][2] /\ Arg(w, 2) = work[w].todo[1][3]
    /\ Arg(w, 3) = work[w].todo[1][4]
    /\ Framed(db, Change(w), work[w].todo[1])
    /\ Ready(db, work[w], work[w].todo[1])

LEMMA TopOf ==
    ASSUME Stacks, NEW w \in Workers, Op(w) # "none"
    PROVE  Top(w)
<1> DEFINE p == work[w]
           T == p.todo
<1>1. T # <<>> /\ Op(w) = Head(T)[1]
  BY DEF Op
<1>2. p # Idle
  BY <1>1 DEF Idle
<1>3. /\ Good(db, p) /\ IsProc(p) /\ Learnt(db, p)
      /\ Ordered(db, p.change, T) /\ Ready(db, p, T[1])
  BY <1>2 DEF Stacks, Good
<1>4. IsSeq(T)
  BY <1>3 DEF Ordered
<1>5. Head(T) = T[1] /\ 1 \in 1..Len(T)
  BY <1>1, <1>4, PushedSeq
<1>6. Framed(db, p.change, T[1])
  BY <1>3, <1>5 DEF Ordered
<1>7. \A i \in Nat : Arg(w, i) = T[1][i + 1]
  BY <1>5 DEF Arg
<1>8. Arg(w, 1) = T[1][2] /\ Arg(w, 2) = T[1][3] /\ Arg(w, 3) = T[1][4]
  BY <1>5 DEF Arg
<1>9. p.change \in Everything /\ IsChange(p.change)
  BY <1>3, AccountsAssumption DEF IsProc
<1> QED
  BY <1>1, <1>2, <1>3, <1>4, <1>5, <1>6, <1>7, <1>8, <1>9 DEF Top, Change

LEMMA SameTables ==
    ASSUME UNCHANGED tables
    PROVE  db' = db /\ Grows(db, db')
BY DEF tables, db, Grows

LEMMA WithTodo ==
    ASSUME NEW q, NEW N,
           q = [change |-> q.change, todo |-> q.todo, users |-> q.users,
                cols |-> q.cols, docs |-> q.docs, roleId |-> q.roleId,
                got |-> q.got, role |-> q.role, seen |-> q.seen]
    PROVE  [q EXCEPT !.todo = N] =
             [change |-> q.change, todo |-> N, users |-> q.users,
              cols |-> q.cols, docs |-> q.docs, roleId |-> q.roleId,
              got |-> q.got, role |-> q.role, seen |-> q.seen]
OBVIOUS

(* A statement that makes the process into q, and pushes S.                *)
LEMMA Pushes ==
    ASSUME Shapes, NEW w \in Workers, Top(w), Grows(db, db'),
           NEW q, NEW S, IsSeq(S), work' = Now(w, q, S),
           Becomes(db', work[w], q), q.todo = work[w].todo,
           Fits(db, db', work[w], q, S)
    PROVE  Effect(w)
<1> DEFINE p == work[w]
           new == [q EXCEPT !.todo = S \o Tail(@)]
<1>1. work' = [work EXCEPT ![w] = new] /\ work'[w] = new
  BY DEF Now, Shapes
<1>2. /\ new.todo = S \o Tail(p.todo) /\ new.role = q.role
      /\ new.seen = q.seen /\ new.got = q.got /\ new.change = q.change
      /\ new.users = q.users /\ new.cols = q.cols /\ new.docs = q.docs
      /\ IsProc(new)
  <2>1. /\ q = [change |-> q.change, todo |-> q.todo, users |-> q.users,
                cols |-> q.cols, docs |-> q.docs, roleId |-> q.roleId,
                got |-> q.got, role |-> q.role, seen |-> q.seen]
        /\ q.change \in Everything
    BY DEF Becomes, IsProc
  <2>2. new = [change |-> q.change, todo |-> S \o Tail(q.todo),
               users |-> q.users, cols |-> q.cols, docs |-> q.docs,
               roleId |-> q.roleId, got |-> q.got, role |-> q.role,
               seen |-> q.seen]
    BY <2>1, WithTodo
  <2> HIDE DEF new
  <2>3. /\ new.todo = S \o Tail(q.todo) /\ new.role = q.role
        /\ new.seen = q.seen /\ new.got = q.got /\ new.change = q.change
        /\ new.users = q.users /\ new.cols = q.cols /\ new.docs = q.docs
        /\ new.roleId = q.roleId
    BY <2>2
  <2> QED
    BY <2>1, <2>2, <2>3 DEF IsProc
<1> HIDE DEF new
<1>3. Becomes(db', p, new)
  BY <1>2 DEF Becomes, Learnt
<1>4. \A g : Ready(db', q, g) => Ready(db', new, g)
  BY <1>2 DEF Ready
<1>5. Fits(db, db', p, new, S)
  BY <1>2, <1>4 DEF Fits
<1>6. Good(db', new) /\ Moves(db, db', p, new, Change(w) \in log'.refused)
  BY <1>2, <1>3, <1>5, Pushing DEF Top
<1> QED
  BY <1>1, <1>6 DEF Effect

LEMMA Raises ==
    ASSUME Shapes, NEW w \in Workers, Top(w), Grows(db, db'),
           work' = Raise(w),
           Op(w) # "colMade", Change(w) \in log'.refused \/ Op(w) \in Fails
    PROVE  Effect(w)
<1> DEFINE p == work[w]
           q == AfterError(p)
<1>1. work' = [work EXCEPT ![w] = q] /\ work'[w] = q
  BY DEF Raise, AfterError, Shapes
<1>2. Good(db, p) /\ p # Idle /\ p.todo[1][1] = Op(w)
  BY DEF Top
<1>3. Good(db', q) /\ Moves(db, db', p, q, Change(w) \in log'.refused)
  <2>1. q = AfterError(p)
    OBVIOUS
  <2>2. /\ p.todo[1][1] # "colMade"
        /\ Change(w) \in log'.refused \/ p.todo[1][1] \in Fails
    BY <1>2
  <2> DEFINE r == Change(w) \in log'.refused
  <2>3. r \/ p.todo[1][1] \in Fails
    BY <2>2
  <2> HIDE DEF p, q, r
  <2>4. Good(db', q) /\ Moves(db, db', p, q, r)
    BY <1>2, <2>1, <2>2, <2>3, Raising
  <2> QED
    BY <2>4 DEF r
<1> QED
  BY <1>1, <1>3 DEF Effect

(* Registers of a process that are set.                                    *)
LEMMA Registers ==
    ASSUME NEW p, IsProc(p), NEW x, NEW q
    PROVE
    /\ q = [p EXCEPT !.users = x] =>
         /\ IsProc(q) /\ q.change = p.change /\ q.todo = p.todo
         /\ q.users = x /\ q.cols = p.cols /\ q.docs = p.docs
    /\ q = [p EXCEPT !.cols = x] =>
         /\ IsProc(q) /\ q.change = p.change /\ q.todo = p.todo
         /\ q.users = p.users /\ q.cols = x /\ q.docs = p.docs
    /\ q = [p EXCEPT !.docs = x] =>
         /\ IsProc(q) /\ q.change = p.change /\ q.todo = p.todo
         /\ q.users = p.users /\ q.cols = p.cols /\ q.docs = x
    /\ q = [p EXCEPT !.roleId = x] =>
         /\ IsProc(q) /\ q.change = p.change /\ q.todo = p.todo
         /\ q.users = p.users /\ q.cols = p.cols /\ q.docs = p.docs
    /\ q = [p EXCEPT !.got = x] =>
         /\ IsProc(q) /\ q.change = p.change /\ q.todo = p.todo
         /\ q.users = p.users /\ q.cols = p.cols /\ q.docs = p.docs
         /\ q.got = x
    /\ q = [p EXCEPT !.role = x] =>
         /\ IsProc(q) /\ q.change = p.change /\ q.todo = p.todo
         /\ q.users = p.users /\ q.cols = p.cols /\ q.docs = p.docs
         /\ q.role = x
    /\ q = [p EXCEPT !.seen = x] =>
         /\ IsProc(q) /\ q.change = p.change /\ q.todo = p.todo
         /\ q.users = p.users /\ q.cols = p.cols /\ q.docs = p.docs
         /\ q.role = p.role /\ q.seen = x
BY DEF IsProc

LEMMA Unchanged ==
    ASSUME NEW s, NEW s2, Grows(s, s2), NEW p, IsProc(p), Learnt(s, p)
    PROVE  Becomes(s2, p, p)
BY LearntGrows DEF Becomes, IsProc

LEMMA FreeFits ==
    ASSUME NEW s, NEW s2, NEW p, NEW q, p.todo[1][1] \in Free \ Ends
    PROVE  /\ Fits(s, s2, p, q, <<>>)
           /\ \A a : Placed(s, s2, p, a) /\ a[1] \in Free \ Needy =>
                Fits(s, s2, p, q, <<a>>)
<1>1. Fits(s, s2, p, q, <<>>)
  BY FreeUnder, FitsNone
<1>2. ASSUME NEW a, Placed(s, s2, p, a), a[1] \in Free \ Needy
      PROVE  Fits(s, s2, p, q, <<a>>)
  BY <1>2, FreeUnder, NotNeedyReady, FitsOne
<1> QED
  BY <1>1, <1>2

(* A statement that returns at once, and does not hand on anything.        *)
LEMMA Returns ==
    ASSUME Shapes, NEW w \in Workers, Top(w), Grows(db, db'),
           Op(w) \in Free \ Ends, work' = Return(w)
    PROVE  Effect(w)
<1>1. work' = Now(w, work[w], <<>>)
  BY DEF Return, Push
<1>2. Becomes(db', work[w], work[w])
  BY Unchanged DEF Top
<1>3. Fits(db, db', work[w], work[w], <<>>)
  BY FreeFits DEF Top
<1> QED
  BY <1>1, <1>2, <1>3, Literals, Pushes

(* A statement that pushes one, and does not hand on anything.             *)
LEMMA PushesOne ==
    ASSUME Shapes, NEW w \in Workers, Top(w), Grows(db, db'),
           Op(w) \in Free \ Ends, NEW a, a[1] \in Free \ Needy,
           Placed(db, db', work[w], a), work' = Push(w, <<a>>)
    PROVE  Effect(w)
<1>1. work' = Now(w, work[w], <<a>>)
  BY DEF Push
<1>2. Becomes(db', work[w], work[w])
  BY Unchanged DEF Top
<1>3. Fits(db, db', work[w], work[w], <<a>>)
  BY FreeFits DEF Top
<1>4. IsSeq(<<a>>)
  BY Literals
<1> QED
  BY <1>1, <1>2, <1>3, <1>4, Pushes

LEMMA NewRegister ==
    ASSUME NEW w, Top(w), Grows(db, db'), NEW x, NEW q
    PROVE
    /\ q = [work[w] EXCEPT !.users = x] /\ (\A u \in x : Made(db', u)) =>
         Becomes(db', work[w], q) /\ q.todo = work[w].todo
    /\ q = [work[w] EXCEPT !.cols = x] /\ x \subseteq db'.cols =>
         Becomes(db', work[w], q) /\ q.todo = work[w].todo
    /\ \/ q = [work[w] EXCEPT !.docs = x]
       \/ q = [work[w] EXCEPT !.roleId = x]
       \/ q = [work[w] EXCEPT !.got = x]
       \/ q = [work[w] EXCEPT !.role = x]
       \/ q = [work[w] EXCEPT !.seen = x]
       => Becomes(db', work[w], q) /\ q.todo = work[w].todo
<1> DEFINE p == work[w]
           s == db'
<1>1. IsProc(p) /\ Learnt(s, p) /\ p.change = Change(w)
  BY LearntGrows DEF Top, IsProc, Change
<1> HIDE DEF p, s
<1>2. q = [p EXCEPT !.users = x] /\ (\A u \in x : Made(s, u)) =>
        Becomes(s, p, q) /\ q.todo = p.todo
  BY <1>1, Registers DEF Becomes, Learnt
<1>3. q = [p EXCEPT !.cols = x] /\ x \subseteq s.cols =>
        Becomes(s, p, q) /\ q.todo = p.todo
  BY <1>1, Registers DEF Becomes, Learnt
<1>4. q = [p EXCEPT !.docs = x] => Becomes(s, p, q) /\ q.todo = p.todo
  BY <1>1, Registers DEF Becomes, Learnt
<1>5. q = [p EXCEPT !.roleId = x] => Becomes(s, p, q) /\ q.todo = p.todo
  BY <1>1, Registers DEF Becomes, Learnt
<1>6. q = [p EXCEPT !.got = x] => Becomes(s, p, q) /\ q.todo = p.todo
  BY <1>1, Registers DEF Becomes, Learnt
<1>7. q = [p EXCEPT !.role = x] => Becomes(s, p, q) /\ q.todo = p.todo
  BY <1>1, Registers DEF Becomes, Learnt
<1>8. q = [p EXCEPT !.seen = x] => Becomes(s, p, q) /\ q.todo = p.todo
  BY <1>1, Registers DEF Becomes, Learnt
<1> QED
  BY <1>2, <1>3, <1>4, <1>5, <1>6, <1>7, <1>8 DEF p, s

(* A statement that sets a register, and does not hand on anything.        *)
LEMMA Sets ==
    ASSUME Shapes, NEW w \in Workers, Top(w), Grows(db, db'),
           Op(w) \in Free \ Ends, NEW q, Becomes(db', work[w], q),
           q.todo = work[w].todo, work' = Now(w, q, <<>>)
    PROVE  Effect(w)
<1>1. Fits(db, db', work[w], q, <<>>)
  BY FreeFits DEF Top
<1> QED
  BY <1>1, Literals, Pushes

-----------------------------------------------------------------------------
(* The statements, one by one.                                             *)
LEMMA FindUserEffect ==
    ASSUME IInv, NEW w \in Workers, FindUser(w)
    PROVE  Effect(w)
<1>1. Top(w) /\ Op(w) = "findUser" /\ Shapes
  BY TopOf DEF FindUser, IInv, Tables
<1>2. db' = db /\ Grows(db, db')
  BY SameTables DEF FindUser, OnlyWork
<1> DEFINE p == work[w]
           u == Arg(w, 1)
           found == IF users[u] # NULL THEN {u} ELSE {}
           q == [p EXCEPT !.users = p.users \cup found]
           a == <<"mayCreateUser", u>>
<1>3. work' = Now(w, q, <<a>>)
  BY DEF FindUser
<1>4. u \in UUIDs /\ u \in {p.change.by, p.change.of}
  BY <1>1 DEF Top, Framed, Change
<1>5. \A v \in p.users \cup found : Made(db', v)
  BY <1>1, <1>2, <1>4 DEF Top, Learnt, Made, db
<1>6. Placed(db, db', p, a) /\ a[1] \in Free \ Needy
  BY <1>4 DEF Placed, Framed, Base, Free, Needy
<1>7. p.todo[1][1] \in Free \ Ends
  BY <1>1 DEF Top, Free, Ends
<1>8. Becomes(db', p, q) /\ q.todo = p.todo
  <2> HIDE DEF found
  <2> QED
    BY <1>1, <1>2, <1>5, NewRegister
<1> HIDE DEF q, a
<1>9. Fits(db, db', p, q, <<a>>) /\ IsSeq(<<a>>)
  BY <1>6, <1>7, FreeFits, Literals
<1> QED
  BY <1>1, <1>2, <1>3, <1>8, <1>9, Pushes

LEMMA MayCreateUserEffect ==
    ASSUME IInv, NEW w \in Workers, MayCreateUser(w)
    PROVE  Effect(w)
<1>1. Top(w) /\ Op(w) = "mayCreateUser" /\ Shapes
  BY TopOf DEF MayCreateUser, IInv, Tables
<1>2. Grows(db, db')
  BY SameTables DEF MayCreateUser, OnlyWork
<1> DEFINE u == Arg(w, 1)
           q == [work[w] EXCEPT !.users = work[w].users \ {u}]
           a == <<"getUser", u>>
<1>3. work' = Push(w, <<a>>) \/ work' = Now(w, q, <<>>)
  BY DEF MayCreateUser
<1>4. Placed(db, db', work[w], a) /\ a[1] \in Free \ Needy
  BY <1>1 DEF Top, Framed, Change, Placed, Base, Free, Needy
<1>5. Op(w) \in Free \ Ends
  BY <1>1 DEF Free, Ends
<1>6. \A v \in work[w].users \ {u} : Made(db', v)
  BY <1>1, <1>2, LearntGrows DEF Top, Learnt, IsProc
<1>7. Becomes(db', work[w], q) /\ q.todo = work[w].todo
  BY <1>1, <1>2, <1>6, NewRegister
<1> HIDE DEF q, a, u
<1> QED
  BY <1>1, <1>2, <1>3, <1>4, <1>5, <1>7, PushesOne, Sets

LEMMA LearnsUser ==
    ASSUME Shapes, NEW w \in Workers, Top(w), Grows(db, db'),
           Op(w) \in Free \ Ends, NEW u, Made(db', u),
           work' = UserKnown(w, u)
    PROVE  Effect(w)
<1> DEFINE q == [work[w] EXCEPT !.users = work[w].users \cup {u}]
<1>1. work' = Now(w, q, <<>>)
  BY DEF UserKnown
<1>2. \A v \in work[w].users \cup {u} : Made(db', v)
  BY LearntGrows DEF Top, Learnt, IsProc
<1>3. Becomes(db', work[w], q) /\ q.todo = work[w].todo
  BY <1>2, NewRegister
<1> HIDE DEF q
<1> QED
  BY <1>1, <1>3, Sets

LEMMA GetUserEffect ==
    ASSUME IInv, NEW w \in Workers, GetUser(w)
    PROVE  Effect(w)
<1>1. Top(w) /\ Op(w) = "getUser" /\ Shapes
  BY TopOf DEF GetUser, IInv, Tables
<1>2. db' = db /\ Grows(db, db')
  BY SameTables DEF GetUser, OnlyWork
<1> DEFINE u == Arg(w, 1)
           a == <<"insertUser", u, 0>>
<1>3. Op(w) \in Free \ Ends
  BY <1>1 DEF Free, Ends
<1>4. u \in UUIDs /\ u \in {Change(w).by, Change(w).of}
  BY <1>1 DEF Top, Framed
<1>5. CASE users[u] # NULL
  <2>1. work' = UserKnown(w, u) /\ Made(db', u)
    BY <1>2, <1>4, <1>5 DEF GetUser, Made, db
  <2> QED
    BY <1>1, <1>2, <1>3, <2>1, LearnsUser
<1>6. CASE users[u] = NULL
  <2>1. work' = Push(w, <<a>>)
    BY <1>6 DEF GetUser
  <2>2. Placed(db, db', work[w], a) /\ a[1] \in Free \ Needy
    BY <1>4 DEF Change, Placed, Framed, Base, Free, Needy
  <2> HIDE DEF a
  <2> QED
    BY <1>1, <1>2, <1>3, <2>1, <2>2, PushesOne
<1> QED
  BY <1>5, <1>6

(* The statements that make a user.                                        *)
MakeUser(u, by) == <<<<"getCol", UserRolesCol(u), by>>, <<"userDoc", u>>,
                     <<"getRole", u, Nobody, u>>,
                     <<"addMember", u, RoleDocOf(u)>>, <<"userMade", u>>>>

LEMMA MakeUserItems ==
    ASSUME NEW u, NEW by
    PROVE  LET S == MakeUser(u, by)
           IN  /\ IsSeq(S) /\ Len(S) = 5
               /\ S[1] = <<"getCol", UserRolesCol(u), by>>
               /\ S[2] = <<"userDoc", u>> /\ S[3] = <<"getRole", u, Nobody, u>>
               /\ S[4] = <<"addMember", u, RoleDocOf(u)>>
               /\ S[5] = <<"userMade", u>>
<1> DEFINE a == <<"getCol", UserRolesCol(u), by>>
           b == <<"userDoc", u>>
           c == <<"getRole", u, Nobody, u>>
           d == <<"addMember", u, RoleDocOf(u)>>
           e == <<"userMade", u>>
           S == <<a, b, c, d, e>>
<1>1. MakeUser(u, by) = S
  BY DEF MakeUser
<1> HIDE DEF a, b, c, d, e
<1>2. /\ S \in Seq({a, b, c, d, e}) /\ Len(S) = 5
      /\ S[1] = a /\ S[2] = b /\ S[3] = c /\ S[4] = d /\ S[5] = e
  OBVIOUS
<1>3. IsSeq(S)
  BY <1>2, SeqIsSeq
<1> QED
  BY <1>1, <1>2, <1>3 DEF a, b, c, d, e

LEMMA NotOfApp == \A x, y : ~OfApp(<<x, y>>)
BY DEF OfApp

LEMMA MakeUserFits ==
    ASSUME NEW s, NEW s2, NEW p, NEW q, NEW u \in UUIDs,
           u \in {p.change.by, p.change.of}, s.users[u] = NULL,
           Made(s2, u), NEW by, p.todo[1][1] \in Free \ Ends
    PROVE  Fits(s, s2, p, q, MakeUser(u, by))
<1> DEFINE S == MakeUser(u, by)
<1>1. /\ Len(S) = 5 /\ S[1] = <<"getCol", UserRolesCol(u), by>>
      /\ S[2] = <<"userDoc", u>> /\ S[3] = <<"getRole", u, Nobody, u>>
      /\ S[4] = <<"addMember", u, RoleDocOf(u)>>
      /\ S[5] = <<"userMade", u>>
  BY MakeUserItems
<1> HIDE DEF S
<1>2. /\ 1..5 = {1, 2, 3, 4, 5} /\ 1..(5 - 1) = {1, 2, 3, 4}
      /\ 1 + 1 = 2 /\ 2 + 1 = 3 /\ 3 + 1 = 4 /\ 4 + 1 = 5
  OBVIOUS
<1>3. \A i \in {1, 2, 3, 4, 5} : Framed(s2, p.change, S[i])
  <2>1. Framed(s2, p.change, <<"getCol", UserRolesCol(u), by>>)
    BY NotOfApp DEF Framed, About, UserRolesCol
  <2>2. Framed(s2, p.change, <<"userDoc", u>>)
    BY DEF Framed
  <2>3. Framed(s2, p.change, <<"getRole", u, Nobody, u>>)
    BY DEF Framed
  <2>4. Framed(s2, p.change, <<"addMember", u, RoleDocOf(u)>>)
    BY DEF Framed
  <2>5. Framed(s2, p.change, <<"userMade", u>>)
    BY DEF Framed
  <2> QED
    BY <1>1, <2>1, <2>2, <2>3, <2>4, <2>5
<1>4. \A i \in {1, 2, 3, 4, 5} :
        /\ S[i][1] = "userDoc" => i = 2 /\ s.users[S[i][2]] = NULL
        /\ S[i][1] \notin Base
  BY <1>1 DEF Base
<1>5. u \notin Reserve
  BY AccountsAssumption DEF Reserve
<1>6. /\ Follows(s2, S[1], S[2]) /\ Follows(s2, S[2], S[3])
      /\ Follows(s2, S[3], S[4]) /\ Follows(s2, S[4], S[5])
  BY <1>1, <1>5 DEF Follows, AfterCol, Given, Givers
<1>7. Under(s, s2, p, S[5])
  BY <1>1, FreeUnder DEF Free
<1>8. Ready(s2, q, S[1])
  BY <1>1, NotNeedyReady DEF Needy
<1> QED
  BY <1>1, <1>2, <1>3, <1>4, <1>6, <1>7, <1>8 DEF Fits, Under, S

LEMMA InsertUserEffect ==
    ASSUME IInv, NEW w \in Workers, InsertUser(w)
    PROVE  Effect(w) /\ users' \in [UUIDs -> [made : Nat, profile : Nat]
                                             \cup {NULL}]
<1>1. Top(w) /\ Op(w) = "insertUser" /\ Shapes
  BY TopOf DEF InsertUser, IInv, Tables
<1> DEFINE u == Arg(w, 1)
           profile == Arg(w, 2)
           row == [made |-> Change(w).at, profile |-> profile]
<1>2. Op(w) \in Free \ Ends
  BY <1>1 DEF Free, Ends
<1>3. u \in UUIDs /\ u \in {Change(w).by, Change(w).of} /\ profile \in Nat
  BY <1>1 DEF Top, Framed
<1>4. row # NULL /\ row \in [made : Nat, profile : Nat]
  <2>1. Change(w).at \in Nat
    BY <1>1 DEF Top, IsChange
  <2> QED
    BY <1>3, <2>1, AccountsAssumption
<1>5. UNCHANGED <<roles, members, cols, colRoles, docs>>
  BY DEF InsertUser
<1>6. CASE users[u] = NULL
  <2>1. /\ users' = [users EXCEPT ![u] = row]
        /\ work' = Push(w, MakeUser(u, Change(w).by))
    BY <1>6 DEF InsertUser, MakeUser
  <2> HIDE DEF row
  <2>2. users' \in [UUIDs -> [made : Nat, profile : Nat] \cup {NULL}]
    BY <1>1, <1>3, <1>4, <2>1 DEF Shapes
  <2>3. Made(db', u) /\ Grows(db, db')
    BY <1>1, <1>3, <1>4, <1>5, <2>1 DEF Shapes, Grows, Made, db, HasDoc
  <2>4. Becomes(db', work[w], work[w])
    BY <1>1, <2>3, Unchanged DEF Top
  <2> DEFINE S == MakeUser(u, Change(w).by)
  <2>5. db.users[u] = NULL
    BY <1>6 DEF db
  <2> HIDE DEF u
  <2>6. Fits(db, db', work[w], work[w], S) /\ IsSeq(S)
    BY <1>1, <1>2, <1>3, <2>3, <2>5, MakeUserFits, MakeUserItems
    DEF Top, Change
  <2>7. work' = Now(w, work[w], S)
    BY <2>1 DEF Push
  <2> HIDE DEF S
  <2>8. Effect(w)
    BY <1>1, <2>3, <2>4, <2>6, <2>7, Pushes
  <2> QED
    BY <2>2, <2>8
<1>7. CASE users[u] # NULL
  <2>1. /\ work' = IF profile = 0 THEN UserKnown(w, u)
                   ELSE Push(w, <<<<"updateUser", u, profile>>>>)
        /\ users' = users
    BY <1>7 DEF InsertUser
  <2>2. db' = db /\ Grows(db, db')
    BY <1>5, <2>1, SameTables DEF tables
  <2>3. Made(db', u) /\ Made(db, u)
    BY <1>3, <1>7, <2>2 DEF Made, db
  <2> DEFINE a == <<"updateUser", u, profile>>
  <2>4. Placed(db, db', work[w], a) /\ a[1] \in Free \ Needy
    BY <1>3, <2>3 DEF Change, Placed, Framed, Base, Free, Needy
  <2> HIDE DEF a
  <2>5. Effect(w)
    BY <1>1, <1>2, <2>1, <2>2, <2>3, <2>4, LearnsUser, PushesOne DEF a
  <2> QED
    BY <1>1, <2>1, <2>5 DEF Shapes
<1> QED
  BY <1>6, <1>7

LEMMA UserDocEffect ==
    ASSUME IInv, NEW w \in Workers, UserDoc(w)
    PROVE  Effect(w)
<1>1. Top(w) /\ Op(w) = "userDoc" /\ Shapes
  BY TopOf DEF UserDoc, IInv, Tables
<1>2. docs \subseteq docs' /\ UNCHANGED <<users, roles, cols>>
  BY DEF UserDoc
<1>3. Grows(db, db')
  BY <1>2 DEF Grows, db, HasDoc
<1>4. Op(w) \in Free \ Ends /\ work' = Return(w)
  BY <1>1 DEF Free, Ends, UserDoc
<1> QED
  BY <1>1, <1>3, <1>4, Returns

LEMMA UserMadeEffect ==
    ASSUME IInv, NEW w \in Workers, UserMade(w)
    PROVE  Effect(w)
<1>1. Top(w) /\ Op(w) = "userMade" /\ Shapes
  BY TopOf DEF UserMade, IInv, Tables
<1>2. db' = db /\ Grows(db, db')
  BY SameTables DEF UserMade, OnlyWork
<1>3. Op(w) \in Free \ Ends /\ Made(db', Arg(w, 1))
  BY <1>1, <1>2 DEF Top, Framed, Free, Ends
<1>4. work' = UserKnown(w, Arg(w, 1))
  BY DEF UserMade
<1> QED
  BY <1>1, <1>2, <1>3, <1>4, LearnsUser

LEMMA UpdateUserEffect ==
    ASSUME IInv, NEW w \in Workers, UpdateUser(w)
    PROVE  Effect(w) /\ users' \in [UUIDs -> [made : Nat, profile : Nat]
                                             \cup {NULL}]
<1>1. Top(w) /\ Op(w) = "updateUser" /\ Shapes
  BY TopOf DEF UpdateUser, IInv, Tables
<1> DEFINE u == Arg(w, 1)
           profile == Arg(w, 2)
<1>2. u \in UUIDs /\ users[u] # NULL /\ profile \in Nat
  BY <1>1 DEF Top, Framed, Made, db
<1>3. users[u] \in [made : Nat, profile : Nat]
  BY <1>1, <1>2 DEF Shapes
<1>4. [users[u] EXCEPT !.profile = profile] \in [made : Nat, profile : Nat]
  BY <1>2, <1>3
<1>5. \/ users' = users
      \/ users' = [users EXCEPT ![u] = [users[u] EXCEPT !.profile = profile]]
  BY DEF UpdateUser
<1>6. /\ users' \in [UUIDs -> [made : Nat, profile : Nat] \cup {NULL}]
      /\ \A v \in UUIDs : users[v] # NULL => users'[v] # NULL
  BY <1>1, <1>2, <1>4, <1>5, AccountsAssumption DEF Shapes
<1>7. Grows(db, db')
  BY <1>6 DEF UpdateUser, Grows, db, HasDoc
<1>8. Op(w) \in Free \ Ends /\ work' = Return(w)
  BY <1>1 DEF Free, Ends, UpdateUser
<1> QED
  BY <1>1, <1>6, <1>7, <1>8, Returns

LEMMA ColEffect ==
    ASSUME IInv, NEW w \in Workers, Col(w)
    PROVE  Effect(w)
<1>1. Top(w) /\ Op(w) = "col" /\ Shapes
  BY TopOf DEF Col, IInv, Tables
<1>2. db' = db /\ Grows(db, db') /\ db.cols = cols
  BY SameTables DEF Col, OnlyWork, db
<1> DEFINE name == Arg(w, 1)
           q == [work[w] EXCEPT !.cols = work[w].cols \cup {name}]
           a == <<"createCol", name>>
<1>3. \/ work' = Return(w)
      \/ name \in cols /\ work' = Now(w, q, <<>>)
      \/ work' = Push(w, <<a>>)
  BY DEF Col
<1>4. Op(w) \in Free \ Ends
  BY <1>1 DEF Free, Ends
<1>5. Placed(db, db', work[w], a) /\ a[1] \in Free \ Needy
  BY <1>1 DEF Top, Change, Placed, Framed, Base, Free, Needy
<1>6. ASSUME name \in cols
      PROVE  Becomes(db', work[w], q) /\ q.todo = work[w].todo
  <2>1. work[w].cols \cup {name} \subseteq db'.cols
    BY <1>1, <1>2, <1>6 DEF Top, Learnt
  <2> QED
    BY <1>1, <1>2, <2>1, NewRegister
<1> HIDE DEF q, a, name
<1> QED
  BY <1>1, <1>2, <1>3, <1>4, <1>5, <1>6, Returns, PushesOne, Sets

LEMMA CreateColEffect ==
    ASSUME IInv, NEW w \in Workers, CreateCol(w)
    PROVE  Effect(w)
<1>1. Top(w) /\ Op(w) = "createCol" /\ Shapes
  BY TopOf DEF CreateCol, IInv, Tables
<1>2. Grows(db, db')
  BY SameTables DEF CreateCol, OnlyWork
<1>3. Op(w) \in Free \ Ends
  BY <1>1 DEF Free, Ends
<1> DEFINE name == Arg(w, 1)
           a == <<"getCol", name, Change(w).by>>
           b == <<"knowCol", name>>
<1>4. work' = Return(w) \/ work' = Now(w, work[w], <<a, b>>)
  BY DEF CreateCol, Push
<1>5. Placed(db, db', work[w], a) /\ Placed(db, db', work[w], b)
  BY <1>1 DEF Top, Change, Placed, Framed, Base
<1>6. Follows(db', a, b) /\ Ready(db', work[w], a)
  BY DEF Follows, AfterCol, Ready
<1>7. Under(db, db', work[w], b) /\ a[1] \notin Base
  <2>1. b[1] \in Free /\ a[1] \notin Base /\ work[w].todo[1][1] \in Free
    BY <1>1 DEF Top, Free, Base
  <2> HIDE DEF a, b
  <2> QED
    BY <2>1, FreeUnder
<1> HIDE DEF a, b
<1>8. Fits(db, db', work[w], work[w], <<a, b>>)
  BY <1>1, <1>3, <1>5, <1>6, <1>7, FitsTwo DEF Top
<1>9. Becomes(db', work[w], work[w]) /\ IsSeq(<<a, b>>)
  BY <1>1, <1>2, Unchanged, Literals DEF Top
<1> QED
  BY <1>1, <1>2, <1>3, <1>4, <1>8, <1>9, Returns, Pushes

LEMMA KnowColEffect ==
    ASSUME IInv, NEW w \in Workers, KnowCol(w)
    PROVE  Effect(w)
<1>1. Top(w) /\ Op(w) = "knowCol" /\ Shapes
  BY TopOf DEF KnowCol, IInv, Tables
<1>2. db' = db /\ Grows(db, db')
  BY SameTables DEF KnowCol, OnlyWork
<1> DEFINE found == IF work[w].got THEN {Arg(w, 1)} ELSE {}
           q == [work[w] EXCEPT !.cols = work[w].cols \cup found]
<1>3. work' = Now(w, q, <<>>) /\ Op(w) \in Free \ Ends
  BY <1>1 DEF KnowCol, Free, Ends
<1>4. work[w].cols \cup found \subseteq db'.cols
  BY <1>1, <1>2 DEF Top, Learnt, Ready
<1>5. Becomes(db', work[w], q) /\ q.todo = work[w].todo
  <2> HIDE DEF found
  <2> QED
    BY <1>1, <1>2, <1>4, NewRegister
<1> HIDE DEF q
<1> QED
  BY <1>1, <1>2, <1>3, <1>5, Sets

(* What the collection that was looked for is needed for.                  *)
LEMMA ColNext ==
    ASSUME NEW s, NEW s2, NEW p, NEW q,
           p.todo[1][1] \in {"getCol", "colMade"},
           q.got => p.todo[1][2] \in s2.cols
    PROVE  NextReady(s, s2, p, q)
BY DEF NextReady, Follows, Ready, AfterCol, Givers

LEMMA GetColEffect ==
    ASSUME IInv, NEW w \in Workers, GetCol(w)
    PROVE  Effect(w)
<1>1. /\ Top(w) /\ Op(w) = "getCol" /\ Shapes
      /\ ALL \in cols
  BY TopOf DEF GetCol, IInv, Tables, ColsOK
<1>2. db' = db /\ Grows(db, db') /\ db.cols = cols
  BY SameTables DEF GetCol, OnlyWork, db
<1> DEFINE p == work[w]
           name == Arg(w, 1)
           user == Arg(w, 2)
<1>3. p.todo[1][1] = "getCol" /\ p.todo[1][2] = name
  BY <1>1 DEF Top
<1>4. CASE name \in cols
  <2> DEFINE q == [p EXCEPT !.got = TRUE]
  <2>1. work' = Now(w, q, <<>>)
    BY <1>4 DEF GetCol
  <2>2. Becomes(db', p, q) /\ q.todo = p.todo
    BY <1>1, <1>2, NewRegister
  <2> HIDE DEF q, p, name
  <2>3. Fits(db, db', p, q, <<>>)
    BY <1>2, <1>3, <1>4, ColNext, FitsNone DEF Ends
  <2> QED
    BY <1>1, <1>2, <2>1, <2>2, <2>3, Literals, Pushes DEF p
<1>5. CASE name \notin cols
  <2> DEFINE a == <<"hasPolicy", ALL, user>>
             b == <<"insertCol", name, user>>
             c == <<"colMade", name>>
  <2>1. work' = Now(w, p, <<a, b, c>>)
    BY <1>5 DEF GetCol, Push
  <2>2. /\ Placed(db, db', p, a) /\ Placed(db, db', p, b)
        /\ Placed(db, db', p, c)
    <3>1. ~OfApp(ALL)
      BY DEF OfApp
    <3>2. About(p.change, name)
      BY <1>1 DEF Top, Framed, Change
    <3> QED
      BY <1>1, <1>2, <3>1, <3>2 DEF Placed, Framed, ColKnown, About, Base
  <2>3. /\ Follows(db', a, b) /\ Follows(db', b, c)
        /\ Ready(db', p, a) /\ a[1] \notin Base /\ b[1] \notin Base
    BY DEF Follows, Ready, Base
  <2>4. Under(db, db', p, c)
    BY <1>3 DEF Under, Follows, AfterCol, Givers
  <2>5. Becomes(db', p, p)
    BY <1>1, <1>2, Unchanged DEF Top
  <2> HIDE DEF a, b, c, p
  <2>6. Fits(db, db', p, p, <<a, b, c>>) /\ IsSeq(<<a, b, c>>)
    BY <1>3, <2>2, <2>3, <2>4, FitsThree, Literals DEF Ends
  <2> QED
    BY <1>1, <1>2, <2>1, <2>5, <2>6, Pushes DEF p
<1> QED
  BY <1>4, <1>5

LEMMA InsertColEffect ==
    ASSUME IInv, NEW w \in Workers, InsertCol(w)
    PROVE  Effect(w)
<1>1. Top(w) /\ Op(w) = "insertCol" /\ Shapes
  BY TopOf DEF InsertCol, IInv, Tables
<1>2. cols \subseteq cols' /\ UNCHANGED <<users, roles, docs>>
  BY DEF InsertCol
<1>3. Grows(db, db') /\ db'.cols = cols'
  BY <1>2 DEF Grows, db, HasDoc
<1> DEFINE p == work[w]
           name == Arg(w, 1)
<1>4. CASE name \in cols
  <2>1. work' = Raise(w) /\ Op(w) \in Fails
    BY <1>1, <1>4 DEF InsertCol, Fails
  <2> QED
    BY <1>1, <1>3, <2>1, Raises
<1>5. CASE name \notin cols
  <2> DEFINE a == <<"hasPolicy", name, Arg(w, 2)>>
  <2>1. work' = Now(w, p, <<a>>) /\ name \in cols'
    BY <1>5 DEF InsertCol, Push
  <2>2. Placed(db, db', p, a) /\ Ready(db', p, a)
    BY <1>1, <1>3, <2>1
    DEF Top, Change, Placed, Framed, ColKnown, Base, Ready
  <2>3. Under(db, db', p, a) /\ p.todo[1][1] \notin Ends
    BY <1>1 DEF Top, Under, Follows, Ends
  <2>4. Becomes(db', p, p)
    BY <1>1, <1>3, Unchanged DEF Top
  <2> HIDE DEF a, p
  <2>5. Fits(db, db', p, p, <<a>>) /\ IsSeq(<<a>>)
    BY <2>2, <2>3, FitsOne, Literals
  <2> QED
    BY <1>1, <1>3, <2>1, <2>4, <2>5, Pushes DEF p
<1> QED
  BY <1>4, <1>5

LEMMA ColMadeEffect ==
    ASSUME IInv, NEW w \in Workers, ColMade(w)
    PROVE  Effect(w)
<1>1. Top(w) /\ Op(w) = "colMade" /\ Shapes
  BY TopOf DEF ColMade, IInv, Tables
<1>2. db' = db /\ Grows(db, db') /\ db.cols = cols
  BY SameTables DEF ColMade, OnlyWork, db
<1> DEFINE p == work[w]
           found == Arg(w, 1) \in cols
           q == [p EXCEPT !.got = found]
<1>3. work' = Now(w, q, <<>>)
  BY DEF ColMade
<1>4. Becomes(db', p, q) /\ q.todo = p.todo /\ q.got = found
  <2> HIDE DEF found
  <2>1. Becomes(db', p, q) /\ q.todo = p.todo
    BY <1>1, <1>2, NewRegister
  <2>2. IsProc(p)
    BY <1>1 DEF Top
  <2> HIDE DEF p
  <2>3. q.got = found
    BY <2>2, Registers
  <2> QED
    BY <2>1, <2>3
<1>5. /\ p.todo[1][1] \in {"getCol", "colMade"} /\ p.todo[1][1] \notin Ends
      /\ q.got => p.todo[1][2] \in db'.cols
  BY <1>1, <1>2, <1>4 DEF Top, Ends
<1> HIDE DEF q, p
<1>6. Fits(db, db', p, q, <<>>)
  BY <1>5, ColNext, FitsNone
<1> QED
  BY <1>1, <1>2, <1>3, <1>4, <1>6, Literals, Pushes DEF p

LEMMA CreatePolicyIfMissingEffect ==
    ASSUME IInv, NEW w \in Workers, CreatePolicyIfMissing(w)
    PROVE  Effect(w)
<1>1. Top(w) /\ Op(w) = "hasPolicy" /\ Shapes
  BY TopOf DEF CreatePolicyIfMissing, IInv, Tables
<1>2. db' = db /\ Grows(db, db')
  BY SameTables DEF CreatePolicyIfMissing, OnlyWork
<1> DEFINE p == work[w]
           user == Arg(w, 2)
           col == Arg(w, 1)
           a == <<"getRole", DefaultRole(user), Nobody, user>>
           b == <<"selectRows", col>>
           c == <<"replaceRows", col>>
<1>3. work' = Now(w, p, <<>>) \/ work' = Now(w, p, <<a, b, c>>)
  BY DEF CreatePolicyIfMissing, Installs, Return, Push
<1>4. NextReady(db, db', p, p) /\ p.todo[1][1] \notin Ends
  BY <1>1 DEF Top, NextReady, Follows, Ready, Ends
<1>5. /\ Placed(db, db', p, a) /\ Placed(db, db', p, b)
      /\ Placed(db, db', p, c)
  <2>1. ColKnown(db', p.change, <<"", col>>)
    BY <1>1, <1>2 DEF Top, Change, Framed, ColKnown
  <2>2. Placed(db, db', p, a)
    BY DEF Placed, Framed, Base
  <2>3. Placed(db, db', p, b)
    BY <2>1 DEF Placed, Framed, ColKnown, Base
  <2>4. Placed(db, db', p, c)
    BY <2>1 DEF Placed, Framed, ColKnown, Base
  <2> QED
    BY <2>2, <2>3, <2>4
<1>6. /\ Follows(db', a, b) /\ Follows(db', b, c)
      /\ Ready(db', p, a) /\ a[1] \notin Base /\ b[1] \notin Base
  BY DEF Follows, Givers, Ready, Base
<1>7. Under(db, db', p, c)
  BY <1>1 DEF Top, Under, Follows
<1>8. Becomes(db', p, p)
  BY <1>1, <1>2, Unchanged DEF Top
<1> HIDE DEF a, b, c, p
<1>9. Fits(db, db', p, p, <<a, b, c>>) /\ IsSeq(<<a, b, c>>)
  BY <1>4, <1>5, <1>6, <1>7, FitsThree, Literals
<1>10. Fits(db, db', p, p, <<>>) /\ IsSeq(<<>>)
  BY <1>4, FitsNone, Literals
<1> QED
  BY <1>1, <1>2, <1>3, <1>8, <1>9, <1>10, Pushes DEF p

LEMMA SelectRowsEffect ==
    ASSUME IInv, NEW w \in Workers, SelectRows(w)
    PROVE  Effect(w)
<1>1. Top(w) /\ Op(w) = "selectRows" /\ Shapes
  BY TopOf DEF SelectRows, IInv, Tables
<1>2. db' = db /\ Grows(db, db')
  BY SameTables DEF SelectRows, OnlyWork
<1> DEFINE p == work[w]
           col == Arg(w, 1)
           rows == RowsOf(col)
           q == [p EXCEPT !.seen = rows]
<1>3. work' = Now(w, q, <<>>)
  BY DEF SelectRows
<1>4. \A r \in rows : r.col = col
  BY DEF RowsOf
<1> HIDE DEF rows
<1>5. /\ Becomes(db', p, q) /\ q.todo = p.todo
      /\ q.role = p.role /\ q.seen = rows
  <2>1. Becomes(db', p, q) /\ q.todo = p.todo
    BY <1>1, <1>2, NewRegister
  <2>2. IsProc(p)
    BY <1>1 DEF Top
  <2> HIDE DEF p
  <2>3. q.role = p.role /\ q.seen = rows
    BY <2>2, Registers
  <2> QED
    BY <2>1, <2>3
<1>6. NextReady(db, db', p, q) /\ p.todo[1][1] \notin Ends
  BY <1>1, <1>2, <1>4, <1>5
  DEF Top, NextReady, Follows, Ready, RoleKnown, Ends
<1> HIDE DEF q, p
<1>7. Fits(db, db', p, q, <<>>)
  BY <1>6, FitsNone
<1> QED
  BY <1>1, <1>2, <1>3, <1>5, <1>7, Literals, Pushes DEF p

LEMMA ReplaceRowsEffect ==
    ASSUME IInv, NEW w \in Workers, ReplaceRows(w)
    PROVE  Effect(w)
<1>1. Top(w) /\ Op(w) = "replaceRows" /\ Shapes
  BY TopOf DEF ReplaceRows, IInv, Tables
<1>2. db' = db /\ Grows(db, db')
  BY DEF ReplaceRows, db, Grows
<1> DEFINE p == work[w]
<1>3. work' = Raise(w) \/ work' = Now(w, p, <<>>)
  BY DEF ReplaceRows, Return, Push
<1>4. Op(w) \in Fails /\ Op(w) # "colMade"
  BY <1>1 DEF Fails
<1>5. NextReady(db, db', p, p) /\ p.todo[1][1] \notin Ends
  BY <1>1 DEF Top, NextReady, Follows, Ready, Ends
<1>6. Becomes(db', p, p)
  BY <1>1, <1>2, Unchanged DEF Top
<1> HIDE DEF p
<1>7. Fits(db, db', p, p, <<>>) /\ IsSeq(<<>>)
  BY <1>5, FitsNone, Literals
<1> QED
  BY <1>1, <1>2, <1>3, <1>4, <1>6, <1>7, Raises, Pushes DEF p

(* What the role that was found is needed for.                             *)
LEMMA RoleNext ==
    ASSUME NEW s, NEW s2, NEW p, NEW q, p.todo[1][1] \in Givers,
           RoleKnown(s2, q.role),
           Given(s, p.todo[1]) \notin Reserve =>
             /\ q.role \in 1..Len(s2.roles)
             /\ Given(s, p.todo[1]) = s2.roles[q.role]
    PROVE  NextReady(s, s2, p, q) /\ p.todo[1][1] \notin Ends
<1>1. p.todo[1][1] \notin Ends
  BY DEF Givers, Ends
<1>2. NextReady(s, s2, p, q)
  BY DEF NextReady, Follows, Ready, AfterCol, Givers
<1> QED
  BY <1>1, <1>2

(* A statement that hands on a role.                                       *)
LEMMA HandsOn ==
    ASSUME Shapes, NEW w \in Workers, Top(w), Grows(db, db'),
           Op(w) \in Givers, NEW id, RoleKnown(db', id),
           Given(db, work[w].todo[1]) \notin Reserve =>
             /\ id \in 1..Len(db'.roles)
             /\ Given(db, work[w].todo[1]) = db'.roles[id],
           work' = RoleFound(w, id)
    PROVE  Effect(w)
<1> DEFINE p == work[w]
           q == [p EXCEPT !.role = id]
<1>1. work' = Now(w, q, <<>>)
  BY DEF RoleFound
<1>2. Becomes(db', p, q) /\ q.todo = p.todo
  BY NewRegister
<1>3. IsProc(p) /\ p.todo[1][1] \in Givers
  BY DEF Top
<1>4. q.role = id
  <2> HIDE DEF p
  <2> QED
    BY <1>3, Registers
<1> HIDE DEF q
<1>5. NextReady(db, db', p, q) /\ p.todo[1][1] \notin Ends
  BY <1>3, <1>4, RoleNext
<1>6. Fits(db, db', p, q, <<>>)
  BY <1>5, FitsNone
<1> QED
  BY <1>1, <1>2, <1>6, Literals, Pushes

LEMMA RoleIdsKnown ==
    ASSUME IsSeq(roles), NEW uuid, NEW id \in RoleIds(uuid)
    PROVE  /\ RoleKnown(db, id)
           /\ uuid \notin Reserve => id \in 1..Len(roles) /\ roles[id] = uuid
<1>1. DOMAIN roles = 1..Len(roles)
  BY SeqOfItems
<1> QED
  BY <1>1 DEF RoleIds, Reserve, RoleKnown, db

LEMMA GetRoleEffect ==
    ASSUME IInv, NEW w \in Workers, GetRole(w)
    PROVE  Effect(w)
<1>1. Top(w) /\ Op(w) = "getRole" /\ Shapes
  BY TopOf DEF GetRole, IInv, Tables
<1>2. db' = db /\ Grows(db, db') /\ db.roles = roles
  BY SameTables DEF GetRole, OnlyWork, db
<1> DEFINE p == work[w]
           uuid == Arg(w, 1)
           a == <<"insertRole", uuid, Arg(w, 2), Arg(w, 3)>>
<1>3. p.todo[1][1] = "getRole" /\ p.todo[1][2] = uuid
  BY <1>1 DEF Top
<1>4. ASSUME NEW id \in RoleIds(uuid), work' = RoleFound(w, id)
      PROVE  Effect(w)
  <2>1. /\ RoleKnown(db', id)
        /\ uuid \notin Reserve => /\ id \in 1..Len(db'.roles)
                                  /\ db'.roles[id] = uuid
    BY <1>1, <1>2, RoleIdsKnown DEF Shapes
  <2>2. Given(db, p.todo[1]) = uuid
    BY <1>3 DEF Given
  <2>3. Op(w) \in Givers
    BY <1>1 DEF Givers
  <2> QED
    BY <1>1, <1>2, <1>4, <2>1, <2>2, <2>3, HandsOn
<1>5. ASSUME RoleIds(uuid) = {}, work' = Push(w, <<a>>)
      PROVE  Effect(w)
  <2>1. uuid \notin Reserve
    BY <1>5 DEF RoleIds, Reserve
  <2>2. Placed(db, db', p, a) /\ Ready(db', p, a)
    BY <2>1 DEF Placed, Framed, Base, Ready
  <2>3. Under(db, db', p, a) /\ p.todo[1][1] \notin Ends
    BY <1>3 DEF Under, Follows, Given, Givers, AfterCol, Ends
  <2>4. Becomes(db', p, p) /\ work' = Now(w, p, <<a>>)
    BY <1>1, <1>2, <1>5, Unchanged DEF Top, Push
  <2> HIDE DEF a, p
  <2>5. Fits(db, db', p, p, <<a>>) /\ IsSeq(<<a>>)
    BY <2>2, <2>3, FitsOne, Literals
  <2> QED
    BY <1>1, <1>2, <2>4, <2>5, Pushes DEF p
<1> QED
  BY <1>4, <1>5 DEF GetRole

LEMMA InsertRoleEffect ==
    ASSUME IInv, NEW w \in Workers, InsertRole(w)
    PROVE  Effect(w) /\ IsSeq(roles') /\ RolesOK'
<1>1. Top(w) /\ Op(w) = "insertRole" /\ Shapes /\ RolesOK
  BY TopOf DEF InsertRole, IInv, Tables
<1> DEFINE p == work[w]
           uuid == Arg(w, 1)
           n == Len(roles) + 1
           a == <<"mayCreateCol", RoleUsersCol(uuid), Arg(w, 2), Arg(w, 3)>>
           b == <<"roleMade", n>>
<1>2. roles' = Append(roles, uuid) /\ work' = Now(w, p, <<a, b>>)
  BY DEF InsertRole, Push
<1>3. /\ IsSeq(roles') /\ Len(roles') = n /\ roles'[n] = uuid
      /\ n \in 1..n /\ 1..n = 1..Len(roles) \cup {n}
      /\ \A i \in 1..Len(roles) : i \in 1..n /\ roles'[i] = roles[i]
  <2> DEFINE S == {roles[i] : i \in 1..Len(roles)} \cup {uuid}
  <2>1. roles \in [1..Len(roles) -> S] /\ Len(roles) \in Nat
    BY <1>1 DEF Shapes, IsSeq
  <2>2. roles \in Seq(S) /\ uuid \in S
    BY <2>1, SeqDef
  <2> HIDE DEF S
  <2>3. /\ roles' \in Seq(S) /\ Len(roles') = n /\ roles'[n] = uuid
        /\ \A i \in 1..Len(roles) : roles'[i] = roles[i]
    BY <1>2, <2>2, AppendProperties
  <2>4. n \in 1..n /\ 1..n = 1..Len(roles) \cup {n}
    BY <2>1
  <2> QED
    BY <2>3, <2>4, SeqIsSeq
<1> HIDE DEF n
<1>4. p.todo[1][1] = "insertRole" /\ p.todo[1][2] = uuid /\ uuid \notin Reserve
  BY <1>1 DEF Top, Framed
<1>5. RolesOK'
  <2>1. DOMAIN roles' = 1..n /\ DOMAIN roles = 1..Len(roles)
    BY <1>1, <1>3, SeqOfItems DEF Shapes
  <2> QED
    BY <1>1, <1>3, <1>4, <2>1 DEF RolesOK
<1>6. UNCHANGED <<users, cols, docs>>
  BY DEF InsertRole
<1>7. Grows(db, db') /\ db'.roles = roles'
  BY <1>3, <1>6 DEF Grows, db, HasDoc
<1>8. /\ Placed(db, db', p, a) /\ Placed(db, db', p, b)
      /\ Follows(db', a, b) /\ Ready(db', p, a)
      /\ a[1] \notin Base
  <2>1. Placed(db, db', p, a) /\ a[1] \notin Base /\ Ready(db', p, a)
    BY NotOfApp DEF Placed, Framed, About, RoleUsersCol, Base, Ready
  <2>2. Placed(db, db', p, b)
    BY <1>3, <1>7 DEF Placed, Framed, Base
  <2>3. Follows(db', a, b)
    BY DEF Follows
  <2> QED
    BY <2>1, <2>2, <2>3
<1>9. Given(db', b) = uuid /\ Given(db, p.todo[1]) = uuid
  BY <1>3, <1>4, <1>7 DEF Given
<1>10. Under(db, db', p, b) /\ p.todo[1][1] \notin Ends
  BY <1>4, <1>9 DEF Under, Follows, Givers, AfterCol, Ends
<1>11. Becomes(db', p, p)
  BY <1>1, <1>7, Unchanged DEF Top
<1> HIDE DEF a, b, p
<1>12. Fits(db, db', p, p, <<a, b>>) /\ IsSeq(<<a, b>>)
  BY <1>8, <1>10, FitsTwo, Literals
<1>13. Effect(w)
  BY <1>1, <1>2, <1>7, <1>11, <1>12, Pushes DEF p
<1> QED
  BY <1>3, <1>5, <1>13

LEMMA RoleMadeEffect ==
    ASSUME IInv, NEW w \in Workers, RoleMade(w)
    PROVE  Effect(w)
<1>1. Top(w) /\ Op(w) = "roleMade" /\ Shapes
  BY TopOf DEF RoleMade, IInv, Tables
<1>2. db' = db /\ Grows(db, db')
  BY SameTables DEF RoleMade, OnlyWork
<1> DEFINE id == Arg(w, 1)
<1>3. id \in 1..Len(db.roles) /\ Given(db, work[w].todo[1]) = db.roles[id]
  BY <1>1 DEF Top, Framed, Given
<1>4. RoleKnown(db', id) /\ Op(w) \in Givers /\ work' = RoleFound(w, id)
  BY <1>1, <1>2, <1>3 DEF RoleKnown, Givers, RoleMade
<1> HIDE DEF id
<1> QED
  BY <1>1, <1>2, <1>3, <1>4, HandsOn

LEMMA MayCreateColEffect ==
    ASSUME IInv, NEW w \in Workers, MayCreateCol(w)
    PROVE  Effect(w)
<1>1. Top(w) /\ Op(w) = "mayCreateCol" /\ Shapes
  BY TopOf DEF MayCreateCol, IInv, Tables
<1>2. Grows(db, db')
  BY SameTables DEF MayCreateCol
<1> DEFINE p == work[w]
           a == <<"getCol", Arg(w, 1), Arg(w, 3)>>
<1>3. CASE work' = Push(w, <<a>>)
  <2>1. Placed(db, db', p, a) /\ Ready(db', p, a)
    BY <1>1 DEF Top, Change, Placed, Framed, Base, Ready
  <2>2. Under(db, db', p, a) /\ p.todo[1][1] \notin Ends
    BY <1>1 DEF Top, Under, Follows, Ends
  <2>3. Becomes(db', p, p) /\ work' = Now(w, p, <<a>>)
    BY <1>1, <1>2, <1>3, Unchanged DEF Top, Push
  <2> HIDE DEF a, p
  <2>4. Fits(db, db', p, p, <<a>>) /\ IsSeq(<<a>>)
    BY <2>1, <2>2, FitsOne, Literals
  <2> QED
    BY <1>1, <1>2, <2>3, <2>4, Pushes DEF p
<1>4. CASE /\ work' = Raise(w)
           /\ log' = [log EXCEPT !.refused = @ \cup {Change(w)}]
  <2>1. Change(w) \in log'.refused
    BY <1>1, <1>4 DEF Shapes
  <2> QED
    BY <1>1, <1>2, <1>4, <2>1, Raises
<1> QED
  BY <1>3, <1>4 DEF MayCreateCol

LEMMA AddMemberEffect ==
    ASSUME IInv, NEW w \in Workers, AddMember(w)
    PROVE  Effect(w)
<1>1. Top(w) /\ Op(w) = "addMember" /\ Shapes
  BY TopOf DEF AddMember, IInv, Tables
<1>2. Grows(db, db')
  BY DEF AddMember, Grows, db
<1>3. Op(w) \in Free \ Ends /\ work' = Return(w)
  BY <1>1 DEF AddMember, Free, Ends
<1> QED
  BY <1>1, <1>2, <1>3, Returns

LEMMA RemoveMemberEffect ==
    ASSUME IInv, NEW w \in Workers, RemoveMember(w)
    PROVE  Effect(w)
<1>1. Top(w) /\ Op(w) = "removeMember" /\ Shapes
  BY TopOf DEF RemoveMember, IInv, Tables
<1>2. Grows(db, db')
  BY DEF RemoveMember, Grows, db
<1>3. Op(w) \in Free \ Ends /\ work' = Return(w)
  BY <1>1 DEF RemoveMember, Free, Ends
<1> QED
  BY <1>1, <1>2, <1>3, Returns

LEMMA HasNoIdEffect ==
    ASSUME IInv, NEW w \in Workers, HasNoId(w)
    PROVE  Effect(w)
<1>1. Op(w) \in {"addMember", "removeMember"}
  BY DEF HasNoId, MissingId
<1>2. Top(w) /\ Shapes
  BY <1>1, TopOf DEF IInv, Tables
<1>3. Grows(db, db')
  BY SameTables DEF HasNoId
<1>4. Change(w) \in log'.refused /\ work' = Raise(w)
  BY <1>2 DEF HasNoId, Shapes
<1> QED
  BY <1>1, <1>2, <1>3, <1>4, Raises

LEMMA NeedEffect ==
    ASSUME IInv, NEW w \in Workers, Need(w)
    PROVE  Effect(w)
<1>1. Top(w) /\ Op(w) = "need" /\ Shapes
  BY TopOf DEF Need, IInv, Tables
<1>2. Grows(db, db')
  BY SameTables DEF Need, OnlyWork
<1>3. Op(w) \in Free \ Ends /\ Op(w) \in Fails /\ Op(w) # "colMade"
  BY <1>1 DEF Free, Ends, Fails, Base
<1>4. work' = Return(w) \/ work' = Raise(w)
  BY DEF Need
<1> QED
  BY <1>1, <1>2, <1>3, <1>4, Returns, Raises

(* Statements of the change itself.                                        *)
Plain(s, c, S) ==
    /\ IsSeq(S)
    /\ \A i \in 1..Len(S) : Framed(s, c, S[i]) /\ S[i][1] \in Base \ Needy

LEMMA PlainJoined ==
    ASSUME NEW s, NEW c, NEW S, NEW T, Plain(s, c, S), Plain(s, c, T)
    PROVE  Plain(s, c, S \o T)
<1> DEFINE N == S \o T
<1>1. /\ IsSeq(N) /\ Len(N) = Len(S) + Len(T)
      /\ \A i \in 1..Len(S) : N[i] = S[i]
      /\ \A i \in 1..Len(T) : N[Len(S) + i] = T[i]
  BY JoinedSeq DEF Plain
<1>2. Len(S) \in Nat /\ Len(T) \in Nat
  BY DEF Plain, IsSeq
<1> HIDE DEF N
<1>3. ASSUME NEW i \in 1..Len(N)
      PROVE  Framed(s, c, N[i]) /\ N[i][1] \in Base \ Needy
  <2>1. CASE i \in 1..Len(S)
    BY <1>1, <2>1 DEF Plain
  <2>2. CASE i \notin 1..Len(S)
    <3>1. i - Len(S) \in 1..Len(T) /\ Len(S) + (i - Len(S)) = i
      BY <1>1, <1>2, <2>2
    <3>2. N[i] = T[i - Len(S)]
      BY <1>1, <3>1
    <3> QED
      BY <3>1, <3>2 DEF Plain
  <2> QED
    BY <2>1, <2>2
<1> QED
  BY <1>1, <1>3 DEF Plain, N

LEMMA PlainLiterals ==
    ASSUME NEW s, NEW c
    PROVE  /\ Plain(s, c, <<>>)
           /\ \A f : Framed(s, c, f) /\ f[1] \in Base \ Needy =>
                Plain(s, c, <<f>>)
           /\ \A f, g : /\ Framed(s, c, f) /\ f[1] \in Base \ Needy
                        /\ Framed(s, c, g) /\ g[1] \in Base \ Needy
                        => Plain(s, c, <<f, g>>)
<1>1. 1..0 = {} /\ 1..1 = {1} /\ 1..2 = {1, 2}
  OBVIOUS
<1>2. Plain(s, c, <<>>)
  BY <1>1, Literals DEF Plain
<1>3. ASSUME NEW f, Framed(s, c, f), f[1] \in Base \ Needy
      PROVE  Plain(s, c, <<f>>)
  BY <1>1, <1>3, Literals DEF Plain
<1>4. ASSUME NEW f, NEW g, Framed(s, c, f), f[1] \in Base \ Needy,
             Framed(s, c, g), g[1] \in Base \ Needy
      PROVE  Plain(s, c, <<f, g>>)
  <2> DEFINE S == <<f, g>>
  <2>1. IsSeq(S) /\ Len(S) = 2 /\ S[1] = f /\ S[2] = g
    BY Literals
  <2> HIDE DEF S
  <2>2. Plain(s, c, S)
    BY <1>1, <1>4, <2>1 DEF Plain
  <2> QED
    BY <2>2 DEF S
<1> QED
  BY <1>2, <1>3, <1>4

LEMMA PlainFour ==
    ASSUME NEW s, NEW c, NEW f, NEW g, NEW h, NEW k,
           Framed(s, c, f), f[1] \in Base \ Needy,
           Framed(s, c, g), g[1] \in Base \ Needy,
           Framed(s, c, h), h[1] \in Base \ Needy,
           Framed(s, c, k), k[1] \in Base \ Needy
    PROVE  /\ Plain(s, c, <<f, g, h, k>>)
           /\ Len(<<f, g, h, k>>) = 4 /\ <<f, g, h, k>>[4] = k
<1> DEFINE S == <<f, g, h, k>>
<1>1. /\ S \in Seq({f, g, h, k}) /\ Len(S) = 4
      /\ S[1] = f /\ S[2] = g /\ S[3] = h /\ S[4] = k
  OBVIOUS
<1> HIDE DEF S
<1>2. IsSeq(S)
  BY <1>1, SeqIsSeq
<1>3. 1..4 = {1, 2, 3, 4}
  OBVIOUS
<1>4. Plain(s, c, S)
  BY <1>1, <1>2, <1>3 DEF Plain
<1> QED
  BY <1>1, <1>4 DEF S

LEMMA PlainFits ==
    ASSUME NEW s, NEW s2, NEW p, NEW q, NEW S, Plain(s2, p.change, S),
           p.todo[1][1] \in Base, Len(S) > 0, S[Len(S)][1] \in Ends
    PROVE  Fits(s, s2, p, q, S)
<1>1. Base \subseteq Free /\ "userDoc" \notin Base
  BY DEF Base, Free
<1>2. Len(S) \in Nat /\ Len(S) # 0
  BY DEF Plain, IsSeq
<1>3. ASSUME NEW i \in 1..(Len(S) - 1)
      PROVE  Follows(s2, S[i], S[i + 1])
  <2>1. i \in 1..Len(S) /\ i + 1 \in 1..Len(S)
    BY <1>2
  <2> QED
    BY <1>1, <2>1, FreeFollows DEF Plain
<1>4. 1 \in 1..Len(S) /\ Len(S) \in 1..Len(S)
  BY <1>2
<1>5. Ready(s2, q, S[1])
  BY <1>4, NotNeedyReady DEF Plain
<1>6. Under(s, s2, p, S[Len(S)])
  <2>1. p.todo[1][1] \in Free /\ S[Len(S)][1] \in Free
    BY <1>1, <1>4 DEF Plain
  <2> QED
    BY <2>1, FreeUnder
<1> QED
  BY <1>1, <1>2, <1>3, <1>5, <1>6 DEF Plain, Fits, Under

LEMMA PushesPlain ==
    ASSUME Shapes, NEW w \in Workers, Top(w), Grows(db, db'),
           Op(w) \in Base, NEW q, Becomes(db', work[w], q),
           q.todo = work[w].todo, NEW S, Plain(db', Change(w), S),
           Len(S) > 0, S[Len(S)][1] \in Ends, work' = Now(w, q, S)
    PROVE  Effect(w)
<1>1. Fits(db, db', work[w], q, S)
  BY PlainFits DEF Top, Change
<1> QED
  BY <1>1, Pushes DEF Plain

LEMMA UserRoleEffect ==
    ASSUME IInv, NEW w \in Workers, UserRole(w)
    PROVE  Effect(w)
<1>1. Top(w) /\ Op(w) = "userRole" /\ Shapes
  BY TopOf DEF UserRole, IInv, Tables
<1>2. Grows(db, db')
  BY SameTables DEF UserRole, OnlyWork
<1> DEFINE c == Change(w)
           f == <<"need", CREATE, ALL, NULL>>
           g == <<"col", UserRolesCol(c.of)>>
           h == <<"col", RoleUsersCol(c.role)>>
           k == <<"roleDoc">>
           S == <<f, g, h, k>>
           q(id) == [work[w] EXCEPT !.roleId = id]
<1>3. \/ work' = Raise(w)
      \/ \E id : work' = Now(w, q(id), S)
  BY DEF UserRole
<1>4. c.kind = "role"
  BY <1>1 DEF Top, Framed
<1>5. Framed(db', c, f) /\ f[1] \in Base \ Needy
  BY DEF Framed, Base, Needy
<1>6. Framed(db', c, g) /\ g[1] \in Base \ Needy
  BY NotOfApp DEF Framed, About, UserRolesCol, Base, Needy
<1>7. Framed(db', c, h) /\ h[1] \in Base \ Needy
  BY NotOfApp DEF Framed, About, RoleUsersCol, Base, Needy
<1>8. Framed(db', c, k) /\ k[1] \in Base \ Needy /\ k[1] \in Ends
  BY <1>4 DEF Framed, Base, Needy, Ends
<1>9. Op(w) \in Fails /\ Op(w) # "colMade" /\ Op(w) \in Base
  BY <1>1 DEF Fails, Base
<1> HIDE DEF f, g, h, k
<1>10. Plain(db', c, S) /\ Len(S) > 0 /\ S[Len(S)][1] \in Ends
  BY <1>5, <1>6, <1>7, <1>8, PlainFour
<1>11. \A id : Becomes(db', work[w], q(id)) /\ q(id).todo = work[w].todo
  BY <1>1, <1>2, NewRegister
<1> HIDE DEF S, q, c
<1>12. ASSUME NEW id, work' = Now(w, q(id), S) PROVE Effect(w)
  BY <1>1, <1>2, <1>9, <1>10, <1>11, <1>12, PushesPlain DEF c
<1> QED
  BY <1>1, <1>2, <1>3, <1>9, <1>12, Raises

LEMMA RoleDocsMade ==
    ASSUME MembersOK, NEW w, NEW d \in RoleDocs(w)
    PROVE  IsRoleDoc(d) => HasDoc(db, d)
<1> DEFINE c == Change(w)
           own == {x \in members : x.user = c.of /\ x.role = work[w].roleId}
           found == {m.doc : m \in own}
           new == <<c.at, w, tries[c]>>
<1>1. d = new \/ d \in found \ {NULL}
  BY DEF RoleDocs
<1>2. ~IsRoleDoc(new)
  BY DEF IsRoleDoc, RoleDocOf
<1>3. ASSUME d \in found \ {NULL} PROVE HasDoc(db, d)
  <2>1. PICK m \in members : d = m.doc /\ m.doc # NULL
    BY <1>3
  <2> QED
    BY <2>1 DEF MembersOK
<1> QED
  BY <1>1, <1>2, <1>3

LEMMA PlainWrite ==
    ASSUME NEW s, NEW c, NEW d, NEW col, IsRoleDoc(d) => HasDoc(s, d)
    PROVE  /\ Plain(s, c, Write(d, col))
           /\ Len(Write(d, col)) = 2 /\ Write(d, col)[2] = <<"attrDone">>
<1> DEFINE f == <<"attr", d, col>>
           g == <<"attrDone">>
<1>1. Framed(s, c, f) /\ f[1] \in Base \ Needy
  BY DEF Framed, Base, Needy
<1>2. Framed(s, c, g) /\ g[1] \in Base \ Needy
  BY DEF Framed, Base, Needy
<1>3. Write(d, col) = <<f, g>>
  BY DEF Write
<1> HIDE DEF f, g
<1>4. Plain(s, c, <<f, g>>) /\ Len(<<f, g>>) = 2 /\ <<f, g>>[2] = g
  BY <1>1, <1>2, PlainLiterals, Literals
<1> QED
  BY <1>3, <1>4 DEF g

(* ... that end as those of a change do.                                   *)
EndsPlain(s, c, S) == Plain(s, c, S) /\ Len(S) > 0 /\ S[Len(S)][1] \in Ends

LEMMA PlainEnds ==
    ASSUME NEW s, NEW c, NEW S, NEW T, Plain(s, c, S), EndsPlain(s, c, T)
    PROVE  EndsPlain(s, c, S \o T)
<1>1. /\ IsSeq(S) /\ IsSeq(T) /\ Len(S) \in Nat /\ Len(T) \in Nat
      /\ Len(T) > 0 /\ T[Len(T)][1] \in Ends
  BY DEF EndsPlain, Plain, IsSeq
<1>2. Plain(s, c, S \o T)
  BY PlainJoined DEF EndsPlain
<1>3. /\ Len(S \o T) = Len(S) + Len(T)
      /\ \A i \in 1..Len(T) : (S \o T)[Len(S) + i] = T[i]
  BY <1>1, JoinedSeq
<1>4. \A a, b \in Nat : b > 0 => b \in 1..b /\ a + b > 0
  OBVIOUS
<1>5. (S \o T)[Len(S) + Len(T)] = T[Len(T)] /\ Len(S \o T) > 0
  BY <1>1, <1>3, <1>4
<1> QED
  BY <1>1, <1>2, <1>3, <1>5 DEF EndsPlain

LEMMA WriteEnds ==
    ASSUME NEW s, NEW c, NEW d, NEW col, IsRoleDoc(d) => HasDoc(s, d)
    PROVE  EndsPlain(s, c, Write(d, col))
<1> DEFINE W == Write(d, col)
<1>1. Plain(s, c, W) /\ Len(W) = 2 /\ W[2] = <<"attrDone">>
  BY PlainWrite
<1> HIDE DEF W
<1>2. W[Len(W)][1] \in Ends /\ Len(W) > 0
  BY <1>1 DEF Ends
<1> QED
  BY <1>1, <1>2 DEF EndsPlain, W

LEMMA FindRoleDocEffect ==
    ASSUME IInv, NEW w \in Workers, FindRoleDoc(w)
    PROVE  Effect(w)
<1>1. Top(w) /\ Op(w) = "roleDoc" /\ Shapes /\ MembersOK
  BY TopOf DEF FindRoleDoc, IInv, Tables
<1>2. db' = db /\ Grows(db, db')
  BY SameTables DEF FindRoleDoc, OnlyWork
<1> DEFINE c == Change(w)
           ur == UserRolesCol(c.of)
           ru == RoleUsersCol(c.role)
           needs == <<<<"need", DESTROY, ur, NULL>>,
                      <<"need", DESTROY, ru, NULL>>>>
           destroys == IF c.add THEN <<>> ELSE needs
           first(d) == <<<<"need", CREATE, ur, d>>,
                         <<"need", CREATE, ru, RoleDoc(d)>>,
                         <<"doc", d, ur, c.of>>,
                         <<"doc", RoleDoc(d), ru, c.of>>>>
           last(d) == <<<<"doc", d, ur, c.by>>, <<"fork", d>>>>
           S(d) == (first(d) \o destroys) \o last(d)
<1>3. \/ work' = Raise(w)
      \/ \E d \in RoleDocs(w) : work' = Now(w, work[w], S(d))
  BY DEF FindRoleDoc, Push
<1>4. Op(w) \in Fails /\ Op(w) # "colMade" /\ Op(w) \in Base
  BY <1>1 DEF Fails, Base
<1>5. ASSUME NEW d \in RoleDocs(w)
      PROVE  Plain(db', c, S(d)) /\ Len(S(d)) > 0
             /\ S(d)[Len(S(d))][1] \in Ends
  <2> DEFINE f == <<"need", CREATE, ur, d>>
             g == <<"need", CREATE, ru, RoleDoc(d)>>
             h == <<"doc", d, ur, c.of>>
             k == <<"doc", RoleDoc(d), ru, c.of>>
             x == <<"need", DESTROY, ur, NULL>>
             y == <<"need", DESTROY, ru, NULL>>
             v == <<"doc", d, ur, c.by>>
             z == <<"fork", d>>
  <2>1. Framed(db', c, f) /\ f[1] \in Base \ Needy
    BY DEF Framed, Base, Needy
  <2>2. Framed(db', c, g) /\ g[1] \in Base \ Needy
    BY DEF Framed, Base, Needy
  <2>3. Framed(db', c, h) /\ h[1] \in Base \ Needy
    BY <1>1, <1>2, RoleDocsMade DEF Framed, Base, Needy
  <2>4. Framed(db', c, k) /\ k[1] \in Base \ Needy
    <3>1. ~IsRoleDoc(RoleDoc(d))
      BY DEF IsRoleDoc, RoleDocOf, RoleDoc
    <3> QED
      BY <3>1 DEF Framed, Base, Needy
  <2>5. Framed(db', c, x) /\ x[1] \in Base \ Needy
    BY DEF Framed, Base, Needy
  <2>6. Framed(db', c, y) /\ y[1] \in Base \ Needy
    BY DEF Framed, Base, Needy
  <2>v. Framed(db', c, v) /\ v[1] \in Base \ Needy
    BY <1>1, <1>2, RoleDocsMade DEF Framed, Base, Needy
  <2>z. Framed(db', c, z) /\ z[1] \in Base \ Needy /\ z[1] \in Ends
    BY <1>1, <1>2, RoleDocsMade DEF Top, Framed, Base, Needy, Ends
  <2>7. /\ first(d) = <<f, g, h, k>> /\ needs = <<x, y>>
        /\ last(d) = <<v, z>>
    OBVIOUS
  <2> HIDE DEF f, g, h, k, x, y, v, z, ur, ru, c
  <2>8. Plain(db', c, <<f, g, h, k>>) /\ Plain(db', c, <<x, y>>)
        /\ Plain(db', c, <<>>)
    BY <2>1, <2>2, <2>3, <2>4, <2>5, <2>6, PlainFour, PlainLiterals
  <2>l. EndsPlain(db', c, <<v, z>>)
    <3>1. Plain(db', c, <<v, z>>)
      BY <2>v, <2>z, PlainLiterals
    <3>2. Len(<<v, z>>) = 2 /\ <<v, z>>[2] = z
      BY Literals
    <3> DEFINE L == <<v, z>>
    <3> HIDE DEF L
    <3>3. Len(L) > 0 /\ L[Len(L)][1] \in Ends
      BY <2>z, <3>2 DEF L
    <3> QED
      BY <3>1, <3>3 DEF EndsPlain, L
  <2> HIDE DEF first, needs, last
  <2>9. Plain(db', c, first(d)) /\ Plain(db', c, destroys)
    BY <2>7, <2>8
  <2> HIDE DEF destroys
  <2>10. Plain(db', c, first(d) \o destroys) /\ EndsPlain(db', c, last(d))
    BY <2>7, <2>9, <2>l, PlainJoined
  <2> QED
    BY <2>10, PlainEnds DEF EndsPlain
<1>6. Becomes(db', work[w], work[w])
  BY <1>1, <1>2, Unchanged DEF Top
<1> HIDE DEF S, c
<1>7. ASSUME NEW d \in RoleDocs(w), work' = Now(w, work[w], S(d))
      PROVE  Effect(w)
  BY <1>1, <1>2, <1>4, <1>5, <1>6, <1>7, PushesPlain DEF c
<1> QED
  BY <1>1, <1>2, <1>3, <1>4, <1>7, Raises

LEMMA KnowsDoc ==
    ASSUME Shapes, NEW w \in Workers, Top(w), Grows(db, db'),
           Op(w) \in Free \ Ends, NEW d, work' = DocKnown(w, d)
    PROVE  Effect(w)
<1> DEFINE q == [work[w] EXCEPT !.docs = work[w].docs \cup {d}]
<1>1. work' = Now(w, q, <<>>)
  BY DEF DocKnown
<1>2. Becomes(db', work[w], q) /\ q.todo = work[w].todo
  BY NewRegister
<1> HIDE DEF q
<1> QED
  BY <1>1, <1>2, Sets

LEMMA GetDocEffect ==
    ASSUME IInv, NEW w \in Workers, GetDoc(w)
    PROVE  Effect(w)
<1>1. Top(w) /\ Op(w) = "doc" /\ Shapes
  BY TopOf DEF GetDoc, IInv, Tables
<1>2. db' = db /\ Grows(db, db')
  BY SameTables DEF GetDoc, OnlyWork
<1> DEFINE d == Arg(w, 1)
           col == Arg(w, 2)
           a == <<"createDoc", d, col, Arg(w, 3)>>
<1>3. \/ work' = Return(w)
      \/ /\ col \in work[w].cols
         /\ work' = DocKnown(w, d) \/ work' = Push(w, <<a>>)
  BY DEF GetDoc
<1>4. Op(w) \in Free \ Ends
  BY <1>1 DEF Free, Ends
<1>6. ASSUME col \in work[w].cols
      PROVE  Placed(db, db', work[w], a) /\ a[1] \in Free \ Needy
  <2>1. /\ IsRoleDoc(d) => HasDoc(db', d)
        /\ col \in db'.cols
    BY <1>1, <1>2, <1>6 DEF Top, Framed, Learnt
  <2> QED
    BY <1>1, <1>6, <2>1 DEF Top, Placed, Framed, Base, Free, Needy
<1> HIDE DEF a, d, col
<1> QED
  BY <1>1, <1>2, <1>3, <1>4, <1>6, Returns, KnowsDoc, PushesOne

(* A document is made, unless it is there; never that of an implicit role. *)
LEMMA CreateDocEffect ==
    ASSUME IInv, NEW w \in Workers, CreateDoc(w)
    PROVE  /\ Effect(w)
           /\ \A u \in UUIDs : HasDoc(db', RoleDocOf(u)) =>
                HasDoc(db, RoleDocOf(u))
<1>1. Top(w) /\ Op(w) = "createDoc" /\ Shapes
  BY TopOf DEF CreateDoc, IInv, Tables
<1> DEFINE d == Arg(w, 1)
           row == [id |-> d, col |-> Arg(w, 2), owner |-> Arg(w, 3),
                   updated |-> Change(w).at]
<1>2. /\ UNCHANGED <<users, roles, cols>>
      /\ \/ work' = Return(w) /\ docs' = docs
         \/ work' = DocKnown(w, d) /\ docs' = docs
         \/ /\ work' = DocKnown(w, d) /\ docs' = docs \cup {row}
            /\ ~HasDoc(db, d)
  BY DEF CreateDoc, HasDoc, db
<1>3. Grows(db, db')
  BY <1>2 DEF Grows, db, HasDoc
<1>4. Op(w) \in Free \ Ends
  BY <1>1 DEF Free, Ends
<1>5. IsRoleDoc(d) => HasDoc(db, d)
  BY <1>1 DEF Top, Framed
<1>6. ASSUME NEW u \in UUIDs, HasDoc(db', RoleDocOf(u))
      PROVE  HasDoc(db, RoleDocOf(u))
  BY <1>2, <1>5, <1>6 DEF HasDoc, db, IsRoleDoc
<1> HIDE DEF d
<1>7. Effect(w)
  BY <1>1, <1>2, <1>3, <1>4, Returns, KnowsDoc
<1> QED
  BY <1>6, <1>7

LEMMA CreateAttrEffect ==
    ASSUME IInv, NEW w \in Workers, CreateAttr(w)
    PROVE  Effect(w)
<1>1. Top(w) /\ Op(w) = "attr" /\ Shapes
  BY TopOf DEF CreateAttr, IInv, Tables
<1>2. db' = db /\ Grows(db, db')
  BY SameTables DEF CreateAttr
<1> DEFINE d == Arg(w, 1)
           col == Arg(w, 2)
           a == <<"record", d, col>>
<1>3. \/ work' = Return(w) \/ work' = Raise(w)
      \/ col \in work[w].cols /\ d \in work[w].docs /\ work' = Push(w, <<a>>)
  BY DEF CreateAttr
<1>4. /\ Op(w) \in Free \ Ends /\ Op(w) \in Fails /\ Op(w) # "colMade"
  BY <1>1 DEF Free, Ends, Fails, Base
<1>5. ASSUME col \in work[w].cols, d \in work[w].docs
      PROVE  Placed(db, db', work[w], a) /\ a[1] \in Free \ Needy
  <2>1. col \in db'.cols /\ (IsRoleDoc(d) => HasDoc(db', d))
    BY <1>1, <1>2, <1>5 DEF Top, Learnt, Framed
  <2> QED
    BY <1>1, <2>1 DEF Top, Placed, Framed, Base, Free, Needy
<1> HIDE DEF a, d, col
<1> QED
  BY <1>1, <1>2, <1>3, <1>4, <1>5, Returns, Raises, PushesOne

(* A document that is updated remains the document that it was.            *)
LEMMA RecordDocs ==
    ASSUME DocsOK, NEW w, Record(w)
    PROVE  /\ \A d : HasDoc(db', d) <=> HasDoc(db, d)
           /\ DocsOK'
<1> DEFINE at == Change(w).at
           d == Arg(w, 1)
           new(x) == IF x.id = d /\ x.updated < at
                     THEN [x EXCEPT !.updated = at] ELSE x
<1>1. docs' = {new(x) : x \in docs} /\ cols' = cols
  BY DEF Record
<1>2. ASSUME NEW x \in docs
      PROVE  new(x).id = x.id /\ new(x).col = x.col /\ IsDoc(new(x))
  <2>1. x = [id |-> x.id, col |-> x.col, owner |-> x.owner,
             updated |-> x.updated]
    BY DEF DocsOK, IsDoc
  <2>2. [x EXCEPT !.updated = at] =
          [id |-> x.id, col |-> x.col, owner |-> x.owner, updated |-> at]
    BY <2>1
  <2>3. CASE new(x) = x
    BY <2>1, <2>3 DEF IsDoc
  <2>4. CASE new(x) = [x EXCEPT !.updated = at]
    BY <2>2, <2>4 DEF IsDoc
  <2> QED
    BY <2>3, <2>4
<1> HIDE DEF new
<1>3. \A y \in docs' : \E x \in docs : y = new(x)
  BY <1>1
<1>4. \A x \in docs : new(x) \in docs'
  BY <1>1
<1>5. ASSUME NEW e PROVE HasDoc(db', e) <=> HasDoc(db, e)
  BY <1>2, <1>3, <1>4 DEF HasDoc, db
<1>6. DocsOK'
  BY <1>1, <1>2, <1>3 DEF DocsOK
<1> QED
  BY <1>5, <1>6

LEMMA OptionsFit ==
    ASSUME NEW s, NEW s2, NEW p, NEW q, NEW c, c = p.change,
           c \in Everything, IsChange(c),
           p.todo[1][1] = "record", NEW d, NEW col, col \in s2.cols,
           d = RoleDocOf(c.of) => Made(s2, c.of)
    PROVE  IsSeq(Options(c, d, col)) /\ Fits(s, s2, p, q, Options(c, d, col))
<1>0. /\ p.todo[1][1] \in Free \ Ends /\ p.todo[1][1] \in Free
      /\ p.todo[1][1] \in Base /\ p.todo[1][1] \notin Ends
      /\ c.of \in UUIDs
  BY DEF Free, Ends, Base, UUIDs
<1> DEFINE a == <<"getRole", c.role, c.by, c.by>>
           b == <<"addMember", c.of, d>>
           e == <<"removeMember", c.of, c.role>>
           f == <<"insertUser", c.of, c.at>>
           g == <<"setPolicy", col>>
<1>1. Placed(s, s2, p, a) /\ Ready(s2, q, a)
  BY DEF Placed, Framed, Base, Ready
<1>2. CASE /\ c.kind = "role" /\ c.add
           /\ Options(c, d, col) = <<a, b>>
  <2>1. Placed(s, s2, p, b) /\ b[1] \in Free
    <3>1. c.of # Nobody
      BY <1>2 DEF IsChange
    <3> QED
      BY <1>0, <1>2, <3>1 DEF Placed, Framed, Base, Free
  <2>2. c.role \notin Reserve
    BY <1>2 DEF IsChange, Reserve
  <2>3. Follows(s2, a, b) /\ a[1] \notin Base
    BY <2>2 DEF Follows, Givers, Given, Base
  <2> HIDE DEF a, b
  <2>4. Under(s, s2, p, b)
    BY <1>0, <2>1, FreeUnder
  <2>5. Fits(s, s2, p, q, <<a, b>>) /\ IsSeq(<<a, b>>)
    BY <1>0, <1>1, <2>1, <2>3, <2>4, FitsTwo, Literals
  <2> QED
    BY <1>2, <2>5
<1>3. CASE c.kind = "policy" /\ Options(c, d, col) = <<a, g>>
  <2>1. Placed(s, s2, p, g) /\ g[1] \in Free
    BY <1>0, <1>3 DEF Placed, Framed, Base, Free
  <2>2. Follows(s2, a, g) /\ a[1] \notin Base
    BY DEF Follows, Givers, Base
  <2> HIDE DEF a, g
  <2>3. Under(s, s2, p, g)
    BY <1>0, <2>1, FreeUnder
  <2>4. Fits(s, s2, p, q, <<a, g>>) /\ IsSeq(<<a, g>>)
    BY <1>0, <1>1, <2>1, <2>2, <2>3, FitsTwo, Literals
  <2> QED
    BY <1>3, <2>4
<1>4. CASE /\ c.kind = "role" /\ ~c.add
           /\ Options(c, d, col) = <<e>>
  <2>1. Placed(s, s2, p, e) /\ e[1] \in Free \ Needy
    BY <1>0, <1>4 DEF Placed, Framed, Base, Free, Needy
  <2> HIDE DEF e
  <2>2. Fits(s, s2, p, q, <<e>>) /\ IsSeq(<<e>>)
    BY <1>0, <2>1, FreeFits, Literals
  <2> QED
    BY <1>4, <2>2
<1>5. CASE Options(c, d, col) = <<f>>
  <2>1. c.at \in Nat
    BY DEF IsChange
  <2>2. Placed(s, s2, p, f) /\ f[1] \in Free \ Needy
    BY <1>0, <2>1 DEF Placed, Framed, Base, Free, Needy
  <2> HIDE DEF f
  <2>3. Fits(s, s2, p, q, <<f>>) /\ IsSeq(<<f>>)
    BY <1>0, <2>2, FreeFits, Literals
  <2> QED
    BY <1>5, <2>3
<1>6. CASE Options(c, d, col) = <<>>
  BY <1>0, <1>6, FreeFits, Literals
<1>7. \/ /\ c.kind = "role" /\ c.add
         /\ Options(c, d, col) = <<a, b>>
      \/ c.kind = "policy" /\ Options(c, d, col) = <<a, g>>
      \/ /\ c.kind = "role" /\ ~c.add
         /\ Options(c, d, col) = <<e>>
      \/ Options(c, d, col) = <<f>>
      \/ Options(c, d, col) = <<>>
  BY DEF Options
<1> QED
  BY <1>2, <1>3, <1>4, <1>5, <1>6, <1>7

LEMMA RecordEffect ==
    ASSUME IInv, NEW w \in Workers, Record(w)
    PROVE  Effect(w)
<1>1. Top(w) /\ Op(w) = "record" /\ Shapes /\ DocsOK
  BY TopOf DEF Record, IInv, Tables
<1>2. UNCHANGED <<users, roles, cols>>
  BY DEF Record
<1>3. Grows(db, db')
  <2>1. \A d : HasDoc(db', d) <=> HasDoc(db, d)
    BY <1>1, RecordDocs
  <2>2. /\ db'.users = db.users /\ db'.cols = db.cols
        /\ db'.roles = db.roles
    BY <1>2 DEF db
  <2> QED
    BY <2>1, <2>2 DEF Grows
<1> DEFINE c == Change(w)
           d == Arg(w, 1)
           col == Arg(w, 2)
           S == Options(c, d, col)
<1>4. work' = Return(w) \/ work' = Now(w, work[w], S)
  BY DEF Record, Return, Push
<1>5. Op(w) \in Free \ Ends
  BY <1>1 DEF Free, Ends
<1>6. /\ c = work[w].change /\ c \in Everything /\ IsChange(c)
      /\ work[w].todo[1][1] = "record"
      /\ col \in db'.cols
  BY <1>1, <1>3 DEF Top, Change, Framed, Grows
<1>m. d = RoleDocOf(c.of) => Made(db', c.of)
  <2>1. c.of \in UUIDs /\ (IsRoleDoc(d) => HasDoc(db, d))
    BY <1>1, <1>6 DEF Top, Framed, UUIDs
  <2>2. d = RoleDocOf(c.of) => Made(db, c.of)
    BY <2>1 DEF IsRoleDoc, IInv, NotMade, Made, db
  <2> QED
    BY <1>3, <2>2 DEF Made, Grows
<1>7. IsSeq(S) /\ Fits(db, db', work[w], work[w], S)
  <2> HIDE DEF c, d, col
  <2> QED
    BY <1>6, <1>m, OptionsFit
<1>8. Becomes(db', work[w], work[w])
  BY <1>1, <1>3, Unchanged DEF Top
<1> HIDE DEF S
<1> QED
  BY <1>1, <1>3, <1>4, <1>5, <1>7, <1>8, Returns, Pushes

LEMMA SetPolicyEffect ==
    ASSUME IInv, NEW w \in Workers, SetPolicy(w)
    PROVE  Effect(w)
<1>1. Top(w) /\ Op(w) = "setPolicy" /\ Shapes
  BY TopOf DEF SetPolicy, IInv, Tables
<1>2. Grows(db, db')
  BY DEF SetPolicy, Grows, db
<1>3. Op(w) \in Free \ Ends /\ work' = Return(w)
  BY <1>1 DEF SetPolicy, Free, Ends
<1> QED
  BY <1>1, <1>2, <1>3, Returns

(* What comes after a statement of the change itself is of it, too.        *)
LEMMA AttrDoneEffect ==
    ASSUME IInv, NEW w \in Workers, AttrDone(w)
    PROVE  Effect(w)
<1>1. Top(w) /\ Op(w) = "attrDone" /\ Shapes
  BY TopOf DEF AttrDone, IInv, Tables
<1>2. db' = db /\ Grows(db, db')
  BY SameTables DEF AttrDone
<1>3. work' = [work EXCEPT ![w] = Idle] /\ work'[w] = Idle
  BY <1>1 DEF AttrDone, Shapes
<1> DEFINE p == work[w]
           k == Len(p.todo)
           r == Change(w) \in log'.refused
<1>4. Idle.todo = <<>> /\ Good(db', Idle)
  BY DEF Idle, Good
<1>5. k \in Nat /\ k # 0 /\ p.todo[1][1] \in Base
  BY <1>1, SeqOfItems DEF Top, IsSeq, Base
<1>6. \A i, j \in 1..k : i < j /\ p.todo[i][1] \in Base
        => p.todo[j][1] \in Base
  BY <1>1 DEF Top, Good, Ordered
<1> HIDE DEF p, r
<1>7. /\ k \in 1..k /\ 1 \in 1..k /\ ~(k < k)
      /\ \A i \in 2..k : i \in 1..k /\ 1 < i
      /\ 1..0 = {} /\ k - k = 0 /\ 0 + 0 = 0
  BY <1>5
<1>8. Rest(<<>>, p.todo, 0, k)
  BY <1>7, Literals DEF Rest
<1>9. MovesBy(db, db', p, Idle, r, 0, k)
  BY <1>4, <1>5, <1>6, <1>7, <1>8 DEF MovesBy
<1>10. Moves(db, db', p, Idle, r)
  BY <1>4, <1>7, <1>9, Literals DEF Moves
<1> QED
  BY <1>2, <1>3, <1>4, <1>10 DEF Effect, r, p

-----------------------------------------------------------------------------
(* The tables.                                                             *)
LEMMA TablesGrow ==
    ASSUME Tables, Grows(db, db'), Shapes', RolesOK',
           members' = members \/ MembersOK',
           colRoles' = colRoles \/ PoliciesOK', docs' = docs \/ DocsOK'
    PROVE  Tables'
<1>1. /\ DOMAIN roles = 1..Len(roles) /\ DOMAIN roles' = 1..Len(roles')
      /\ db.roles = roles /\ db'.roles = roles' /\ db.users = users
      /\ db'.users = users' /\ db.cols = cols /\ db'.cols = cols'
  BY SeqOfItems DEF Tables, Shapes, db
<1>2. DOMAIN roles \subseteq DOMAIN roles' /\ cols \subseteq cols'
  BY <1>1 DEF Grows
<1>3. MembersOK'
  <2>1. CASE members' = members
    <3>1. \A m \in members : m.role \in DOMAIN roles' /\ Made(db', m.user)
                             /\ (m.doc # NULL => HasDoc(db', m.doc))
      BY <1>2 DEF Grows, Tables, MembersOK, Made
    <3> QED
      BY <2>1, <3>1 DEF Tables, MembersOK
  <2> QED
    BY <2>1
<1>4. PoliciesOK'
  <2>1. CASE colRoles' = colRoles
    <3>1. \A r : RoleKnown(db, r) => RoleKnown(db', r)
      BY <1>1, <1>2 DEF RoleKnown
    <3> QED
      BY <2>1, <3>1, <1>2 DEF Tables, PoliciesOK
  <2> QED
    BY <2>1
<1>5. DocsOK'
  <2>1. CASE docs' = docs
    BY <1>2, <2>1 DEF Tables, DocsOK
  <2> QED
    BY <2>1
<1>6. ColsOK'
  BY <1>2 DEF Tables, ColsOK
<1> QED
  BY <1>3, <1>4, <1>5, <1>6 DEF Tables

LEMMA LogShape ==
    ASSUME Shapes,
           \/ log' = log
           \/ \E x : \/ log' = [log EXCEPT !.recorded = x]
                     \/ log' = [log EXCEPT !.dropped = x]
                     \/ log' = [log EXCEPT !.refused = x]
                     \/ log' = [log EXCEPT !.early = x]
                     \/ log' = [log EXCEPT !.crashed = TRUE, !.lost = x]
    PROVE  log' = [recorded |-> log'.recorded, dropped |-> log'.dropped,
                   refused |-> log'.refused, lost |-> log'.lost,
                   early |-> log'.early, crashed |-> log'.crashed]
<1>1. log = [recorded |-> log.recorded, dropped |-> log.dropped,
             refused |-> log.refused, lost |-> log.lost,
             early |-> log.early, crashed |-> log.crashed]
  BY DEF Shapes
<1> QED
  BY <1>1

LEMMA WorkShape ==
    ASSUME Shapes, NEW w \in Workers, NEW x, work' = [work EXCEPT ![w] = x]
    PROVE  /\ work' = [v \in Workers |-> work'[v]] /\ work'[w] = x
           /\ \A v \in Workers : v # w => work'[v] = work[v]
BY DEF Shapes

LEMMA AddMemberTables ==
    ASSUME IInv, NEW w \in Workers, AddMember(w)
    PROVE  MembersOK'
<1>1. Top(w) /\ Op(w) = "addMember" /\ Shapes /\ MembersOK
  BY TopOf DEF AddMember, IInv, Tables
<1> DEFINE user == Arg(w, 1)
           doc == IF \E d \in docs : d.id = Arg(w, 2) THEN Arg(w, 2) ELSE NULL
           row == [user |-> user, role |-> work[w].role, doc |-> doc]
<1>2. /\ \/ members' = members
         \/ /\ members' = members \cup {row}
            /\ ~\E m \in members : m.user = user /\ m.role = work[w].role
      /\ db' = db /\ roles' = roles
  BY DEF AddMember, db
<1>m. Made(db, user)
  <2>1. IF Arg(w, 2) = RoleDocOf(user) THEN Made(db, user)
        ELSE user # Nobody
    BY <1>1 DEF Top, Framed
  <2>2. Arg(w, 2) = RoleDocOf(user) \/ Known(w, user)
    BY <1>1 DEF AddMember, MissingId
  <2>3. user \in work[w].users => Made(db, user)
    BY <1>1 DEF Top, Learnt
  <2> QED
    BY <2>1, <2>2, <2>3 DEF Known
<1>3. Made(db, user) /\ work[w].role \in DOMAIN roles
  BY <1>1, <1>m, SeqOfItems DEF Top, Ready, Shapes, db
<1>4. doc # NULL => HasDoc(db, doc)
  BY DEF HasDoc, db
<1>5. row.user = user /\ row.role = work[w].role /\ row.doc = doc
  OBVIOUS
<1> HIDE DEF row, doc, user
<1> QED
  BY <1>1, <1>2, <1>3, <1>4, <1>5 DEF MembersOK

LEMMA RemoveMemberTables ==
    ASSUME IInv, NEW w \in Workers, RemoveMember(w)
    PROVE  MembersOK'
<1>1. members' \subseteq members /\ db' = db /\ roles' = roles
  BY DEF RemoveMember, db
<1> QED
  BY <1>1 DEF MembersOK, IInv, Tables

LEMMA ReplaceRowsTables ==
    ASSUME IInv, NEW w \in Workers, ReplaceRows(w)
    PROVE  PoliciesOK'
<1>1. Top(w) /\ Op(w) = "replaceRows" /\ PoliciesOK
  BY TopOf DEF ReplaceRows, IInv, Tables
<1> DEFINE rows == DefaultRows(Arg(w, 1), work[w].role)
<1>2. colRoles' \subseteq colRoles \cup rows /\ db' = db /\ cols' = cols
  BY DEF ReplaceRows, db
<1>3. Arg(w, 1) \in cols /\ RoleKnown(db, work[w].role)
  BY <1>1 DEF Top, Framed, ColKnown, Ready, db
<1>4. \A r \in rows : r.col = Arg(w, 1) /\ r.role = work[w].role
  BY DEF DefaultRows
<1> HIDE DEF rows
<1> QED
  BY <1>1, <1>2, <1>3, <1>4 DEF PoliciesOK

LEMMA SetPolicyTables ==
    ASSUME IInv, NEW w \in Workers, SetPolicy(w)
    PROVE  PoliciesOK'
<1>1. Top(w) /\ Op(w) = "setPolicy" /\ PoliciesOK
  BY TopOf DEF SetPolicy, IInv, Tables
<1> DEFINE c == Change(w)
           col == Arg(w, 1)
           id(uuid) == IF uuid = c.role THEN work[w].role ELSE uuid
           rows == {[col |-> col, name |-> NULL, role |-> id(p[2]),
                     action |-> p[1]] : p \in c.rule}
<1>2. colRoles' \subseteq colRoles \cup rows /\ db' = db /\ cols' = cols
  BY DEF SetPolicy, db
<1>3. /\ col \in cols /\ RoleKnown(db, work[w].role)
      /\ c.kind = "policy" /\ IsChange(c)
  BY <1>1 DEF Top, Framed, Ready, db
<1>4. ASSUME NEW r \in rows
      PROVE  r.col = col /\ (r.role = SUPER \/ RoleKnown(db, r.role))
  <2>1. PICK p \in c.rule : r = [col |-> col, name |-> NULL,
                                 role |-> id(p[2]), action |-> p[1]]
    OBVIOUS
  <2>2. p[2] \in {c.role, SUPER, OWNER, EVERYONE}
    BY <1>3 DEF IsChange
  <2>3. r.col = col /\ r.role = id(p[2])
    BY <2>1
  <2> QED
    BY <1>3, <2>2, <2>3 DEF RoleKnown, Reserve
<1> HIDE DEF rows, col
<1> QED
  BY <1>1, <1>2, <1>3, <1>4 DEF PoliciesOK

LEMMA UserDocTables ==
    ASSUME IInv, NEW w \in Workers, UserDoc(w)
    PROVE  DocsOK'
<1>1. Top(w) /\ Op(w) = "userDoc" /\ Shapes /\ DocsOK /\ MadeOnce
  BY TopOf DEF UserDoc, IInv, Tables
<1> DEFINE u == Arg(w, 1)
           row == [id |-> RoleDocOf(u), col |-> UserRolesCol(u),
                   owner |-> u, updated |-> Change(w).at]
<1>2. docs' = IF work[w].got THEN docs \cup {row} ELSE docs
  BY DEF UserDoc
<1>3. cols' = cols
  BY DEF UserDoc
<1>4. work[w].got => UserRolesCol(u) \in cols
  BY <1>1 DEF Top, Ready, db
<1>5. ~HasDoc(db, RoleDocOf(u))
  <2>1. u \in UUIDs
    BY <1>1 DEF Top, Framed
  <2>2. 1 \in 1..Len(work[w].todo)
    BY <1>1, SeqOfItems DEF Top, IsSeq
  <2>3. Makes(work[w].todo, 1, u)
    BY <1>1, <2>2 DEF Top, Makes
  <2> QED
    BY <1>1, <2>1, <2>2, <2>3 DEF MadeOnce
<1>6. row.id = RoleDocOf(u) /\ row.col = UserRolesCol(u) /\ IsDoc(row)
  BY DEF IsDoc
<1>7. \A d \in docs : d.id # RoleDocOf(u)
  BY <1>5 DEF HasDoc, db
<1> HIDE DEF row, u
<1> QED
  BY <1>1, <1>2, <1>3, <1>4, <1>6, <1>7 DEF DocsOK

LEMMA CreateDocTables ==
    ASSUME IInv, NEW w \in Workers, CreateDoc(w)
    PROVE  DocsOK'
<1>1. Top(w) /\ Op(w) = "createDoc" /\ Shapes /\ DocsOK
  BY TopOf DEF CreateDoc, IInv, Tables
<1> DEFINE d == Arg(w, 1)
           row == [id |-> d, col |-> Arg(w, 2), owner |-> Arg(w, 3),
                   updated |-> Change(w).at]
<1>2. \/ docs' = docs
      \/ docs' = docs \cup {row} /\ \A x \in docs : x.id # d
  BY DEF CreateDoc
<1>3. cols' = cols /\ Arg(w, 2) \in cols
  BY <1>1 DEF CreateDoc, Top, Framed, db
<1>4. row.id = d /\ row.col = Arg(w, 2) /\ IsDoc(row)
  BY DEF IsDoc
<1> HIDE DEF row, d
<1> QED
  BY <1>1, <1>2, <1>3, <1>4 DEF DocsOK

-----------------------------------------------------------------------------
(* Every step of a process.                                                *)
LogShapeOf == [recorded |-> log.recorded, dropped |-> log.dropped,
               refused |-> log.refused, lost |-> log.lost,
               early |-> log.early, crashed |-> log.crashed]

LEMMA ShapesNext ==
    ASSUME Shapes, NEW w \in Workers, Effect(w),
           \/ users' = users
           \/ users' \in [UUIDs -> [made : Nat, profile : Nat] \cup {NULL}],
           roles' = roles \/ IsSeq(roles'), log' = LogShapeOf'
    PROVE  Shapes'
<1>1. work' = [v \in Workers |-> work'[v]]
  BY WorkShape DEF Effect
<1> QED
  BY <1>1 DEF Shapes, LogShapeOf

(* Who makes the documents of implicit roles.                              *)
DocsMade(w) ==
    \A u \in UUIDs : HasDoc(db', RoleDocOf(u)) =>
       HasDoc(db, RoleDocOf(u)) \/ (Op(w) = "userDoc" /\ Arg(w, 1) = u)
Sends == /\ batches' = batches /\ tries' = tries /\ queue' \subseteq queue
Kept(w) == Effect(w) /\ Tables' /\ DocsMade(w) /\ Sends

LEMMA KeptTables ==
    ASSUME IInv, NEW w \in Workers, Effect(w), UNCHANGED tables, Sends,
           log' = LogShapeOf'
    PROVE  Kept(w)
<1>1. Tables /\ Shapes
  BY DEF IInv, Tables
<1>2. Shapes'
  BY <1>1, ShapesNext DEF tables
<1>3. Grows(db, db') /\ db' = db
  BY SameTables
<1>4. RolesOK' /\ members' = members /\ colRoles' = colRoles /\ docs' = docs
  BY <1>1 DEF tables, Tables, RolesOK
<1>5. Tables'
  BY <1>1, <1>2, <1>3, <1>4, TablesGrow
<1> QED
  BY <1>3, <1>5 DEF Kept, DocsMade

LEMMA KeptQuiet ==
    ASSUME IInv, NEW w \in Workers, Effect(w), OnlyWork
    PROVE  Kept(w)
<1>1. Shapes
  BY DEF IInv, Tables
<1>2. log' = LogShapeOf'
  BY <1>1, LogShape DEF OnlyWork, LogShapeOf
<1>3. UNCHANGED tables /\ Sends
  BY DEF OnlyWork, Sends
<1> QED
  BY <1>2, <1>3, KeptTables

LEMMA QuietKept ==
    ASSUME IInv, NEW w \in Workers,
           \/ FindUser(w) \/ MayCreateUser(w) \/ GetUser(w) \/ UserMade(w)
           \/ Col(w) \/ CreateCol(w) \/ KnowCol(w) \/ GetCol(w)
           \/ ColMade(w) \/ CreatePolicyIfMissing(w) \/ SelectRows(w)
           \/ GetRole(w) \/ RoleMade(w) \/ UserRole(w) \/ Need(w)
           \/ FindRoleDoc(w) \/ GetDoc(w)
    PROVE  Kept(w)
<1>1. CASE \/ FindUser(w) \/ MayCreateUser(w) \/ GetUser(w) \/ UserMade(w)
           \/ Col(w) \/ CreateCol(w)
  <2>1. Effect(w)
    BY <1>1, FindUserEffect, MayCreateUserEffect, GetUserEffect,
       UserMadeEffect, ColEffect, CreateColEffect
  <2>2. OnlyWork
    BY <1>1 DEF FindUser, MayCreateUser, GetUser, UserMade, Col, CreateCol
  <2> QED
    BY <2>1, <2>2, KeptQuiet
<1>2. CASE \/ KnowCol(w) \/ GetCol(w) \/ ColMade(w)
           \/ CreatePolicyIfMissing(w) \/ SelectRows(w) \/ GetRole(w)
  <2>1. Effect(w)
    BY <1>2, KnowColEffect, GetColEffect, ColMadeEffect,
       CreatePolicyIfMissingEffect, SelectRowsEffect, GetRoleEffect
  <2>2. OnlyWork
    BY <1>2 DEF KnowCol, GetCol, ColMade, CreatePolicyIfMissing, SelectRows,
                GetRole
  <2> QED
    BY <2>1, <2>2, KeptQuiet
<1>3. CASE \/ RoleMade(w) \/ UserRole(w) \/ Need(w) \/ FindRoleDoc(w)
           \/ GetDoc(w)
  <2>1. Effect(w)
    BY <1>3, RoleMadeEffect, UserRoleEffect, NeedEffect, FindRoleDocEffect,
       GetDocEffect
  <2>2. OnlyWork
    BY <1>3 DEF RoleMade, UserRole, Need, FindRoleDoc, GetDoc
  <2> QED
    BY <2>1, <2>2, KeptQuiet
<1> QED
  BY <1>1, <1>2, <1>3

LEMMA LoggingKept ==
    ASSUME IInv, NEW w \in Workers,
           MayCreateCol(w) \/ HasNoId(w) \/ CreateAttr(w) \/ AttrDone(w)
    PROVE  Kept(w)
<1>1. Effect(w)
  BY MayCreateColEffect, HasNoIdEffect, CreateAttrEffect, AttrDoneEffect
<1>2. UNCHANGED tables /\ Sends
  BY DEF MayCreateCol, HasNoId, CreateAttr, AttrDone, Sends
<1>3. \/ log' = log
      \/ \E x : \/ log' = [log EXCEPT !.dropped = x]
                \/ log' = [log EXCEPT !.refused = x]
  BY DEF MayCreateCol, HasNoId, CreateAttr, AttrDone
<1>4. log' = LogShapeOf'
  BY <1>3, LogShape DEF LogShapeOf, IInv, Tables
<1> QED
  BY <1>1, <1>2, <1>4, KeptTables

(* ... of those that write into the tables.                                *)
LEMMA KeptWriting ==
    ASSUME IInv, NEW w \in Workers, Effect(w), Sends,
           log' = log \/ \E x : log' = [log EXCEPT !.recorded = x],
           \/ users' = users
           \/ users' \in [UUIDs -> [made : Nat, profile : Nat] \cup {NULL}],
           roles' = roles \/ (IsSeq(roles') /\ RolesOK'),
           members' = members \/ MembersOK',
           colRoles' = colRoles \/ PoliciesOK', docs' = docs \/ DocsOK',
           docs' = docs \/ DocsMade(w)
    PROVE  Kept(w)
<1>1. Tables /\ Shapes /\ Grows(db, db')
  BY DEF IInv, Tables, Effect
<1>2. log' = LogShapeOf'
  BY <1>1, LogShape DEF LogShapeOf
<1>3. Shapes'
  BY <1>1, <1>2, ShapesNext
<1>4. RolesOK'
  BY <1>1 DEF Tables, RolesOK
<1>5. Tables'
  BY <1>1, <1>3, <1>4, TablesGrow
<1>6. DocsMade(w)
  BY DEF DocsMade, HasDoc, db
<1> QED
  BY <1>5, <1>6 DEF Kept

LEMMA UserDocMade ==
    ASSUME NEW w \in Workers, UserDoc(w)
    PROVE  DocsMade(w)
<1> DEFINE u == Arg(w, 1)
           row == [id |-> RoleDocOf(u), col |-> UserRolesCol(u),
                   owner |-> u, updated |-> Change(w).at]
<1>1. docs' \subseteq docs \cup {row} /\ Op(w) = "userDoc"
  BY DEF UserDoc
<1>2. row.id = RoleDocOf(u)
  OBVIOUS
<1>3. \A v : RoleDocOf(v) = RoleDocOf(u) => v = u
  BY DEF RoleDocOf
<1> HIDE DEF row, u
<1>4. ASSUME NEW v \in UUIDs, HasDoc(db', RoleDocOf(v))
      PROVE  HasDoc(db, RoleDocOf(v)) \/ u = v
  BY <1>1, <1>2, <1>3, <1>4 DEF HasDoc, db
<1> QED
  BY <1>1, <1>4 DEF DocsMade, u

LEMMA WritingKept ==
    ASSUME IInv, NEW w \in Workers,
           \/ InsertUser(w) \/ UserDoc(w) \/ UpdateUser(w) \/ InsertCol(w)
           \/ ReplaceRows(w) \/ InsertRole(w) \/ AddMember(w)
           \/ RemoveMember(w) \/ CreateDoc(w) \/ Record(w) \/ SetPolicy(w)
    PROVE  Kept(w)
<1>1. CASE InsertUser(w)
  BY <1>1, InsertUserEffect, KeptWriting DEF InsertUser, Keep, Sends
<1>2. CASE UserDoc(w)
  BY <1>2, UserDocEffect, UserDocTables, UserDocMade, KeptWriting
  DEF UserDoc, Keep, Sends
<1>3. CASE UpdateUser(w)
  BY <1>3, UpdateUserEffect, KeptWriting DEF UpdateUser, Keep, Sends
<1>4. CASE InsertCol(w)
  BY <1>4, InsertColEffect, KeptWriting DEF InsertCol, Keep, Sends
<1>5. CASE ReplaceRows(w)
  BY <1>5, ReplaceRowsEffect, ReplaceRowsTables, KeptWriting
  DEF ReplaceRows, Keep, Sends
<1>6. CASE InsertRole(w)
  BY <1>6, InsertRoleEffect, KeptWriting DEF InsertRole, Keep, Sends
<1>7. CASE AddMember(w)
  BY <1>7, AddMemberEffect, AddMemberTables, KeptWriting
  DEF AddMember, Keep, Sends
<1>8. CASE RemoveMember(w)
  BY <1>8, RemoveMemberEffect, RemoveMemberTables, KeptWriting
  DEF RemoveMember, Keep, Sends
<1>9. CASE CreateDoc(w)
  <2>1. Effect(w) /\ DocsOK' /\ DocsMade(w)
    BY <1>9, CreateDocEffect, CreateDocTables DEF DocsMade
  <2> QED
    BY <1>9, <2>1, KeptWriting DEF CreateDoc, Keep, Sends
<1>10. CASE Record(w)
  <2>1. Effect(w) /\ DocsOK' /\ DocsMade(w)
    BY <1>10, RecordEffect, RecordDocs DEF DocsMade, IInv, Tables
  <2>2. \E x : log' = [log EXCEPT !.recorded = x]
    BY <1>10 DEF Record
  <2>3. Sends /\ UNCHANGED <<users, roles, members, colRoles>>
    BY <1>10 DEF Record, Sends
  <2> QED
    BY <2>1, <2>2, <2>3, KeptWriting
<1>11. CASE SetPolicy(w)
  BY <1>11, SetPolicyEffect, SetPolicyTables, KeptWriting
  DEF SetPolicy, Keep, Sends
<1> QED
  BY <1>1, <1>2, <1>3, <1>4, <1>5, <1>6, <1>7, <1>8, <1>9, <1>10, <1>11

LEMMA StepKept ==
    ASSUME IInv, NEW w \in Workers, Step(w), ~Fork(w)
    PROVE  Kept(w)
BY QuietKept, LoggingKept, WritingKept DEF Step

(* What others have on their stacks remains good.                          *)
LEMMA StacksKept ==
    ASSUME IInv, NEW w \in Workers, Effect(w)
    PROVE  Stacks'
<1>1. \A v \in Workers : v # w => work'[v] = work[v]
  BY WorkShape DEF Effect, IInv, Tables
<1>2. ASSUME NEW v \in Workers PROVE Good(db', work'[v])
  <2>1. CASE v = w
    BY <2>1 DEF Effect
  <2>2. CASE v # w
    <3>1. Good(db, work[v]) /\ Grows(db, db')
      BY DEF IInv, Stacks, Effect
    <3>2. Good(db', work[v])
      BY <3>1, GoodGrows
    <3> QED
      BY <1>1, <2>2, <3>2
  <2> QED
    BY <2>1, <2>2
<1> QED
  BY <1>2 DEF Stacks

(* Where a statement that makes the document of an implicit role was.      *)
Came(w, v, i, u, n, k) ==
    \/ v = w /\ i = 2 /\ users[u] = NULL
    \/ \E m \in 1..Len(work[v].todo) :
          Makes(work[v].todo, m, u) /\ (v = w => m > k /\ i = n + (m - k))

LEMMA Shifted ==
    ASSUME NEW N, NEW T, NEW n \in Nat, NEW k \in 1..Len(T),
           Len(T) \in Nat, Rest(N, T, n, k), NEW i \in 1..Len(N), i > n
    PROVE  \E m \in 1..Len(T) : m > k /\ i = n + (m - k) /\ N[i] = T[m]
<1>1. /\ Len(N) = n + (Len(T) - k)
      /\ \A j \in 1..(Len(T) - k) : N[n + j] = T[k + j]
  BY DEF Rest
<1>2. \A a, b, c, j \in Nat :
        /\ c \in 1..b /\ j \in 1..(a + (b - c)) /\ j > a
        =>
        /\ j - a \in 1..(b - c) /\ c + (j - a) \in 1..b /\ c + (j - a) > c
        /\ a + (j - a) = j /\ j = a + ((c + (j - a)) - c)
  OBVIOUS
<1>3. /\ i - n \in 1..(Len(T) - k) /\ k + (i - n) \in 1..Len(T)
      /\ k + (i - n) > k /\ n + (i - n) = i /\ i = n + ((k + (i - n)) - k)
  BY <1>1, <1>2
<1>4. N[i] = T[k + (i - n)]
  BY <1>1, <1>3
<1> QED
  BY <1>3, <1>4

LEMMA MakesCame ==
    ASSUME IInv, NEW w \in Workers, Effect(w),
           NEW n \in Nat, NEW k \in 1..Len(work[w].todo),
           MovesBy(db, db', work[w], work'[w], Change(w) \in log'.refused,
                   n, k), Len(work[w].todo) \in Nat,
           NEW v \in Workers, NEW i, NEW u, Makes(work'[v].todo, i, u)
    PROVE  Came(w, v, i, u, n, k)
<1>1. CASE v # w
  <2>1. work'[v] = work[v]
    BY <1>1, WorkShape DEF Effect, IInv, Tables
  <2> QED
    BY <1>1, <2>1 DEF Came, Makes
<1>2. CASE v = w
  <2> DEFINE N == work'[w].todo
             T == work[w].todo
  <2>1. /\ Rest(N, T, n, k)
        /\ \A j \in 1..n : N[j][1] = "userDoc" =>
             j = 2 /\ db.users[N[j][2]] = NULL
    BY DEF MovesBy
  <2>2. i \in 1..Len(N) /\ N[i][1] = "userDoc" /\ N[i][2] = u
    BY <1>2 DEF Makes
  <2>3. Len(N) = n + (Len(T) - k)
    BY <2>1 DEF Rest
  <2>4. CASE i \in 1..n
    BY <1>2, <2>1, <2>2, <2>4 DEF Came, db
  <2>5. CASE i \notin 1..n
    <3> HIDE DEF N, T
    <3>1. i > n /\ Len(T) \in Nat /\ k \in 1..Len(T)
      <4>1. \A a \in Int, b \in Nat :
              \A x \in 1..a : x \notin 1..b => x > b
        OBVIOUS
      <4>2. Len(T) \in Nat /\ k \in 1..Len(T)
        BY DEF T
      <4>3. Len(N) \in Int
        BY <2>3, <4>2
      <4> QED
        BY <2>2, <2>5, <4>1, <4>2, <4>3
    <3>2. PICK m \in 1..Len(T) : m > k /\ i = n + (m - k) /\ N[i] = T[m]
      <4>1. Rest(N, T, n, k) /\ i \in 1..Len(N)
        BY <2>1, <2>2
      <4> QED
        BY <3>1, <4>1, Shifted
    <3>3. Makes(T, m, u)
      BY <2>2, <3>2 DEF Makes
    <3> QED
      BY <1>2, <3>2, <3>3 DEF Came, T
  <2> QED
    BY <2>4, <2>5
<1> QED
  BY <1>1, <1>2

LEMMA OnceKept ==
    ASSUME IInv, NEW w \in Workers, Kept(w)
    PROVE  NotMade' /\ MadeOnce'
<1> DEFINE p == work[w]
           T == p.todo
<1>0. NotMade /\ MadeOnce /\ Effect(w) /\ DocsMade(w) /\ Grows(db, db')
  BY DEF IInv, Kept, Effect
<1>1. PICK n \in Nat, k \in 1..Len(T) :
        MovesBy(db, db', p, work'[w], Change(w) \in log'.refused, n, k)
  BY <1>0 DEF Effect, Moves
<1>2. Len(T) \in Nat
  <2>1. CASE p = Idle
    BY <2>1, Literals DEF Idle
  <2>2. CASE p # Idle
    BY <2>2 DEF IInv, Stacks, Good, Ordered, IsSeq
  <2> QED
    BY <2>1, <2>2
<1>3. \A v \in Workers : \A i, u :
        Makes(work'[v].todo, i, u) => Came(w, v, i, u, n, k)
  BY <1>0, <1>1, <1>2, MakesCame
<1>4. Stacks'
  BY <1>0, StacksKept
<1>5. ASSUME NEW v \in Workers, NEW i \in 1..Len(work'[v].todo), NEW u,
             Makes(work'[v].todo, i, u)
      PROVE  users'[u] # NULL
  <2>1. Good(db', work'[v]) /\ work'[v] # Idle
    BY <1>4, <1>5, Literals DEF Stacks, Idle
  <2>2. Framed(db', work'[v].change, work'[v].todo[i])
    BY <2>1 DEF Good, Ordered
  <2> QED
    BY <1>5, <2>2 DEF Makes, Framed, Made, db
<1>6. \A u \in UUIDs : users[u] = NULL \/ users'[u] # NULL
  BY <1>0 DEF Grows, db
<1>7. ASSUME NEW u \in UUIDs, HasDoc(db', RoleDocOf(u)),
             ~HasDoc(db, RoleDocOf(u))
      PROVE  Makes(T, 1, u) /\ 1 \in 1..Len(T)
  <2>1. Op(w) = "userDoc" /\ Arg(w, 1) = u
    BY <1>0, <1>7 DEF DocsMade
  <2>2. Top(w)
    BY <2>1, TopOf DEF IInv
  <2>3. 1 \in 1..Len(T)
    BY <2>2, SeqOfItems DEF Top, IsSeq
  <2> QED
    BY <2>1, <2>2, <2>3 DEF Top, Makes
<1>8. NotMade'
  <2> SUFFICES ASSUME NEW u \in UUIDs, users'[u] = NULL
               PROVE  /\ ~HasDoc(db', RoleDocOf(u))
                      /\ \A v \in Workers :
                           \A i \in 1..Len(work'[v].todo) :
                             ~Makes(work'[v].todo, i, u)
    BY DEF NotMade
  <2>1. 1 \in 1..Len(T) => ~Makes(T, 1, u)
    BY <1>0, <1>6 DEF NotMade
  <2>2. ~HasDoc(db, RoleDocOf(u))
    BY <1>0, <1>6 DEF NotMade
  <2>3. ~HasDoc(db', RoleDocOf(u))
    BY <1>7, <2>1, <2>2
  <2> QED
    BY <1>5, <2>3
<1>9. MadeOnce'
  <2> SUFFICES ASSUME NEW u \in UUIDs, NEW v \in Workers,
                      NEW i \in 1..Len(work'[v].todo),
                      Makes(work'[v].todo, i, u)
               PROVE  /\ ~HasDoc(db', RoleDocOf(u))
                      /\ \A v2 \in Workers :
                           \A j \in 1..Len(work'[v2].todo) :
                             Makes(work'[v2].todo, j, u) => v2 = v /\ j = i
    BY DEF MadeOnce
  <2>1. Came(w, v, i, u, n, k)
    BY <1>3
  <2>2. CASE users[u] = NULL
    <3>1. /\ ~HasDoc(db, RoleDocOf(u))
          /\ \A x \in Workers : \A j \in 1..Len(work[x].todo) :
               ~Makes(work[x].todo, j, u)
      BY <1>0, <2>2 DEF NotMade
    <3>2. ~HasDoc(db', RoleDocOf(u))
      BY <1>7, <3>1
    <3>3. \A x \in Workers : \A j :
            Makes(work'[x].todo, j, u) => x = w /\ j = 2
      BY <1>3, <3>1 DEF Came
    <3>4. v = w /\ i = 2
      BY <3>3
    <3>5. ASSUME NEW v2 \in Workers, NEW j \in 1..Len(work'[v2].todo),
                 Makes(work'[v2].todo, j, u)
          PROVE  v2 = v /\ j = i
      <4>1. v2 = w /\ j = 2
        BY <3>3, <3>5
      <4> QED
        BY <3>4, <4>1
    <3> QED
      BY <3>2, <3>5
  <2>3. CASE users[u] # NULL
    <3>1. PICK m \in 1..Len(work[v].todo) :
            /\ Makes(work[v].todo, m, u)
            /\ v = w => m > k /\ i = n + (m - k)
      BY <2>1, <2>3 DEF Came
    <3>2. /\ ~HasDoc(db, RoleDocOf(u))
          /\ \A x \in Workers : \A j \in 1..Len(work[x].todo) :
               Makes(work[x].todo, j, u) => x = v /\ j = m
      BY <1>0, <3>1 DEF MadeOnce
    <3>3. ~HasDoc(db', RoleDocOf(u))
      <4> SUFFICES ASSUME HasDoc(db', RoleDocOf(u)) PROVE FALSE
        OBVIOUS
      <4>1. Makes(T, 1, u) /\ 1 \in 1..Len(T)
        BY <1>7, <3>2
      <4>2. w = v /\ m = 1
        BY <3>2, <4>1
      <4>3. m > k /\ k >= 1 /\ k \in Nat
        BY <1>2, <3>1, <4>2
      <4> QED
        BY <4>2, <4>3
    <3>4. ASSUME NEW v2 \in Workers, NEW j \in 1..Len(work'[v2].todo),
                 Makes(work'[v2].todo, j, u)
          PROVE  v2 = v /\ j = i
      <4>1. Came(w, v2, j, u, n, k)
        BY <1>3, <3>4
      <4>2. PICK l \in 1..Len(work[v2].todo) :
              /\ Makes(work[v2].todo, l, u)
              /\ v2 = w => l > k /\ j = n + (l - k)
        BY <2>3, <4>1 DEF Came
      <4>3. v2 = v /\ l = m
        BY <3>2, <4>2
      <4>4. CASE v = w
        BY <3>1, <4>2, <4>3, <4>4
      <4>5. CASE v # w
        <5>1. work'[v] = work[v]
          BY <1>0, <4>5, WorkShape DEF Effect, IInv, Tables
        <5>2. Makes(work[v].todo, i, u) /\ Makes(work[v].todo, j, u)
          BY <3>4, <4>3, <5>1
        <5> QED
          BY <3>2, <4>3, <5>2 DEF Makes
      <4> QED
        BY <4>4, <4>5
    <3> QED
      BY <3>3, <3>4
  <2> QED
    BY <2>2, <2>3
<1> QED
  BY <1>8, <1>9

LEMMA StepInv ==
    ASSUME IInv, NEW w \in Workers, Step(w), ~Fork(w)
    PROVE  IInv'
<1>1. Kept(w)
  BY StepKept
<1>2. NotMade' /\ MadeOnce'
  BY <1>1, OnceKept
<1>3. Stacks' /\ Tables'
  BY <1>1, StacksKept DEF Kept
<1>4. SentOK'
  BY <1>1 DEF Kept, Sends, IInv, SentOK
<1> QED
  BY <1>2, <1>3, <1>4 DEF IInv

-----------------------------------------------------------------------------
(* A change is taken: what is to be done for it.                           *)
LEMMA PlainProgram ==
    ASSUME NEW s, NEW c \in Everything
    PROVE  EndsPlain(s, c, Program(c))
<1>0. IsChange(c) /\ c.by \in UUIDs /\ c.of \in UUIDs
  BY AccountsAssumption DEF UUIDs
<1> DEFINE f(u) == <<"findUser", u>>
           one == IF c.by # Nobody THEN <<f(c.by)>> ELSE <<>>
           two == IF c.of \notin {c.by, Nobody} THEN <<f(c.of)>> ELSE <<>>
<1>1. Plain(s, c, FindUsers(c))
  <2>1. /\ Framed(s, c, f(c.by)) /\ f(c.by)[1] \in Base \ Needy
        /\ Framed(s, c, f(c.of)) /\ f(c.of)[1] \in Base \ Needy
    BY <1>0 DEF Framed, Base, Needy
  <2> HIDE DEF f
  <2>2. Plain(s, c, one) /\ Plain(s, c, two)
    BY <2>1, PlainLiterals
  <2>3. FindUsers(c) = one \o two
    BY DEF FindUsers, f
  <2> HIDE DEF one, two
  <2> QED
    BY <2>2, <2>3, PlainJoined
<1>2. CASE c.kind = "role"
  <2> DEFINE g == <<"userRole">>
             S == <<g>>
  <2>1. Framed(s, c, g) /\ g[1] \in Base \ Needy /\ g[1] \in Ends
    BY <1>2 DEF Framed, Base, Needy, Ends
  <2>2. Program(c) = FindUsers(c) \o S
    BY <1>2 DEF Program
  <2> HIDE DEF g
  <2>3. Plain(s, c, S) /\ Len(S) = 1 /\ S[1] = g
    BY <2>1, PlainLiterals, Literals
  <2> HIDE DEF S
  <2>4. EndsPlain(s, c, S)
    BY <2>1, <2>3 DEF EndsPlain
  <2> QED
    BY <1>1, <2>2, <2>4, PlainEnds
<1>3. ASSUME NEW doc, NEW col, About(c, col), ~IsRoleDoc(doc),
             Program(c) = FindUsers(c) \o
               (<<<<"col", col>>, <<"doc", doc, col, c.by>>>>
                \o Write(doc, col))
      PROVE  EndsPlain(s, c, Program(c))
  <2> DEFINE g == <<"col", col>>
             h == <<"doc", doc, col, c.by>>
             S == <<g, h>>
             T == S \o Write(doc, col)
  <2>1. Framed(s, c, g) /\ g[1] \in Base \ Needy
    BY <1>3 DEF Framed, Base, Needy
  <2>2. Framed(s, c, h) /\ h[1] \in Base \ Needy
    BY <1>3 DEF Framed, Base, Needy
  <2>3. Program(c) = FindUsers(c) \o T
    BY <1>3
  <2> HIDE DEF g, h
  <2>4. Plain(s, c, S)
    BY <2>1, <2>2, PlainLiterals
  <2> HIDE DEF S
  <2>5. EndsPlain(s, c, T)
    BY <1>3, <2>4, PlainEnds, WriteEnds
  <2> HIDE DEF T
  <2> QED
    BY <1>1, <2>3, <2>5, PlainEnds
<1>4. CASE c.kind = "user"
  <2>1. Program(c) = FindUsers(c) \o
          (<<<<"col", USER>>, <<"doc", <<"$u", c.of>>, USER, c.by>>>>
           \o Write(<<"$u", c.of>>, USER))
    BY <1>4 DEF Program
  <2>2. About(c, USER) /\ ~IsRoleDoc(<<"$u", c.of>>)
    BY DEF About, OfApp, IsRoleDoc, RoleDocOf
  <2> QED
    BY <1>3, <1>4, <2>1, <2>2
<1>5. CASE c.kind \in {"write", "policy"}
  <2>1. Program(c) = FindUsers(c) \o
          (<<<<"col", c.col>>, <<"doc", c.doc, c.col, c.by>>>>
           \o Write(c.doc, c.col))
    BY <1>5 DEF Program
  <2>2. About(c, c.col) /\ ~IsRoleDoc(c.doc)
    BY <1>0, <1>5 DEF About, IsRoleDoc, IsChange
  <2> QED
    BY <1>3, <1>5, <2>1, <2>2
<1> QED
  BY <1>0, <1>2, <1>4, <1>5 DEF IsChange

LEMMA PlainGood ==
    ASSUME NEW s, NEW p, IsProc(p), Learnt(s, p),
           EndsPlain(s, p.change, p.todo)
    PROVE  Good(s, p)
<1> DEFINE S == p.todo
<1>0. /\ IsSeq(S) /\ Len(S) \in Nat /\ Len(S) > 0 /\ S[Len(S)][1] \in Ends
      /\ \A i \in 1..Len(S) : /\ Framed(s, p.change, S[i])
                              /\ S[i][1] \in Base \ Needy
  BY DEF EndsPlain, Plain, IsSeq
<1> HIDE DEF S
<1>1. Base \subseteq Free
  BY DEF Base, Free
<1>2. ASSUME NEW i \in 1..(Len(S) - 1) PROVE Follows(s, S[i], S[i + 1])
  <2>1. i \in 1..Len(S) /\ i + 1 \in 1..Len(S)
    BY <1>0
  <2> QED
    BY <1>0, <1>1, <2>1, FreeFollows
<1>3. 1 \in 1..Len(S) /\ S # <<>>
  BY <1>0, SeqOfItems
<1>4. Ready(s, p, S[1])
  BY <1>0, <1>3, NotNeedyReady
<1>5. Ordered(s, p.change, S)
  BY <1>0, <1>2 DEF Ordered
<1> QED
  BY <1>3, <1>4, <1>5 DEF Good, S

(* Every worker goes on as it was, or begins, or is done.                  *)
Plainly(p) == /\ Good(db, p)
              /\ \A i \in 1..Len(p.todo) : p.todo[i][1] # "userDoc"

LEMMA PlainlyIdle == Plainly(Idle)
<1>1. Good(db, Idle) /\ Idle.todo = <<>> /\ 1..0 = {}
  BY DEF Good, Idle
<1> QED
  BY <1>1, Literals DEF Plainly

LEMMA Restarted ==
    ASSUME IInv, work' = [v \in Workers |-> work'[v]],
           \A v \in Workers : work'[v] = work[v] \/ Plainly(work'[v]),
           UNCHANGED tables, log' = LogShapeOf', SentOK'
    PROVE  IInv'
<1>2. db' = db /\ Grows(db, db')
  BY SameTables
<1>3. Shapes' /\ RolesOK' /\ members' = members /\ colRoles' = colRoles
      /\ docs' = docs
  BY DEF IInv, Tables, Shapes, RolesOK, LogShapeOf, tables
<1>4. Tables'
  BY <1>2, <1>3, TablesGrow DEF IInv
<1>5. ASSUME NEW v \in Workers PROVE Good(db', work'[v])
  BY <1>2 DEF IInv, Stacks, Plainly
<1>6. ASSUME NEW v \in Workers, NEW i, NEW u, Makes(work'[v].todo, i, u)
      PROVE  Makes(work[v].todo, i, u) /\ i \in 1..Len(work[v].todo)
  BY <1>6 DEF Makes, Plainly
<1>7. NotMade'
  <2>1. users' = users
    BY DEF tables
  <2> QED
    BY <1>2, <1>6, <2>1 DEF NotMade, IInv
<1>8. MadeOnce'
  <2> SUFFICES ASSUME NEW u \in UUIDs, NEW v \in Workers,
                      NEW i \in 1..Len(work'[v].todo),
                      Makes(work'[v].todo, i, u)
               PROVE  /\ ~HasDoc(db', RoleDocOf(u))
                      /\ \A v2 \in Workers :
                           \A j \in 1..Len(work'[v2].todo) :
                             Makes(work'[v2].todo, j, u) => v2 = v /\ j = i
    BY DEF MadeOnce
  <2>1. Makes(work[v].todo, i, u) /\ i \in 1..Len(work[v].todo)
    BY <1>6
  <2>2. /\ ~HasDoc(db, RoleDocOf(u))
        /\ \A v2 \in Workers : \A j \in 1..Len(work[v2].todo) :
             Makes(work[v2].todo, j, u) => v2 = v /\ j = i
    BY <2>1 DEF MadeOnce, IInv
  <2>3. ASSUME NEW v2 \in Workers, NEW j \in 1..Len(work'[v2].todo),
               Makes(work'[v2].todo, j, u)
        PROVE  v2 = v /\ j = i
    BY <1>6, <2>2, <2>3
  <2> QED
    BY <1>2, <2>2, <2>3
<1> QED
  BY <1>4, <1>5, <1>7, <1>8 DEF IInv, Stacks

LEMMA TakeInv ==
    ASSUME IInv, NEW w \in Workers, NEW c \in queue, Take(w, c)
    PROVE  IInv'
<1> DEFINE q == [change |-> c, todo |-> Program(c), users |-> {},
                 cols |-> {}, docs |-> {}, roleId |-> NULL,
                 got |-> FALSE, role |-> NULL, seen |-> {}]
<1>1. /\ work' = [work EXCEPT ![w] = q]
      /\ UNCHANGED <<tables, batches, queue>>
      /\ tries' = [tries EXCEPT ![c] = @ - 1]
      /\ log' = log \/ \E x : log' = [log EXCEPT !.early = x]
  BY DEF Take
<1>2. c \in Everything
  BY DEF IInv, SentOK
<1>3. /\ q.change = c /\ q.todo = Program(c) /\ q.users = {} /\ q.cols = {}
      /\ q.docs = {}
  OBVIOUS
<1>4. IsProc(q)
  BY <1>2 DEF IsProc
<1> HIDE DEF q
<1>5. Learnt(db, q)
  BY <1>3 DEF Learnt
<1>6. EndsPlain(db, c, Program(c))
  BY <1>2, PlainProgram
<1>7. Good(db, q)
  BY <1>3, <1>4, <1>5, <1>6, PlainGood
<1>8. "userDoc" \notin Base
  BY DEF Base
<1>9. \A i \in 1..Len(q.todo) : q.todo[i][1] # "userDoc"
  BY <1>3, <1>6, <1>8 DEF EndsPlain, Plain
<1>10. log' = LogShapeOf' /\ UNCHANGED tables
  BY <1>1, LogShape DEF LogShapeOf, IInv, Tables
<1>12. /\ work' = [v \in Workers |-> work'[v]]
       /\ \A v \in Workers : work'[v] = work[v] \/ work'[v] = q
  BY <1>1, WorkShape DEF IInv, Tables
<1>11. SentOK'
  <2>1. DOMAIN tries' = DOMAIN tries
    BY <1>1
  <2> QED
    BY <1>1, <2>1 DEF SentOK, IInv
<1> QED
  BY <1>7, <1>9, <1>10, <1>11, <1>12, Restarted DEF Plainly

(* The two workers of a process.                                           *)
LEMMA TwinIs ==
    ASSUME NEW w \in Workers
    PROVE  Twin(w) \in Workers /\ Twin(w) # w
<1>1. PICK x \in Processes, i \in {1, 2} : w = <<x, i>>
  BY DEF Workers
<1>2. Twin(w) = <<x, 3 - i>> /\ 3 - i \in {1, 2} /\ 3 - i # i
  BY <1>1 DEF Twin
<1> QED
  BY <1>1, <1>2 DEF Workers

LEMMA BothWork ==
    ASSUME Shapes, NEW w \in Workers, NEW x, NEW y,
           work' = [work EXCEPT ![w] = x, ![Twin(w)] = y]
    PROVE  /\ work' = [v \in Workers |-> work'[v]]
           /\ work'[w] = x /\ work'[Twin(w)] = y
           /\ \A v \in Workers \ {w, Twin(w)} : work'[v] = work[v]
<1>1. Twin(w) \in Workers /\ Twin(w) # w
  BY TwinIs
<1> QED
  BY <1>1 DEF Shapes

LEMMA CrashInv ==
    ASSUME IInv, NEW w \in Workers, Crash(w)
    PROVE  IInv'
<1>1. /\ work' = [work EXCEPT ![w] = Idle, ![Twin(w)] = Idle]
      /\ UNCHANGED tables /\ UNCHANGED <<batches, queue, tries>>
      /\ \E x : log' = [log EXCEPT !.crashed = TRUE, !.lost = x]
  BY DEF Crash
<1>2. log' = LogShapeOf'
  BY <1>1, LogShape DEF LogShapeOf, IInv, Tables
<1>3. /\ work' = [v \in Workers |-> work'[v]]
      /\ \A v \in Workers : work'[v] = work[v] \/ work'[v] = Idle
  BY <1>1, BothWork DEF IInv, Tables
<1>4. SentOK'
  BY <1>1 DEF SentOK, IInv
<1> QED
  BY <1>1, <1>2, <1>3, <1>4, PlainlyIdle, Restarted

(* The halves of a change of a role, each with what the process knows.     *)
IsHalf(p, q, doc, col) == /\ IsProc(q) /\ q.change = p.change
                          /\ q.todo = Write(doc, col) /\ q.users = p.users
                          /\ q.cols = p.cols /\ q.docs = p.docs
                          /\ q.seen = p.seen

LEMMA Forked ==
    ASSUME IInv, NEW w \in Workers, Fork(w)
    PROVE  /\ Top(w) /\ work[Twin(w)] = Idle /\ OnlyWork
           /\ work' = [v \in Workers |-> work'[v]]
           /\ \A v \in Workers \ {w, Twin(w)} : work'[v] = work[v]
           /\ IsHalf(work[w], work'[w], Arg(w, 1),
                     UserRolesCol(Change(w).of))
           /\ IsHalf(work[w], work'[Twin(w)], RoleDoc(Arg(w, 1)),
                     RoleUsersCol(Change(w).role))
<1> DEFINE p == work[w]
           half(doc, col) == [p EXCEPT !.todo = Write(doc, col)]
           x == half(Arg(w, 1), UserRolesCol(Change(w).of))
           y == half(RoleDoc(Arg(w, 1)), RoleUsersCol(Change(w).role))
<1>1. Top(w) /\ Shapes
  BY TopOf DEF Fork, IInv, Tables
<1>2. /\ work' = [work EXCEPT ![w] = x, ![Twin(w)] = y]
      /\ OnlyWork /\ work[Twin(w)] = Idle
  BY DEF Fork
<1>3. ASSUME NEW doc, NEW col
      PROVE  IsHalf(p, half(doc, col), doc, col)
  <2>1. /\ p = [change |-> p.change, todo |-> p.todo, users |-> p.users,
                cols |-> p.cols, docs |-> p.docs, roleId |-> p.roleId,
                got |-> p.got, role |-> p.role, seen |-> p.seen]
        /\ p.change \in Everything
    BY <1>1 DEF Top, IsProc
  <2>2. half(doc, col) =
          [change |-> p.change, todo |-> Write(doc, col),
           users |-> p.users, cols |-> p.cols, docs |-> p.docs,
           roleId |-> p.roleId, got |-> p.got, role |-> p.role,
           seen |-> p.seen]
    BY <2>1, WithTodo
  <2> HIDE DEF half
  <2> QED
    BY <2>1, <2>2 DEF IsHalf, IsProc
<1> HIDE DEF half
<1>4. IsHalf(p, x, Arg(w, 1), UserRolesCol(Change(w).of))
  BY <1>3
<1>5. IsHalf(p, y, RoleDoc(Arg(w, 1)), RoleUsersCol(Change(w).role))
  BY <1>3
<1> HIDE DEF x, y
<1>6. /\ work' = [v \in Workers |-> work'[v]]
      /\ work'[w] = x /\ work'[Twin(w)] = y
      /\ \A v \in Workers \ {w, Twin(w)} : work'[v] = work[v]
  BY <1>1, <1>2, BothWork
<1> QED
  BY <1>1, <1>2, <1>4, <1>5, <1>6

(* What half of a change has on its stack.                                 *)
LEMMA HalfIs ==
    ASSUME NEW s, NEW p, NEW q, NEW doc, NEW col, IsHalf(p, q, doc, col)
    PROVE  /\ IsSeq(q.todo) /\ Len(q.todo) = 2 /\ q # Idle
           /\ q.todo[1] = <<"attr", doc, col>> /\ q.todo[2] = <<"attrDone">>
           /\ Learnt(s, p) => Learnt(s, q)
<1>1. /\ IsSeq(q.todo) /\ Len(q.todo) = 2
      /\ q.todo[1] = <<"attr", doc, col>> /\ q.todo[2] = <<"attrDone">>
  BY Literals DEF IsHalf, Write
<1>2. q # Idle
  BY <1>1, Literals DEF Idle
<1> QED
  BY <1>1, <1>2 DEF IsHalf, Learnt

LEMMA ForkInv ==
    ASSUME IInv, NEW w \in Workers, Fork(w)
    PROVE  IInv'
<1> DEFINE p == work[w]
           d == Arg(w, 1)
<1>1. /\ Top(w) /\ OnlyWork /\ work' = [v \in Workers |-> work'[v]]
      /\ \A v \in Workers \ {w, Twin(w)} : work'[v] = work[v]
      /\ IsHalf(p, work'[w], d, UserRolesCol(Change(w).of))
      /\ IsHalf(p, work'[Twin(w)], RoleDoc(d),
                RoleUsersCol(Change(w).role))
  BY Forked
<1>2. IsRoleDoc(d) => HasDoc(db, d)
  BY <1>1 DEF Fork, Top, Framed
<1>3. ~IsRoleDoc(RoleDoc(d))
  BY DEF IsRoleDoc, RoleDocOf, RoleDoc
<1> HIDE DEF p, d
<1>4. ASSUME NEW q, NEW doc, NEW col, IsHalf(p, q, doc, col),
             IsRoleDoc(doc) => HasDoc(db, doc)
      PROVE  Plainly(q)
  <2>1. /\ Len(q.todo) = 2 /\ q.todo[1] = <<"attr", doc, col>>
        /\ q.todo[2] = <<"attrDone">> /\ Learnt(db, q) /\ IsProc(q)
    BY <1>1, <1>4, HalfIs DEF Top, p, IsHalf
  <2>2. EndsPlain(db, q.change, q.todo)
    BY <1>4, WriteEnds DEF IsHalf
  <2>3. 1..2 = {1, 2}
    OBVIOUS
  <2> QED
    BY <2>1, <2>2, <2>3, PlainGood DEF Plainly
<1>5. Plainly(work'[w]) /\ Plainly(work'[Twin(w)])
  BY <1>1, <1>2, <1>3, <1>4
<1>6. UNCHANGED tables /\ log' = LogShapeOf' /\ SentOK'
  BY <1>1 DEF OnlyWork, LogShapeOf, IInv, Tables, Shapes, SentOK
<1> QED
  BY <1>1, <1>5, <1>6, Restarted

LEMMA SameInv ==
    ASSUME IInv, UNCHANGED <<tables, work, log>>, SentOK'
    PROVE  IInv'
<1>1. db' = db
  BY DEF tables, db
<1>2. Tables'
  <2>1. /\ users' = users /\ roles' = roles /\ members' = members
        /\ cols' = cols /\ colRoles' = colRoles /\ docs' = docs
    BY DEF tables
  <2> QED
    BY <1>1, <2>1 DEF IInv, Tables, Shapes, RolesOK, MembersOK, PoliciesOK,
                      DocsOK, ColsOK
<1>3. Stacks' /\ NotMade' /\ MadeOnce'
  BY <1>1 DEF IInv, Stacks, NotMade, MadeOnce, tables
<1> QED
  BY <1>2, <1>3 DEF IInv

LEMMA QueueInv ==
    ASSUME IInv, Queue
    PROVE  IInv'
<1>1. /\ batches # <<>> /\ UNCHANGED <<tables, work, tries, log>>
      /\ queue' = queue \cup Head(batches) /\ batches' = Tail(batches)
  BY DEF Queue
<1>2. batches \in Seq(SUBSET Everything)
  BY DEF IInv, SentOK
<1>3. /\ Tail(batches) \in Seq(SUBSET Everything)
      /\ Head(batches) = batches[1] /\ Len(batches) \in Nat
      /\ Len(Tail(batches)) = Len(batches) - 1
      /\ \A i \in 1..Len(Tail(batches)) : Tail(batches)[i] = batches[i + 1]
      /\ DOMAIN batches = 1..Len(batches)
      /\ DOMAIN Tail(batches) = 1..Len(Tail(batches))
      /\ Len(batches) # 0
  BY <1>1, <1>2, HeadTailProperties, LenProperties, EmptySeq
<1>4. Head(batches) \subseteq DOMAIN tries
  BY <1>3 DEF IInv, SentOK
<1>5. \A i \in DOMAIN Tail(batches) : Tail(batches)[i] \subseteq DOMAIN tries
  <2> SUFFICES ASSUME NEW i \in 1..Len(Tail(batches))
               PROVE  Tail(batches)[i] \subseteq DOMAIN tries
    BY <1>3
  <2>1. i + 1 \in 1..Len(batches)
    BY <1>3
  <2> QED
    BY <1>3, <2>1 DEF IInv, SentOK
<1>6. SentOK'
  BY <1>1, <1>3, <1>4, <1>5 DEF IInv, SentOK
<1> QED
  BY <1>1, <1>6, SameInv

LEMMA NextInv ==
    ASSUME IInv, [Next]_vars
    PROVE  IInv'
<1>1. CASE UNCHANGED vars
  <2>1. UNCHANGED <<tables, work, log>> /\ SentOK'
    BY <1>1 DEF vars, tables, SentOK, IInv
  <2> QED
    BY <2>1, SameInv
<1>2. CASE Next
  BY <1>2, QueueInv, StepInv, ForkInv, CrashInv, TakeInv DEF Next
<1> QED
  BY <1>1, <1>2

LEMMA InitInv ==
    ASSUME Init
    PROVE  IInv
<1>1. PICK s \in Scenarios : /\ batches = s.batches
                             /\ tries = [c \in ChangesOf(s) |-> s.tries]
  BY DEF Init
<1>2. /\ users = [u \in UUIDs |-> NULL] /\ roles = <<>> /\ members = {}
      /\ cols = Reserved /\ colRoles = ReservedRows /\ docs = {}
      /\ queue = {} /\ work = [w \in Workers |-> Idle]
      /\ log = [recorded |-> {}, dropped |-> {}, refused |-> {},
                lost |-> {}, early |-> {}, crashed |-> FALSE]
  BY DEF Init
<1>3. Shapes
  BY <1>2, Literals DEF Shapes
<1>4. RolesOK /\ MembersOK /\ DocsOK /\ ColsOK
  BY <1>2 DEF RolesOK, MembersOK, DocsOK, ColsOK, Reserved
<1>5. PoliciesOK
  <2>1. \A r \in ReservedRows : r.col \in Reserved /\ r.role = SUPER
    BY DEF ReservedRows, Reserved
  <2> QED
    BY <1>2, <2>1 DEF PoliciesOK
<1>6. SentOK
  <2>1. \A i \in DOMAIN batches : batches[i] \subseteq ChangesOf(s)
    BY <1>1 DEF ChangesOf
  <2>2. ChangesOf(s) \subseteq Everything
    BY DEF Everything
  <2>3. DOMAIN tries = ChangesOf(s)
    BY <1>1
  <2> QED
    BY <1>1, <1>2, <2>1, <2>2, <2>3, AccountsAssumption DEF SentOK
<1>7. \A w \in Workers : /\ work[w] = Idle /\ Good(db, work[w])
                         /\ 1..Len(work[w].todo) = {}
  <2>1. Idle.todo = <<>> /\ 1..0 = {}
    BY DEF Idle
  <2> QED
    BY <1>2, <2>1, Literals DEF Good
<1>8. NotMade /\ MadeOnce
  BY <1>2, <1>7 DEF NotMade, MadeOnce, HasDoc, db
<1> QED
  BY <1>3, <1>4, <1>5, <1>6, <1>7, <1>8 DEF IInv, Tables, Stacks

LEMMA InvTypes ==
    ASSUME IInv
    PROVE  TypeOK
<1>1. DOMAIN roles = 1..Len(roles) /\ db.roles = roles /\ db.users = users
  BY SeqOfItems DEF db, IInv, Tables, Shapes
<1>2. \A m \in members : m.role \in DOMAIN roles /\ users[m.user] # NULL
  BY <1>1 DEF IInv, Tables, MembersOK, Made
<1>3. \A m, n \in members : m.user = n.user /\ m.role = n.role => m = n
  BY DEF IInv, Tables, MembersOK
<1>4. \A r \in colRoles :
        /\ r.col \in cols
        /\ r.role \in {SUPER, OWNER, EVERYONE} \cup DOMAIN roles
  BY <1>1 DEF IInv, Tables, PoliciesOK, RoleKnown, Reserve
<1>5. /\ \A d \in docs : d.col \in cols
      /\ \A d, e \in docs : d.id = e.id => d = e
  BY DEF IInv, Tables, DocsOK
<1>6. queue \subseteq DOMAIN tries
  BY DEF IInv, SentOK
<1>7. \A w \in Workers : work[w].todo = <<>> <=> work[w] = Idle
  <2>1. Idle.todo = <<>>
    BY DEF Idle
  <2> QED
    BY <2>1 DEF IInv, Stacks, Good
<1> QED
  BY <1>2, <1>3, <1>4, <1>5, <1>6, <1>7 DEF TypeOK

LEMMA Invariant == Spec => []IInv
<1>1. Init => IInv
  BY InitInv
<1>2. IInv /\ [Next]_vars => IInv'
  BY NextInv
<1> QED
  BY <1>1, <1>2, PTL DEF Spec

(* Rows refer to rows that are there, whatever other processes do between  *)
(* the statements of one, and what is unique is unique: the statement that *)
(* makes the document of an implicit role does not look for one first, and *)
(* there never is one (docs.js:80, users.js:164).                          *)
THEOREM TypeCorrect == Spec => []TypeOK
<1>1. IInv => TypeOK
  BY InvTypes
<1> QED
  BY <1>1, Invariant, PTL

-----------------------------------------------------------------------------
(* Every user has the implicit role, or will have it, or was refused it.   *)
LEMMA LogGrows ==
    ASSUME IInv, NEW w \in Workers, Step(w)
    PROVE  log'.crashed = log.crashed /\ log.refused \subseteq log'.refused
<1>1. log = LogShapeOf
  BY DEF IInv, Tables, Shapes, LogShapeOf
<1>2. \/ log' = log
      \/ \E x : \/ log' = [log EXCEPT !.recorded = x]
                \/ log' = [log EXCEPT !.dropped = x]
                \/ log' = [log EXCEPT !.refused = x]
                   /\ log.refused \subseteq x
  <2>1. CASE \/ FindUser(w) \/ MayCreateUser(w) \/ GetUser(w) \/ UserMade(w)
             \/ Col(w) \/ CreateCol(w) \/ KnowCol(w) \/ GetCol(w)
             \/ ColMade(w) \/ CreatePolicyIfMissing(w) \/ SelectRows(w)
             \/ GetRole(w) \/ RoleMade(w) \/ UserRole(w) \/ Need(w)
             \/ FindRoleDoc(w) \/ Fork(w) \/ GetDoc(w)
    <3>1. OnlyWork
      BY <2>1 DEF FindUser, MayCreateUser, GetUser, UserMade, Col, CreateCol,
                  KnowCol, GetCol, ColMade, CreatePolicyIfMissing,
                  SelectRows, GetRole, RoleMade, UserRole, Need,
                  FindRoleDoc, Fork, GetDoc
    <3> QED
      BY <3>1 DEF OnlyWork
  <2>2. CASE InsertUser(w) \/ UserDoc(w) \/ UpdateUser(w) \/ InsertCol(w)
    BY <2>2 DEF InsertUser, UserDoc, UpdateUser, InsertCol, Keep
  <2>3. CASE \/ InsertRole(w) \/ AddMember(w) \/ RemoveMember(w)
             \/ CreateDoc(w) \/ SetPolicy(w)
    BY <2>3 DEF InsertRole, AddMember, RemoveMember, CreateDoc, SetPolicy,
                Keep
  <2>4. CASE ReplaceRows(w) \/ Record(w) \/ AttrDone(w)
    BY <2>4 DEF ReplaceRows, Record, AttrDone, Keep
  <2>5. CASE MayCreateCol(w) \/ HasNoId(w) \/ CreateAttr(w)
    BY <2>5 DEF MayCreateCol, HasNoId, CreateAttr
  <2> QED
    BY <2>1, <2>2, <2>3, <2>4, <2>5 DEF Step
<1> QED
  BY <1>1, <1>2 DEF LogShapeOf

LEMMA NewUsers ==
    ASSUME IInv, NEW w \in Workers, Step(w), NEW u \in UUIDs,
           users[u] = NULL, users'[u] # NULL
    PROVE  \E N : /\ work'[w].todo = MakeUser(u, Change(w).by) \o N
                  /\ IsSeq(N)
<1>1. users' # users
  OBVIOUS
<1>2. InsertUser(w) \/ UpdateUser(w)
  <2>1. OnlyWork => users' = users
    BY DEF OnlyWork, tables
  <2> QED
    BY <1>1, <2>1
    DEF Step, FindUser, MayCreateUser, GetUser, UserMade, Col, CreateCol,
        KnowCol, GetCol, ColMade, CreatePolicyIfMissing, SelectRows, GetRole,
        RoleMade, UserRole, Need, FindRoleDoc, Fork, GetDoc, UserDoc,
        InsertCol, InsertRole, AddMember, HasNoId, RemoveMember, CreateDoc,
        SetPolicy, ReplaceRows, Record, AttrDone, MayCreateCol, CreateAttr,
        tables
<1>3. Shapes /\ Top(w)
  BY <1>2, TopOf DEF IInv, Tables, InsertUser, UpdateUser
<1>4. CASE InsertUser(w)
  <2> DEFINE v == Arg(w, 1)
  <2>1. v = u /\ users[v] = NULL
    BY <1>3, <1>4 DEF InsertUser, Shapes
  <2>2. work' = Push(w, MakeUser(u, Change(w).by))
    BY <1>4, <2>1 DEF InsertUser, MakeUser
  <2>3. /\ IsProc(work[w]) /\ work[w].todo # <<>> /\ IsSeq(work[w].todo)
    BY <1>3 DEF Top
  <2> DEFINE N == Tail(work[w].todo)
             M == MakeUser(u, Change(w).by)
  <2>4. work'[w].todo = M \o N
    <3> HIDE DEF M
    <3> DEFINE q == work[w]
               new == [q EXCEPT !.todo = M \o Tail(@)]
    <3>1. work'[w] = new
      <4>1. work' = [work EXCEPT ![w] = new]
        BY <2>2 DEF Push, Now, M
      <4> HIDE DEF new
      <4> QED
        BY <1>3, <4>1 DEF Shapes
    <3>2. q = [change |-> q.change, todo |-> q.todo, users |-> q.users,
               cols |-> q.cols, docs |-> q.docs, roleId |-> q.roleId,
               got |-> q.got, role |-> q.role, seen |-> q.seen]
      BY <2>3 DEF IsProc
    <3>3. new = [change |-> q.change, todo |-> M \o Tail(q.todo),
                 users |-> q.users, cols |-> q.cols, docs |-> q.docs,
                 roleId |-> q.roleId, got |-> q.got, role |-> q.role,
                 seen |-> q.seen]
      BY <3>2, WithTodo
    <3> HIDE DEF new
    <3> QED
      BY <3>1, <3>3
  <2>5. IsSeq(<<>> \o N)
    BY <2>3, Literals, PushedSeq
  <2>6. IsSeq(N)
    <3>1. N \in Seq({work[w].todo[i] : i \in 1..Len(work[w].todo)})
      BY <2>3, SeqOfItems, HeadTailProperties
    <3> QED
      BY <3>1, SeqIsSeq
  <2> QED
    BY <2>4, <2>6
<1>5. CASE UpdateUser(w)
  <2>1. Arg(w, 1) # u
    BY <1>3, <1>5 DEF Top, Framed, Made, UpdateUser, db
  <2> QED
    BY <1>3, <1>5, <2>1 DEF UpdateUser, Shapes
<1> QED
  BY <1>2, <1>4, <1>5

LEMMA RoleIdsGrow ==
    ASSUME Shapes, Shapes', Grows(db, db'), NEW u
    PROVE  RoleIds(u) \subseteq RoleIds(u)'
<1>1. DOMAIN roles = 1..Len(roles) /\ DOMAIN roles' = 1..Len(roles')
  BY SeqOfItems DEF Shapes
<1>2. \A i \in 1..Len(roles) : i \in 1..Len(roles') /\ roles'[i] = roles[i]
  BY DEF Grows, db
<1> QED
  BY <1>1, <1>2 DEF RoleIds

(* Nobody is removed from the own implicit role.                           *)
OwnRolesKept ==
    \A c \in Everything : c.kind = "role" /\ ~c.add => c.role # c.of

LEMMA HasRoleKept ==
    ASSUME OwnRolesKept, IInv, NEW w \in Workers, Step(w), NEW u \in UUIDs,
           HasRole(u, u)
    PROVE  HasRole(u, u)'
<1>2. RoleIds(u) \subseteq RoleIds(u)'
  <2>1. CASE Fork(w)
    BY <2>1 DEF Fork, OnlyWork, tables, RoleIds
  <2>2. CASE ~Fork(w)
    BY <2>2, StepKept, RoleIdsGrow DEF IInv, Tables, Kept, Effect
  <2> QED
    BY <2>1, <2>2
<1>3. PICK m \in members : m.user = u /\ m.role \in RoleIds(u)
  BY DEF HasRole
<1>4. m \in members'
  <2>1. CASE members \subseteq members'
    BY <2>1
  <2>2. CASE RemoveMember(w)
    <3>1. Top(w) /\ Op(w) = "removeMember"
      BY <2>2, TopOf DEF RemoveMember, IInv
    <3> DEFINE c == Change(w)
    <3>2. /\ c \in Everything /\ c.kind = "role" /\ ~c.add /\ IsChange(c)
          /\ Arg(w, 1) = c.of /\ Arg(w, 2) = c.role
      BY <3>1 DEF Top, Framed
    <3>3. c.role # c.of /\ c.role \notin Reserve /\ u \notin Reserve
      BY <3>2, AccountsAssumption DEF OwnRolesKept, IsChange, Reserve
    <3>4. roles[m.role] = u
      BY <1>3, <3>3 DEF RoleIds, Reserve
    <3>5. \A id \in RoleIds(c.role) : roles[id] = c.role
      BY <3>3 DEF RoleIds, Reserve
    <3>6. \A id \in RoleIds(c.role) : m.user # c.of \/ m.role # id
      BY <1>3, <3>3, <3>4, <3>5
    <3> QED
      BY <2>2, <3>2, <3>6 DEF RemoveMember
  <2>3. members \subseteq members' \/ RemoveMember(w)
    <3>1. OnlyWork => members' = members
      BY DEF OnlyWork, tables
    <3>2. AddMember(w) => members \subseteq members'
      BY DEF AddMember
    <3> QED
      BY <3>1, <3>2
      DEF Step, FindUser, MayCreateUser, GetUser, UserMade, Col, CreateCol,
          KnowCol, GetCol, ColMade, CreatePolicyIfMissing, SelectRows,
          GetRole, RoleMade, UserRole, Need, FindRoleDoc, Fork, GetDoc,
          UserDoc, InsertCol, InsertRole, HasNoId, CreateDoc, SetPolicy,
          ReplaceRows, Record, AttrDone, MayCreateCol, CreateAttr,
          InsertUser, UpdateUser, tables
  <2> QED
    BY <2>1, <2>2, <2>3
<1> QED
  BY <1>2, <1>3, <1>4 DEF HasRole

(* Where a statement that is on the stack goes.                            *)
LEMMA Goes ==
    ASSUME NEW N, NEW T, NEW n \in Nat, NEW k \in 1..Len(T),
           Len(T) \in Nat, Rest(N, T, n, k), NEW i \in 1..Len(T), i > k
    PROVE  /\ n + (i - k) \in 1..Len(N) /\ n + (i - k) > n
           /\ N[n + (i - k)] = T[i]
           /\ i > k + 1 => /\ N[(n + (i - k)) - 1] = T[i - 1]
                           /\ i - 1 \in 1..Len(T) /\ n + (i - k) # 1
           /\ i = k + 1 => n + (i - k) = n + 1
<1>1. /\ Len(N) = n + (Len(T) - k)
      /\ \A j \in 1..(Len(T) - k) : N[n + j] = T[k + j]
  BY DEF Rest
<1>2. \A a, b, c, j \in Nat : c \in 1..b /\ j \in 1..b /\ j > c =>
        /\ j - c \in 1..(b - c) /\ c + (j - c) = j
        /\ a + (j - c) \in 1..(a + (b - c)) /\ a + (j - c) > a
        /\ j = c + 1 => a + (j - c) = a + 1
        /\ j > c + 1 => /\ (j - 1) - c \in 1..(b - c)
                        /\ c + ((j - 1) - c) = j - 1
                        /\ a + ((j - 1) - c) = (a + (j - c)) - 1
                        /\ j - 1 \in 1..b /\ a + (j - c) # 1
  OBVIOUS
<1>3. i \in Nat /\ k \in Nat
  OBVIOUS
<1>4. /\ i - k \in 1..(Len(T) - k) /\ k + (i - k) = i
      /\ n + (i - k) \in 1..Len(N) /\ n + (i - k) > n
      /\ i = k + 1 => n + (i - k) = n + 1
  BY <1>1, <1>2, <1>3
<1>5. N[n + (i - k)] = T[i]
  BY <1>1, <1>4
<1>6. ASSUME i > k + 1
      PROVE  /\ N[(n + (i - k)) - 1] = T[i - 1]
             /\ i - 1 \in 1..Len(T) /\ n + (i - k) # 1
  <2>1. /\ (i - 1) - k \in 1..(Len(T) - k) /\ k + ((i - 1) - k) = i - 1
        /\ n + ((i - 1) - k) = (n + (i - k)) - 1
        /\ i - 1 \in 1..Len(T) /\ n + (i - k) # 1
    BY <1>2, <1>3, <1>6
  <2>2. N[n + ((i - 1) - k)] = T[k + ((i - 1) - k)]
    BY <1>1, <2>1
  <2> QED
    BY <2>1, <2>2
<1> QED
  BY <1>4, <1>5, <1>6

(* Who will have the implicit role still will, unless it is refused.       *)
LEMMA Gone ==
    ASSUME NEW N, NEW T, NEW n \in Nat, NEW k \in 1..Len(T),
           Len(T) \in Nat, Rest(N, T, n, k), NEW i \in 1..Len(T), i > k
    PROVE  n + (i - k) \in 1..Len(N) /\ N[n + (i - k)] = T[i]
BY Goes

LEMMA JoinsOn ==
    ASSUME IInv, NEW w \in Workers, Effect(w), NEW i, NEW u,
           Joins(db, work[w], i, u), i # 1
    PROVE  \/ \E j : Joins(db', work'[w], j, u)
           \/ Change(w) \in log'.refused /\ u \in {Change(w).by, Change(w).of}
<1> DEFINE p == work[w]
           q == work'[w]
           T == p.todo
           N == q.todo
           r == Change(w) \in log'.refused
<1>0. /\ i \in 1..Len(T) /\ T[i][1] = "addMember" /\ T[i][2] = u
      /\ u = Given(db, T[i - 1])
  BY DEF Joins
<1>1. p # Idle /\ Good(db, p)
  BY <1>0, Literals DEF IInv, Stacks, Idle
<1>2. /\ Len(T) \in Nat
      /\ \A j \in 1..Len(T) : Framed(db, Change(w), T[j])
  BY <1>1 DEF Good, Ordered, IsSeq, Change
<1>3. PICK n \in Nat, k \in 1..Len(T) : MovesBy(db, db', p, q, r, n, k)
  BY DEF Effect, Moves
<1>4. /\ Rest(N, T, n, k)
      /\ r \/ \A j \in 2..k : T[j][1] \in Base \cup {"insertCol"}
      /\ k < Len(T) /\ T[k + 1][1] = "addMember" =>
           /\ k = 1
           /\ Given(db, T[1]) = IF n = 0 THEN db'.roles[q.role]
                                ELSE Given(db', N[n])
  BY <1>3 DEF MovesBy
<1>5. Grows(db, db')
  BY DEF Effect
<1> HIDE DEF p, q, r, T, N
<1>6. CASE i > k + 1
  <2> DEFINE j == n + (i - k)
  <2>1. /\ j \in 1..Len(N) /\ N[j] = T[i] /\ N[j - 1] = T[i - 1]
        /\ i - 1 \in 1..Len(T) /\ j # 1
    <3>1. i > k /\ i \in 1..Len(T) /\ Rest(N, T, n, k) /\ Len(T) \in Nat
      BY <1>0, <1>2, <1>4, <1>6
    <3>2. /\ n + (i - k) \in 1..Len(N) /\ N[n + (i - k)] = T[i]
          /\ N[(n + (i - k)) - 1] = T[i - 1]
          /\ i - 1 \in 1..Len(T) /\ n + (i - k) # 1
      <4>1. /\ n + (i - k) \in 1..Len(N) /\ n + (i - k) > n
            /\ N[n + (i - k)] = T[i]
            /\ i > k + 1 => /\ N[(n + (i - k)) - 1] = T[i - 1]
                            /\ i - 1 \in 1..Len(T) /\ n + (i - k) # 1
        BY <3>1, Goes
      <4> QED
        BY <1>6, <4>1
    <3> QED
      BY <3>2
  <2>2. Given(db', T[i - 1]) = Given(db, T[i - 1])
    BY <1>2, <1>5, <2>1 DEF Grows, Framed, Given
  <2> HIDE DEF j
  <2>3. Joins(db', q, j, u)
    BY <1>0, <2>1, <2>2 DEF Joins, N
  <2> QED
    BY <2>3 DEF q
<1>7. CASE i = k + 1
  <2>1. k < Len(T) /\ i > k
    BY <1>0, <1>2, <1>7
  <2>2. /\ k = 1
        /\ Given(db, T[1]) = IF n = 0 THEN db'.roles[q.role]
                             ELSE Given(db', N[n])
    BY <1>0, <1>4, <1>7, <2>1
  <2>3. n + 1 \in 1..Len(N) /\ N[n + 1] = T[i]
    <3>0. i > k /\ i \in 1..Len(T) /\ Rest(N, T, n, k) /\ Len(T) \in Nat
      BY <1>0, <1>2, <1>4, <2>1
    <3>1. /\ n + (i - k) \in 1..Len(N) /\ n + (i - k) > n
          /\ N[n + (i - k)] = T[i]
          /\ i = k + 1 => n + (i - k) = n + 1
      BY <3>0, Goes
    <3>2. n + (i - k) = n + 1
      BY <1>7, <3>1
    <3> QED
      BY <3>1, <3>2
  <2>4. i - 1 = 1 /\ (n = 0 <=> n + 1 = 1) /\ (n + 1) - 1 = n
    BY <1>7, <2>2
  <2>5. Joins(db', q, n + 1, u)
    BY <1>0, <2>2, <2>3, <2>4 DEF Joins, N
  <2> QED
    BY <2>5 DEF q
<1>8. CASE i \in 2..k
  <2>1. T[i][1] \notin Base \cup {"insertCol"}
    BY <1>0 DEF Base
  <2>2. r
    BY <1>4, <1>8, <2>1
  <2>3. u \in {Change(w).by, Change(w).of}
    BY <1>0, <1>2 DEF Framed
  <2> QED
    BY <2>2, <2>3 DEF r
<1>9. i > k + 1 \/ i = k + 1 \/ i \in 2..k
  BY <1>0, <1>2
<1> QED
  BY <1>6, <1>7, <1>8, <1>9

LEMMA JoinsNow ==
    ASSUME IInv, NEW w \in Workers, Step(w), NEW u \in UUIDs,
           Joins(db, work[w], 1, u)
    PROVE  HasRole(u, u)' \/ \E c \in log'.refused : u \in {c.by, c.of}
<1>1. work[w].todo[1][1] = "addMember" /\ work[w].todo # <<>>
  <2>1. 1 \in 1..Len(work[w].todo)
    BY DEF Joins
  <2> QED
    BY <2>1, Literals DEF Joins
<1>2. Good(db, work[w]) /\ work[w] # Idle
  BY <1>1 DEF IInv, Stacks, Idle
<1>3. Op(w) = "addMember"
  <2>1. IsSeq(work[w].todo)
    BY <1>2 DEF Good, Ordered
  <2> QED
    BY <1>1, <2>1, PushedSeq DEF Op
<1>4. Top(w) /\ Shapes
  BY <1>3, TopOf DEF IInv, Tables
<1>5. AddMember(w) \/ HasNoId(w)
  BY <1>3 DEF Step, FindUser, MayCreateUser, GetUser, UserMade, Col,
      CreateCol, KnowCol, GetCol, ColMade, CreatePolicyIfMissing, SelectRows,
      GetRole, RoleMade, UserRole, Need, FindRoleDoc, Fork, GetDoc, UserDoc,
      InsertCol, InsertRole, RemoveMember, CreateDoc, SetPolicy, ReplaceRows,
      Record, AttrDone, MayCreateCol, CreateAttr, InsertUser, UpdateUser
<1>6. CASE HasNoId(w)
  <2>1. Change(w) \in log'.refused
    BY <1>4, <1>6 DEF HasNoId, Shapes
  <2>2. Arg(w, 1) = u
    BY <1>4 DEF Top, Joins
  <2>3. u \in {Change(w).by, Change(w).of}
    BY <1>3, <1>4, <2>2 DEF Top, Framed
  <2> QED
    BY <2>1, <2>3
<1>7. CASE AddMember(w)
  <2> DEFINE id == work[w].role
  <2>1. Arg(w, 1) = u /\ roles[id] = u /\ id \in DOMAIN roles
    BY <1>4, SeqOfItems DEF Top, Joins, Ready, db, Shapes
  <2>2. \E m \in members' : m.user = u /\ m.role = id
    <3> DEFINE doc == IF \E d \in docs : d.id = Arg(w, 2) THEN Arg(w, 2)
                      ELSE NULL
               row == [user |-> Arg(w, 1), role |-> id, doc |-> doc]
    <3>1. \/ \E m \in members : m.user = Arg(w, 1) /\ m.role = row.role
             /\ members' = members
          \/ members' = members \cup {row}
      BY <1>7 DEF AddMember
    <3>2. row.user = Arg(w, 1) /\ row.role = id
      OBVIOUS
    <3> HIDE DEF row, id
    <3> QED
      BY <2>1, <3>1, <3>2
  <2>3. id \in RoleIds(u)'
    <3>1. roles' = roles
      BY <1>7 DEF AddMember
    <3>2. u \notin {OWNER, EVERYONE}
      BY AccountsAssumption
    <3> QED
      BY <2>1, <3>1, <3>2 DEF RoleIds
  <2> QED
    BY <2>2, <2>3 DEF HasRole
<1> QED
  BY <1>5, <1>6, <1>7

LEMMA JoinsElsewhere ==
    ASSUME IInv, NEW v \in Workers, work'[v] = work[v], Grows(db, db'),
           NEW i, NEW u, Joins(db, work[v], i, u)
    PROVE  Joins(db', work'[v], i, u)
<1> DEFINE p == work[v]
           T == p.todo
<1>0. i \in 1..Len(T) /\ T[i][1] = "addMember" /\ T[i][2] = u
  BY DEF Joins
<1>1. p # Idle /\ Good(db, p)
  BY <1>0, Literals DEF IInv, Stacks, Idle
<1>2. /\ Len(T) \in Nat /\ Ready(db, p, T[1])
      /\ \A j \in 1..Len(T) : Framed(db, p.change, T[j])
  BY <1>1 DEF Good, Ordered, IsSeq
<1> HIDE DEF T
<1>3. CASE i = 1
  <2>1. p.role \in 1..Len(db.roles)
    BY <1>0, <1>2, <1>3 DEF Ready
  <2> QED
    BY <1>3, <2>1 DEF Joins, Grows
<1>4. CASE i # 1
  <2>1. i - 1 \in 1..Len(T)
    BY <1>0, <1>2, <1>4
  <2>2. Given(db', T[i - 1]) = Given(db, T[i - 1])
    BY <1>2, <2>1 DEF Grows, Framed, Given
  <2> QED
    BY <1>4, <2>2 DEF Joins, T
<1> QED
  BY <1>3, <1>4

LEMMA CompleteStep ==
    ASSUME OwnRolesKept, IInv, Complete, NEW w \in Workers, Step(w), ~Fork(w)
    PROVE  Complete'
<1>1. Kept(w) /\ Effect(w) /\ Grows(db, db')
  BY StepKept DEF Kept, Effect
<1>2. log'.crashed = log.crashed /\ log.refused \subseteq log'.refused
  BY LogGrows
<1>3. ASSUME NEW u \in UUIDs, users[u] = NULL, users'[u] # NULL
      PROVE  Joins(db', work'[w], 4, u)
  <2> DEFINE M == MakeUser(u, Change(w).by)
  <2>1. PICK N : work'[w].todo = M \o N /\ IsSeq(N)
    BY <1>3, NewUsers
  <2>2. /\ IsSeq(M) /\ Len(M) = 5 /\ M[3] = <<"getRole", u, Nobody, u>>
        /\ M[4] = <<"addMember", u, RoleDocOf(u)>>
    BY MakeUserItems
  <2> HIDE DEF M
  <2>3. /\ Len(M \o N) = 5 + Len(N) /\ Len(N) \in Nat
        /\ (M \o N)[3] = M[3] /\ (M \o N)[4] = M[4]
    <3>1. 3 \in 1..5 /\ 4 \in 1..5
      OBVIOUS
    <3>2. Len(N) \in Nat
      BY <2>1 DEF IsSeq
    <3>3. IsSeq(M) /\ IsSeq(N)
      BY <2>1, <2>2
    <3>4. /\ Len(M \o N) = Len(M) + Len(N)
          /\ \A i \in 1..Len(M) : (M \o N)[i] = M[i]
      BY <3>3, JoinedSeq
    <3> QED
      BY <2>2, <3>1, <3>2, <3>4
  <2>4. 4 \in 1..Len(M \o N) /\ 4 - 1 = 3
    BY <2>3
  <2> QED
    BY <2>1, <2>2, <2>3, <2>4 DEF Joins, Given
<1>4. ASSUME NEW v \in Workers, NEW i \in 1..Len(work[v].todo),
             NEW u \in UUIDs, Joins(db, work[v], i, u)
      PROVE  \/ HasRole(u, u)'
             \/ \E c \in log'.refused : u \in {c.by, c.of}
             \/ \E x \in Workers : \E j : Joins(db', work'[x], j, u)
  <2>1. CASE v # w
    <3>1. work'[v] = work[v]
      BY <1>1, <2>1, WorkShape DEF Effect, IInv, Tables
    <3> QED
      BY <1>1, <1>4, <3>1, JoinsElsewhere
  <2>2. CASE v = w /\ i = 1
    BY <1>4, <2>2, JoinsNow
  <2>3. CASE v = w /\ i # 1
    BY <1>1, <1>4, <2>3, JoinsOn
  <2> QED
    BY <2>1, <2>2, <2>3
<1>5. \A x \in Workers : \A j, u :
        Joins(db', work'[x], j, u) => j \in 1..Len(work'[x].todo)
  BY DEF Joins
<1>6. ASSUME NEW u \in UUIDs, users'[u] # NULL
      PROVE  \/ log'.crashed \/ HasRole(u, u)'
             \/ \E c \in log'.refused : u \in {c.by, c.of}
             \/ \E x \in Workers : \E j \in 1..Len(work'[x].todo) :
                  Joins(db', work'[x], j, u)
  <2>1. CASE users[u] = NULL
    BY <1>3, <1>5, <1>6, <2>1
  <2>2. CASE users[u] # NULL
    <3>1. CASE log.crashed
      BY <1>2, <3>1
    <3>2. CASE HasRole(u, u)
      BY <3>2, HasRoleKept
    <3>3. CASE \E c \in log.refused : u \in {c.by, c.of}
      BY <1>2, <3>3
    <3>4. CASE \E v \in Workers : \E i \in 1..Len(work[v].todo) :
                 Joins(db, work[v], i, u)
      BY <1>4, <1>5, <3>4
    <3> QED
      BY <2>2, <3>1, <3>2, <3>3, <3>4 DEF Complete
  <2> QED
    BY <2>1, <2>2
<1> QED
  BY <1>6 DEF Complete

(* Nothing of what a change needs is still to be done when it is split.    *)
LEMMA ForkLeaves ==
    ASSUME IInv, NEW w \in Workers, Fork(w), NEW v \in Workers,
           NEW i \in 1..Len(work[v].todo), work[v].todo[i][1] \notin Base
    PROVE  work'[v] = work[v]
<1> DEFINE T == work[w].todo
<1>1. /\ Top(w) /\ work[Twin(w)] = Idle
      /\ \A x \in Workers \ {w, Twin(w)} : work'[x] = work[x]
  BY Forked
<1>2. v # Twin(w)
  BY <1>1, Literals DEF Idle
<1>3. v # w
  <2>1. T[1][1] \in Base /\ Len(T) \in Nat
    BY <1>1 DEF Fork, Top, Base, IsSeq
  <2>2. \A x, y \in 1..Len(T) :
          x < y /\ T[x][1] \in Base => T[y][1] \in Base
    BY <1>1 DEF Top, Good, Ordered
  <2> HIDE DEF T
  <2>3. ASSUME v = w PROVE FALSE
    <3>1. i \in 1..Len(T) /\ T[i][1] \notin Base
      BY <2>3 DEF T
    <3>2. 1 \in 1..Len(T) /\ (i = 1 \/ 1 < i)
      BY <2>1, <3>1
    <3> QED
      BY <2>1, <2>2, <3>1, <3>2
  <2> QED
    BY <2>3
<1> QED
  BY <1>1, <1>2, <1>3

(* ... nor when a change is taken.                                         *)
LEMMA TakeLeaves ==
    ASSUME IInv, NEW w \in Workers, NEW c, Take(w, c)
    PROVE  /\ UNCHANGED tables
           /\ log'.refused = log.refused /\ log'.crashed = log.crashed
           /\ \A v \in Workers : \A i : i \in 1..Len(work[v].todo)
                => v # w /\ work'[v] = work[v]
<1>1. Shapes
  BY DEF IInv, Tables
<1>2. log'.refused = log.refused /\ log'.crashed = log.crashed
  BY <1>1 DEF Take, Shapes
<1>3. /\ work[w] = Idle /\ UNCHANGED tables
      /\ \A v \in Workers : v # w => work'[v] = work[v]
  BY <1>1 DEF Take, Shapes
<1>4. \A i : i \notin 1..Len(work[w].todo)
  BY <1>3, Literals DEF Idle
<1> QED
  BY <1>2, <1>3, <1>4

LEMMA CompleteSame ==
    ASSUME IInv, Complete, UNCHANGED tables,
           log'.refused = log.refused, log'.crashed = log.crashed,
           \A v \in Workers : \A i \in 1..Len(work[v].todo) :
             work[v].todo[i][1] = "addMember" => work'[v] = work[v]
    PROVE  Complete'
<1>1. \A u : HasRole(u, u)' <=> HasRole(u, u)
  BY DEF HasRole, RoleIds, tables
<1>2. db' = db /\ users' = users
  BY DEF db, tables
<1>3. ASSUME NEW v \in Workers, NEW i \in 1..Len(work[v].todo), NEW u,
             Joins(db, work[v], i, u)
      PROVE  Joins(db', work'[v], i, u) /\ i \in 1..Len(work'[v].todo)
  <2>1. work'[v] = work[v]
    BY <1>3 DEF Joins
  <2> QED
    BY <1>2, <1>3, <2>1
<1> QED
  BY <1>1, <1>2, <1>3 DEF Complete

LEMMA CompleteNext ==
    ASSUME OwnRolesKept, IInv, Complete, [Next]_vars
    PROVE  Complete'
<1>1. CASE UNCHANGED <<tables, work, log>>
  <2>1. db' = db
    BY <1>1 DEF db, tables
  <2>2. \A u : HasRole(u, u)' <=> HasRole(u, u)
    BY <1>1 DEF HasRole, RoleIds, tables
  <2> QED
    BY <1>1, <2>1, <2>2 DEF Complete, tables
<1>2. ASSUME NEW w \in Workers, Crash(w) PROVE Complete'
  <2>1. log'.crashed = TRUE
    BY <1>2 DEF Crash, IInv, Tables, Shapes
  <2> QED
    BY <2>1 DEF Complete
<1>3. ASSUME NEW w \in Workers, NEW c, Take(w, c)
      PROVE  Complete'
  <2>1. /\ UNCHANGED tables
        /\ log'.refused = log.refused /\ log'.crashed = log.crashed
        /\ \A v \in Workers : \A i : i \in 1..Len(work[v].todo)
             => v # w /\ work'[v] = work[v]
    BY <1>3, TakeLeaves
  <2> QED
    BY <2>1, CompleteSame
<1>4. ASSUME NEW w \in Workers, Fork(w)
      PROVE  Complete'
  <2>1. UNCHANGED <<tables, log>>
    BY <1>4 DEF Fork, OnlyWork
  <2>2. ASSUME NEW v \in Workers, NEW i \in 1..Len(work[v].todo),
               work[v].todo[i][1] = "addMember"
        PROVE  work'[v] = work[v]
    <3>1. work[v].todo[i][1] \notin Base
      BY <2>2 DEF Base
    <3> QED
      BY <1>4, <3>1, ForkLeaves
  <2> QED
    BY <2>1, <2>2, CompleteSame
<1>5. Queue => UNCHANGED <<tables, work, log>>
  BY DEF Queue
<1>6. UNCHANGED vars => UNCHANGED <<tables, work, log>>
  BY DEF vars, tables
<1> QED
  BY <1>1, <1>2, <1>3, <1>4, <1>5, <1>6, CompleteStep DEF Next

(* When all is idle and no process has died, every user has the implicit   *)
(* role, unless a change of the user was refused, however processes race   *)
(* to insert the user, if nobody is removed from the own implicit role: a  *)
(* step that an error skips is never the one that gives a user the role    *)
(* (users.js:164-218, cols.js:115).                                        *)
THEOREM ImplicitRolesGiven ==
    ASSUME OwnRolesKept
    PROVE  Spec => []UsersComplete
<1>1. Init => Complete
  BY DEF Init, Complete
<1>2. IInv /\ Complete /\ [Next]_vars => Complete'
  BY CompleteNext
<1>3. Complete => UsersComplete
  <2> SUFFICES ASSUME Complete, AllIdle, ~log.crashed, NEW u \in UUIDs,
                      users[u] # NULL
               PROVE  \/ HasRole(u, u)
                      \/ \E c \in log.refused : u \in {c.by, c.of}
    BY DEF UsersComplete
  <2>1. \A w \in Workers : 1..Len(work[w].todo) = {}
    <3>1. Idle.todo = <<>> /\ 1..0 = {}
      BY DEF Idle
    <3> QED
      BY <3>1, Literals DEF AllIdle
  <2> QED
    BY <2>1 DEF Complete
<1> QED
  BY <1>1, <1>2, <1>3, Invariant, PTL DEF Spec

-----------------------------------------------------------------------------
(* Every collection of an application has a policy, or will have one.      *)
RulesGiven ==
    \A c \in Everything : c.kind = "policy" => c.rule # {}

(* Only selectRows reads the rows of a policy.                             *)
SeenSame(w) == work'[w] = Idle \/ work'[w].seen = work[w].seen
SetsOther(w, x, S) ==
    \/ work' = Now(w, [work[w] EXCEPT !.users = x], S)
    \/ work' = Now(w, [work[w] EXCEPT !.cols = x], S)
    \/ work' = Now(w, [work[w] EXCEPT !.docs = x], S)
    \/ work' = Now(w, [work[w] EXCEPT !.roleId = x], S)
    \/ work' = Now(w, [work[w] EXCEPT !.got = x], S)
    \/ work' = Now(w, [work[w] EXCEPT !.role = x], S)

LEMMA SeenNow ==
    ASSUME Shapes, NEW w \in Workers, NEW q, IsProc(q),
           q.seen = work[w].seen, NEW S, work' = Now(w, q, S)
    PROVE  SeenSame(w)
<1> DEFINE new == [q EXCEPT !.todo = S \o Tail(@)]
<1>1. work' = [work EXCEPT ![w] = new]
  BY DEF Now
<1>2. q = [change |-> q.change, todo |-> q.todo, users |-> q.users,
           cols |-> q.cols, docs |-> q.docs, roleId |-> q.roleId,
           got |-> q.got, role |-> q.role, seen |-> q.seen]
  BY DEF IsProc
<1>3. new = [change |-> q.change, todo |-> S \o Tail(q.todo),
             users |-> q.users, cols |-> q.cols, docs |-> q.docs,
             roleId |-> q.roleId, got |-> q.got, role |-> q.role,
             seen |-> q.seen]
  BY <1>2, WithTodo
<1> HIDE DEF new
<1>4. new.seen = q.seen
  BY <1>3
<1>5. work'[w] = new
  BY <1>1 DEF Shapes
<1> QED
  BY <1>4, <1>5 DEF SeenSame

LEMMA SeenPushed ==
    ASSUME Shapes, NEW w \in Workers, IsProc(work[w])
    PROVE  /\ \A S : work' = Push(w, S) => SeenSame(w)
           /\ work' = Return(w) => SeenSame(w)
           /\ work' = Raise(w) => SeenSame(w)
           /\ \A x, S : SetsOther(w, x, S) => SeenSame(w)
<1> DEFINE p == work[w]
<1>1. ASSUME NEW S, work' = Push(w, S) PROVE SeenSame(w)
  BY <1>1, SeenNow DEF Push
<1>2. ASSUME work' = Raise(w) PROVE SeenSame(w)
  <2>1. PICK rest :
          work' = [work EXCEPT ![w] = IF rest = <<>> THEN Idle
                                      ELSE [@ EXCEPT !.todo = rest]]
    BY <1>2 DEF Raise
  <2>2. work'[w] = IF rest = <<>> THEN Idle ELSE [p EXCEPT !.todo = rest]
    BY <2>1 DEF Shapes
  <2>3. [p EXCEPT !.todo = rest].seen = p.seen
    BY DEF IsProc
  <2> QED
    BY <2>2, <2>3 DEF SeenSame
<1>3. ASSUME NEW x, NEW S, SetsOther(w, x, S) PROVE SeenSame(w)
  <2> DEFINE q1 == [p EXCEPT !.users = x]
             q2 == [p EXCEPT !.cols = x]
             q3 == [p EXCEPT !.docs = x]
             q4 == [p EXCEPT !.roleId = x]
             q5 == [p EXCEPT !.got = x]
             q6 == [p EXCEPT !.role = x]
  <2>1. IsProc(q1) /\ q1.seen = p.seen
    BY DEF IsProc
  <2>2. IsProc(q2) /\ q2.seen = p.seen
    BY DEF IsProc
  <2>3. IsProc(q3) /\ q3.seen = p.seen
    BY DEF IsProc
  <2>4. IsProc(q4) /\ q4.seen = p.seen
    BY DEF IsProc
  <2>5. IsProc(q5) /\ q5.seen = p.seen
    BY DEF IsProc
  <2>6. IsProc(q6) /\ q6.seen = p.seen
    BY DEF IsProc
  <2>7. \/ work' = Now(w, q1, S) \/ work' = Now(w, q2, S)
        \/ work' = Now(w, q3, S) \/ work' = Now(w, q4, S)
        \/ work' = Now(w, q5, S) \/ work' = Now(w, q6, S)
    BY <1>3 DEF SetsOther
  <2> HIDE DEF q1, q2, q3, q4, q5, q6
  <2> QED
    BY <2>1, <2>2, <2>3, <2>4, <2>5, <2>6, <2>7, SeenNow
<1> QED
  BY <1>1, <1>2, <1>3 DEF Return

LEMMA StepsOn ==
    ASSUME NEW w \in Workers, Step(w)
    PROVE  Op(w) # "none"
BY DEF Step, FindUser, MayCreateUser, GetUser, InsertUser, UserDoc,
   UserMade, UpdateUser, Col, CreateCol, KnowCol, GetCol, InsertCol, ColMade,
   CreatePolicyIfMissing, SelectRows, ReplaceRows, GetRole, InsertRole,
   RoleMade, MayCreateCol, AddMember, RemoveMember, HasNoId, MissingId,
   UserRole, Need, FindRoleDoc, Fork, GetDoc, CreateDoc, CreateAttr, Record,
   SetPolicy, AttrDone

LEMMA SeenKept ==
    ASSUME IInv, NEW w \in Workers, Step(w)
    PROVE  SeenSame(w) \/ SelectRows(w)
<1>1. Op(w) # "none"
  BY StepsOn
<1>2. Shapes /\ IsProc(work[w])
  BY <1>1, TopOf DEF IInv, Tables, Top
<1>3. /\ \A S : work' = Push(w, S) => SeenSame(w)
      /\ work' = Return(w) => SeenSame(w)
      /\ work' = Raise(w) => SeenSame(w)
      /\ \A x, S : SetsOther(w, x, S) => SeenSame(w)
  BY <1>2, SeenPushed
<1>4. \A x, S :
        /\ work' = Now(w, [work[w] EXCEPT !.users = x], S)
           => SetsOther(w, x, S)
        /\ work' = Now(w, [work[w] EXCEPT !.cols = x], S)
           => SetsOther(w, x, S)
        /\ work' = Now(w, [work[w] EXCEPT !.docs = x], S)
           => SetsOther(w, x, S)
        /\ work' = Now(w, [work[w] EXCEPT !.roleId = x], S)
           => SetsOther(w, x, S)
        /\ work' = Now(w, [work[w] EXCEPT !.got = x], S)
           => SetsOther(w, x, S)
        /\ work' = Now(w, [work[w] EXCEPT !.role = x], S)
           => SetsOther(w, x, S)
  BY DEF SetsOther
<1>5. CASE FindUser(w)
  BY <1>3, <1>4, <1>5 DEF FindUser
<1>6. CASE MayCreateUser(w)
  BY <1>3, <1>4, <1>6 DEF MayCreateUser
<1>7. CASE GetUser(w) \/ UserMade(w)
  BY <1>3, <1>4, <1>7 DEF GetUser, UserMade, UserKnown
<1>8. CASE InsertUser(w)
  BY <1>3, <1>4, <1>8 DEF InsertUser, UserKnown
<1>9. CASE UserDoc(w) \/ UpdateUser(w) \/ CreateCol(w) \/ InsertCol(w)
  BY <1>3, <1>9 DEF UserDoc, UpdateUser, CreateCol, InsertCol
<1>10. CASE Col(w)
  BY <1>3, <1>4, <1>10 DEF Col
<1>11. CASE KnowCol(w)
  BY <1>3, <1>4, <1>11 DEF KnowCol
<1>12. CASE GetCol(w)
  BY <1>3, <1>4, <1>12 DEF GetCol
<1>13. CASE ColMade(w)
  BY <1>3, <1>4, <1>13 DEF ColMade
<1>14. CASE CreatePolicyIfMissing(w) \/ ReplaceRows(w)
  BY <1>3, <1>14 DEF CreatePolicyIfMissing, Installs, ReplaceRows
<1>15. CASE GetRole(w)
  BY <1>3, <1>4, <1>15 DEF GetRole, RoleFound
<1>16. CASE RoleMade(w)
  BY <1>3, <1>4, <1>16 DEF RoleMade, RoleFound
<1>17. CASE InsertRole(w) \/ MayCreateCol(w) \/ AddMember(w) \/ Need(w)
  BY <1>3, <1>17 DEF InsertRole, MayCreateCol, AddMember, Need
<1>18. CASE \/ RemoveMember(w) \/ HasNoId(w) \/ CreateAttr(w)
            \/ Record(w) \/ SetPolicy(w)
  BY <1>3, <1>18 DEF RemoveMember, HasNoId, CreateAttr, Record, SetPolicy
<1>19. CASE UserRole(w)
  BY <1>3, <1>4, <1>19 DEF UserRole
<1>20. CASE FindRoleDoc(w)
  BY <1>3, <1>20 DEF FindRoleDoc
<1>21. CASE GetDoc(w)
  BY <1>3, <1>4, <1>21 DEF GetDoc, DocKnown
<1>22. CASE CreateDoc(w)
  BY <1>3, <1>4, <1>22 DEF CreateDoc, DocKnown
<1>23. CASE AttrDone(w)
  BY <1>2, <1>23 DEF AttrDone, Shapes, SeenSame
<1>24. CASE Fork(w)
  BY <1>24, Forked DEF IsHalf, SeenSame
<1> QED
  BY <1>5, <1>6, <1>7, <1>8, <1>9, <1>10, <1>11, <1>12, <1>13, <1>14, <1>15,
     <1>16, <1>17, <1>18, <1>19, <1>20, <1>21, <1>22, <1>23, <1>24 DEF Step

LEMMA SeenStep ==
    ASSUME IInv, Seen, NEW w \in Workers, Step(w), ~Fork(w),
           \A col : HasPolicy(colRoles, col) => HasPolicy(colRoles', col)
    PROVE  Seen'
<1>1. Effect(w)
  BY StepKept DEF Kept
<1>2. \A v \in Workers : v # w => work'[v] = work[v]
  BY <1>1, WorkShape DEF Effect, IInv, Tables
<1>3. ASSUME work'[w] # Idle, NEW r \in work'[w].seen
      PROVE  HasPolicy(colRoles', r.col)
  <2>1. CASE SeenSame(w)
    <3>1. work'[w].seen = work[w].seen
      BY <1>3, <2>1 DEF SeenSame
    <3>2. work[w] # Idle
      <4>1. Op(w) # "none"
        BY StepsOn
      <4> QED
        BY <4>1, TopOf DEF IInv, Top
    <3> QED
      BY <1>3, <3>1, <3>2 DEF Seen
  <2>2. CASE SelectRows(w)
    <3> DEFINE rows == RowsOf(Arg(w, 1))
               q == [work[w] EXCEPT !.seen = rows]
               new == [q EXCEPT !.todo = <<>> \o Tail(@)]
    <3>1. work' = [work EXCEPT ![w] = new]
      BY <2>2 DEF SelectRows, Now
    <3>2. IsProc(work[w]) /\ Shapes
      BY <2>2, TopOf DEF IInv, Tables, SelectRows, Top
    <3>3. new.seen = rows
      <4> HIDE DEF rows
      <4>1. q = [change |-> q.change, todo |-> q.todo, users |-> q.users,
                 cols |-> q.cols, docs |-> q.docs, roleId |-> q.roleId,
                 got |-> q.got, role |-> q.role, seen |-> q.seen]
            /\ q.seen = rows
        BY <3>2 DEF IsProc
      <4> HIDE DEF q
      <4>2. new = [change |-> q.change, todo |-> <<>> \o Tail(q.todo),
                   users |-> q.users, cols |-> q.cols, docs |-> q.docs,
                   roleId |-> q.roleId, got |-> q.got, role |-> q.role,
                   seen |-> q.seen]
        BY <4>1, WithTodo
      <4> QED
        BY <4>1, <4>2
    <3> HIDE DEF new
    <3>4. r \in colRoles
      BY <1>3, <3>1, <3>2, <3>3 DEF Shapes, RowsOf
    <3> QED
      BY <3>4 DEF HasPolicy
  <2> QED
    BY <2>1, <2>2, SeenKept
<1> QED
  BY <1>2, <1>3 DEF Seen

LEMMA ReplacedRows ==
    ASSUME IInv, Seen, NEW w \in Workers, ReplaceRows(w)
    PROVE  HasPolicy(colRoles', Arg(w, 1))
<1>1. Top(w) /\ Op(w) = "replaceRows"
  BY TopOf DEF IInv, ReplaceRows
<1> DEFINE col == Arg(w, 1)
           seen == work[w].seen
           row == [col |-> col, name |-> NULL, role |-> work[w].role,
                   action |-> CREATE]
           rows == DefaultRows(col, work[w].role)
<1>2. row \in rows /\ row.col = col
  BY DEF DefaultRows, Actions
<1>3. colRoles' = colRoles \cup (rows \ seen)
  BY DEF ReplaceRows
<1>4. row \in seen => HasPolicy(colRoles, row.col)
  BY <1>1 DEF Seen, Top
<1> HIDE DEF rows, row, col
<1>5. CASE row \in seen
  BY <1>2, <1>3, <1>4, <1>5 DEF HasPolicy, col
<1>6. CASE row \notin seen
  BY <1>2, <1>3, <1>6 DEF HasPolicy, col
<1> QED
  BY <1>5, <1>6

LEMMA PoliciesLast ==
    ASSUME RulesGiven, IInv, NEW w \in Workers, Step(w), NEW col,
           HasPolicy(colRoles, col)
    PROVE  HasPolicy(colRoles', col)
<1>1. CASE colRoles \subseteq colRoles'
  BY <1>1 DEF HasPolicy
<1>2. CASE SetPolicy(w)
  <2>1. Top(w) /\ Op(w) = "setPolicy"
    BY <1>2, TopOf DEF IInv, SetPolicy
  <2> DEFINE c == Change(w)
             id(uuid) == IF uuid = c.role THEN work[w].role ELSE uuid
             row(p) == [col |-> Arg(w, 1), name |-> NULL, role |-> id(p[2]),
                        action |-> p[1]]
  <2>2. c.rule # {}
    BY <2>1 DEF Top, Framed, RulesGiven
  <2>3. PICK p : p \in c.rule
    BY <2>2
  <2>4. colRoles' = (colRoles \ RowsOf(Arg(w, 1))) \cup
                      {row(p2) : p2 \in c.rule}
    BY <1>2 DEF SetPolicy
  <2>5. row(p).col = Arg(w, 1)
    OBVIOUS
  <2> HIDE DEF row, c
  <2>6. row(p) \in colRoles'
    BY <2>3, <2>4
  <2>7. CASE col = Arg(w, 1)
    BY <2>5, <2>6, <2>7 DEF HasPolicy
  <2>8. CASE col # Arg(w, 1)
    BY <2>4, <2>8 DEF HasPolicy, RowsOf
  <2> QED
    BY <2>7, <2>8
<1>3. colRoles \subseteq colRoles' \/ SetPolicy(w)
  <2>1. OnlyWork => colRoles' = colRoles
    BY DEF OnlyWork, tables
  <2>2. ReplaceRows(w) => colRoles \subseteq colRoles'
    BY DEF ReplaceRows
  <2> QED
    BY <2>1, <2>2
    DEF Step, FindUser, MayCreateUser, GetUser, UserMade, Col, CreateCol,
        KnowCol, GetCol, ColMade, CreatePolicyIfMissing, SelectRows, GetRole,
        RoleMade, UserRole, Need, FindRoleDoc, Fork, GetDoc, UserDoc,
        InsertCol, InsertRole, AddMember, HasNoId, RemoveMember, CreateDoc,
        Record, AttrDone, MayCreateCol, CreateAttr, InsertUser, UpdateUser,
        tables
<1> QED
  BY <1>1, <1>2, <1>3

LEMMA PushedItems ==
    ASSUME Shapes, NEW w \in Workers, Top(w), NEW S, IsSeq(S),
           work' = Push(w, S)
    PROVE  \A i \in 1..Len(S) : i \in 1..Len(work'[w].todo)
                                /\ work'[w].todo[i] = S[i]
<1> DEFINE q == work[w]
           new == [q EXCEPT !.todo = S \o Tail(@)]
<1>1. work' = [work EXCEPT ![w] = new]
  BY DEF Push, Now
<1>2. q = [change |-> q.change, todo |-> q.todo, users |-> q.users,
           cols |-> q.cols, docs |-> q.docs, roleId |-> q.roleId,
           got |-> q.got, role |-> q.role, seen |-> q.seen]
  BY DEF Top, IsProc
<1>3. new = [change |-> q.change, todo |-> S \o Tail(q.todo),
             users |-> q.users, cols |-> q.cols, docs |-> q.docs,
             roleId |-> q.roleId, got |-> q.got, role |-> q.role,
             seen |-> q.seen]
  BY <1>2, WithTodo
<1> HIDE DEF new
<1>4. work'[w].todo = S \o Tail(q.todo)
  BY <1>1, <1>3 DEF Shapes
<1> DEFINE T == q.todo
           N == S \o Tail(T)
<1>5. IsSeq(T) /\ T # <<>>
  BY DEF Top
<1>6. /\ Len(S) \in Nat /\ Len(T) \in Nat /\ Len(T) >= 1
      /\ Rest(N, T, Len(S), 1) /\ \A i \in 1..Len(S) : N[i] = S[i]
  <2> HIDE DEF T
  <2> QED
    BY <1>5, PushedSeq
<1>7. Len(N) = Len(S) + (Len(T) - 1)
  BY <1>6 DEF Rest
<1> HIDE DEF N, T
<1>8. \A i \in 1..Len(S) : i \in 1..Len(N)
  BY <1>6, <1>7
<1> QED
  BY <1>4, <1>6, <1>8 DEF N, T

(* Who will set the policy still will, unless the change is refused.       *)
LEMMA InstallingOn ==
    ASSUME IInv, NEW w \in Workers, Effect(w), NEW i, NEW col, OfApp(col),
           Installing(work[w].todo, i, col), i # 1
    PROVE  \/ \E j : Installing(work'[w].todo, j, col)
           \/ Change(w) \in log'.refused /\ Change(w).col = col
<1> DEFINE p == work[w]
           q == work'[w]
           T == p.todo
           N == q.todo
           r == Change(w) \in log'.refused
<1>0. /\ i \in 1..Len(T) /\ T[i][1] \in {"hasPolicy", "replaceRows"}
      /\ T[i][2] = col
  BY DEF Installing
<1>1. p # Idle /\ Good(db, p)
  BY <1>0, Literals DEF IInv, Stacks, Idle
<1>2. /\ Len(T) \in Nat
      /\ \A j \in 1..Len(T) : Framed(db, Change(w), T[j])
  BY <1>1 DEF Good, Ordered, IsSeq, Change
<1>3. PICK n \in Nat, k \in 1..Len(T) : MovesBy(db, db', p, q, r, n, k)
  BY DEF Effect, Moves
<1>4. /\ Rest(N, T, n, k)
      /\ r \/ \A j \in 2..k : T[j][1] \in Base \cup {"insertCol"}
  BY <1>3 DEF MovesBy
<1> HIDE DEF p, q, r, T, N
<1>5. CASE i > k
  <2>1. /\ n + (i - k) \in 1..Len(N) /\ N[n + (i - k)] = T[i]
    <3>1. Len(T) \in Nat /\ i \in 1..Len(T) /\ Rest(N, T, n, k)
      BY <1>0, <1>2, <1>4
    <3> QED
      BY <1>5, <3>1, Gone
  <2>2. Installing(N, n + (i - k), col)
    BY <1>0, <2>1 DEF Installing
  <2> QED
    BY <2>2 DEF N, q
<1>6. CASE i \in 2..k
  <2>1. T[i][1] \notin Base \cup {"insertCol"}
    BY <1>0 DEF Base
  <2>2. r
    BY <1>4, <1>6, <2>1
  <2>3. Change(w).col = col
    BY <1>0, <1>2 DEF Framed, ColKnown, About
  <2> QED
    BY <2>2, <2>3 DEF r
<1>7. i > k \/ i \in 2..k
  BY <1>0, <1>2
<1> QED
  BY <1>5, <1>6, <1>7

LEMMA InstallingNow ==
    ASSUME IInv, Seen, NEW w \in Workers, Step(w), NEW col,
           Installing(work[w].todo, 1, col)
    PROVE  \/ HasPolicy(colRoles', col)
           \/ \E j : Installing(work'[w].todo, j, col)
<1>1. /\ work[w].todo # <<>>
      /\ work[w].todo[1][1] \in {"hasPolicy", "replaceRows"}
  <2>1. 1 \in 1..Len(work[w].todo)
    BY DEF Installing
  <2> QED
    BY <2>1, Literals DEF Installing
<1>2. Good(db, work[w]) /\ work[w] # Idle
  BY <1>1 DEF IInv, Stacks, Idle
<1>3. Op(w) \in {"hasPolicy", "replaceRows"}
  <2>1. IsSeq(work[w].todo)
    BY <1>2 DEF Good, Ordered
  <2> QED
    BY <1>1, <2>1, PushedSeq DEF Op
<1>4. Top(w) /\ Shapes
  BY <1>3, TopOf DEF IInv, Tables
<1>5. Arg(w, 1) = col
  BY <1>4 DEF Top, Installing
<1>6. ReplaceRows(w) \/ CreatePolicyIfMissing(w)
  BY <1>3 DEF Step, FindUser, MayCreateUser, GetUser, UserMade, Col,
      CreateCol, KnowCol, GetCol, ColMade, AddMember, SelectRows,
      GetRole, RoleMade, UserRole, Need, FindRoleDoc, Fork, GetDoc, UserDoc,
      InsertCol, InsertRole, RemoveMember, HasNoId, MissingId, CreateDoc,
      SetPolicy, Record, AttrDone, MayCreateCol, CreateAttr, InsertUser,
      UpdateUser
<1>7. CASE ReplaceRows(w)
  BY <1>5, <1>7, ReplacedRows
<1>8. CASE CreatePolicyIfMissing(w)
  <2>1. CASE HasPolicy(colRoles, col)
    BY <1>8, <2>1 DEF CreatePolicyIfMissing, OnlyWork, tables
  <2>2. CASE ~HasPolicy(colRoles, col)
    <3> DEFINE a == <<"getRole", DefaultRole(Arg(w, 2)), Nobody, Arg(w, 2)>>
               b == <<"selectRows", col>>
               c == <<"replaceRows", col>>
               S == <<a, b, c>>
    <3>1. work' = Push(w, S)
      BY <1>5, <1>8, <2>2 DEF CreatePolicyIfMissing, Installs
    <3>2. c[1] = "replaceRows" /\ c[2] = col /\ 3 \in 1..3
      OBVIOUS
    <3> HIDE DEF a, b, c
    <3>3. IsSeq(S) /\ Len(S) = 3 /\ S[3] = c
      BY Literals
    <3> HIDE DEF S
    <3>4. 3 \in 1..Len(work'[w].todo) /\ work'[w].todo[3] = c
      <4>1. \A i \in 1..Len(S) : i \in 1..Len(work'[w].todo)
                                /\ work'[w].todo[i] = S[i]
        BY <1>4, <3>1, <3>3, PushedItems
      <4>2. 3 \in 1..Len(S)
        BY <3>2, <3>3
      <4> QED
        BY <3>3, <4>1, <4>2
    <3>5. Installing(work'[w].todo, 3, col)
      BY <3>2, <3>4 DEF Installing
    <3> QED
      BY <3>5
  <2> QED
    BY <2>1, <2>2
<1> QED
  BY <1>6, <1>7, <1>8

LEMMA NewCols ==
    ASSUME IInv, NEW w \in Workers, Step(w), NEW col, col \in cols',
           col \notin cols
    PROVE  Installing(work'[w].todo, 1, col)
<1>1. InsertCol(w)
  <2>1. OnlyWork => cols' = cols
    BY DEF OnlyWork, tables
  <2> QED
    BY <2>1
    DEF Step, FindUser, MayCreateUser, GetUser, UserMade, Col, CreateCol,
        KnowCol, GetCol, ColMade, CreatePolicyIfMissing, SelectRows, GetRole,
        RoleMade, UserRole, Need, FindRoleDoc, Fork, GetDoc, UserDoc,
        SetPolicy, InsertRole, AddMember, RemoveMember, HasNoId, CreateDoc,
        Record, AttrDone, ReplaceRows, MayCreateCol, CreateAttr, InsertUser,
        UpdateUser, tables
<1>2. Top(w) /\ Shapes
  BY <1>1, TopOf DEF IInv, Tables, InsertCol
<1> DEFINE a == <<"hasPolicy", col, Arg(w, 2)>>
           S == <<a>>
<1>3. work' = Push(w, S)
  BY <1>1 DEF InsertCol
<1>4. a[1] = "hasPolicy" /\ a[2] = col /\ 1 \in 1..1
  OBVIOUS
<1> HIDE DEF a
<1>5. IsSeq(S) /\ Len(S) = 1 /\ S[1] = a
  BY Literals
<1> HIDE DEF S
<1>6. 1 \in 1..Len(work'[w].todo) /\ work'[w].todo[1] = a
  <2>1. \A i \in 1..Len(S) : i \in 1..Len(work'[w].todo)
                            /\ work'[w].todo[i] = S[i]
    BY <1>2, <1>3, <1>5, PushedItems
  <2>2. 1 \in 1..Len(S)
    BY <1>4, <1>5
  <2> QED
    BY <1>5, <2>1, <2>2
<1> QED
  BY <1>4, <1>6 DEF Installing

LEMMA ProtectedStep ==
    ASSUME RulesGiven, IInv, Seen, Protected, NEW w \in Workers, Step(w),
           ~Fork(w)
    PROVE  Protected' /\ Seen'
<1>1. Effect(w)
  BY StepKept DEF Kept
<1>2. log'.crashed = log.crashed /\ log.refused \subseteq log'.refused
  BY LogGrows
<1>3. \A col : HasPolicy(colRoles, col) => HasPolicy(colRoles', col)
  BY PoliciesLast
<1>4. ASSUME NEW v \in Workers, NEW i \in 1..Len(work[v].todo), NEW col,
             OfApp(col), Installing(work[v].todo, i, col)
      PROVE  \/ HasPolicy(colRoles', col)
             \/ \E c \in log'.refused : c.col = col
             \/ \E x \in Workers : \E j : Installing(work'[x].todo, j, col)
  <2>1. CASE v # w
    <3>1. work'[v] = work[v]
      BY <1>1, <2>1, WorkShape DEF Effect, IInv, Tables
    <3> QED
      BY <1>4, <3>1
  <2>2. CASE v = w /\ i = 1
    BY <1>4, <2>2, InstallingNow
  <2>3. CASE v = w /\ i # 1
    BY <1>1, <1>4, <2>3, InstallingOn
  <2> QED
    BY <2>1, <2>2, <2>3
<1>5. \A x \in Workers : \A j, col :
        Installing(work'[x].todo, j, col) => j \in 1..Len(work'[x].todo)
  BY DEF Installing
<1>6. ASSUME NEW col \in cols', OfApp(col)
      PROVE  \/ log'.crashed \/ HasPolicy(colRoles', col)
             \/ \E c \in log'.refused : c.col = col
             \/ \E x \in Workers : \E j \in 1..Len(work'[x].todo) :
                  Installing(work'[x].todo, j, col)
  <2>1. CASE col \notin cols
    <3>1. Installing(work'[w].todo, 1, col)
      BY <2>1, NewCols
    <3> QED
      BY <1>5, <3>1
  <2>2. CASE col \in cols
    <3>1. CASE log.crashed
      BY <1>2, <3>1
    <3>2. CASE HasPolicy(colRoles, col)
      BY <1>3, <3>2
    <3>3. CASE \E c \in log.refused : c.col = col
      BY <1>2, <3>3
    <3>4. CASE \E v \in Workers : \E i \in 1..Len(work[v].todo) :
                 Installing(work[v].todo, i, col)
      BY <1>4, <1>5, <1>6, <3>4
    <3> QED
      BY <1>6, <2>2, <3>1, <3>2, <3>3, <3>4 DEF Protected
  <2> QED
    BY <2>1, <2>2
<1>7. Seen'
  BY <1>3, SeenStep
<1> QED
  BY <1>6, <1>7 DEF Protected

LEMMA ProtectedSame ==
    ASSUME IInv, Protected, UNCHANGED tables,
           log'.refused = log.refused, log'.crashed = log.crashed,
           \A v \in Workers : \A i \in 1..Len(work[v].todo) :
             work[v].todo[i][1] \in {"hasPolicy", "replaceRows"}
               => work'[v] = work[v]
    PROVE  Protected'
<1>1. cols' = cols /\ colRoles' = colRoles
  BY DEF tables
<1>2. ASSUME NEW v \in Workers, NEW i \in 1..Len(work[v].todo), NEW col,
             Installing(work[v].todo, i, col)
      PROVE  /\ Installing(work'[v].todo, i, col)
             /\ i \in 1..Len(work'[v].todo)
  <2>1. work'[v] = work[v]
    BY <1>2 DEF Installing
  <2> QED
    BY <1>2, <2>1
<1> QED
  BY <1>1, <1>2 DEF Protected

LEMMA ProtectedNext ==
    ASSUME RulesGiven, IInv, Seen, Protected, [Next]_vars
    PROVE  Protected' /\ Seen'
<1>1. CASE UNCHANGED <<tables, work, log>>
  BY <1>1 DEF Protected, Seen, tables
<1>2. ASSUME NEW w \in Workers, Crash(w) PROVE Protected' /\ Seen'
  <2>1. log'.crashed = TRUE
    BY <1>2 DEF Crash, IInv, Tables, Shapes
  <2>2. work' = [work EXCEPT ![w] = Idle, ![Twin(w)] = Idle]
        /\ colRoles' = colRoles
    BY <1>2 DEF Crash, tables
  <2>3. \A v \in Workers : work'[v] = work[v] \/ work'[v] = Idle
    BY <2>2, BothWork DEF IInv, Tables
  <2> QED
    BY <2>1, <2>2, <2>3 DEF Protected, Seen
<1>3. ASSUME NEW w \in Workers, NEW c, Take(w, c)
      PROVE  Protected' /\ Seen'
  <2>1. /\ UNCHANGED tables
        /\ log'.refused = log.refused /\ log'.crashed = log.crashed
        /\ \A v \in Workers : \A i : i \in 1..Len(work[v].todo)
             => v # w /\ work'[v] = work[v]
    BY <1>3, TakeLeaves
  <2>2. /\ work'[w].seen = {}
        /\ \A v \in Workers : v # w => work'[v] = work[v]
    BY <1>3 DEF Take, IInv, Tables, Shapes
  <2>3. Protected'
    BY <2>1, ProtectedSame
  <2>4. Seen'
    BY <2>1, <2>2 DEF Seen, tables
  <2> QED
    BY <2>3, <2>4
<1>4. ASSUME NEW w \in Workers, Fork(w)
      PROVE  Protected' /\ Seen'
  <2>1. /\ UNCHANGED <<tables, log>> /\ work[w] # Idle
        /\ work'[w].seen = work[w].seen
        /\ work'[Twin(w)].seen = work[w].seen
        /\ \A v \in Workers \ {w, Twin(w)} : work'[v] = work[v]
    BY <1>4, Forked DEF Top, OnlyWork, IsHalf
  <2>2. ASSUME NEW v \in Workers, NEW i \in 1..Len(work[v].todo),
               work[v].todo[i][1] \in {"hasPolicy", "replaceRows"}
        PROVE  work'[v] = work[v]
    <3>1. work[v].todo[i][1] \notin Base
      BY <2>2 DEF Base
    <3> QED
      BY <1>4, <3>1, ForkLeaves
  <2>3. Protected'
    BY <2>1, <2>2, ProtectedSame
  <2>4. Seen'
    BY <2>1 DEF Seen, tables
  <2> QED
    BY <2>3, <2>4
<1>5. Queue => UNCHANGED <<tables, work, log>>
  BY DEF Queue
<1>6. UNCHANGED vars => UNCHANGED <<tables, work, log>>
  BY DEF vars, tables
<1> QED
  BY <1>1, <1>2, <1>3, <1>4, <1>5, <1>6, ProtectedStep DEF Next

(* When all is idle and no process has died, no collection of an           *)
(* application is without a policy, unless the change it was made for was  *)
(* refused, and if no change sets a policy that is empty: what others do   *)
(* to the policies of the database meanwhile never keeps the process that  *)
(* inserts a collection from setting that of the collection                *)
(* (cols.js:101-147, policy.js:138).                                       *)
THEOREM CollectionsProtected ==
    ASSUME RulesGiven
    PROVE  Spec => []ColsProtected
<1>1. Init => Protected /\ Seen
  <2> SUFFICES ASSUME Init PROVE Protected /\ Seen
    OBVIOUS
  <2>1. \A col \in cols : ~OfApp(col)
    <3>1. cols = Reserved
      BY DEF Init
    <3>2. ~OfApp(ALL) /\ ~OfApp(USER)
      BY DEF OfApp
    <3>3. ~OfApp(RoleUsersCol(SUPER)) /\ ~OfApp(UserRolesCol(SUPER))
      BY NotOfApp DEF RoleUsersCol, UserRolesCol
    <3> QED
      BY <3>1, <3>2, <3>3 DEF Reserved
  <2>2. \A w \in Workers : work[w] = Idle
    BY DEF Init
  <2> QED
    BY <2>1, <2>2 DEF Protected, Seen
<1>2. IInv /\ Protected /\ Seen /\ [Next]_vars => Protected' /\ Seen'
  BY ProtectedNext
<1>3. Protected => ColsProtected
  <2> SUFFICES ASSUME Protected, AllIdle, ~log.crashed, NEW col \in cols,
                      OfApp(col)
               PROVE  \/ HasPolicy(colRoles, col)
                      \/ \E c \in log.refused : c.col = col
    BY DEF ColsProtected, OfApp
  <2>1. \A w \in Workers : 1..Len(work[w].todo) = {}
    <3>1. Idle.todo = <<>> /\ 1..0 = {}
      BY DEF Idle
    <3> QED
      BY <3>1, Literals DEF AllIdle
  <2> QED
    BY <2>1 DEF Protected
<1> QED
  BY <1>1, <1>2, <1>3, Invariant, PTL DEF Spec

-----------------------------------------------------------------------------
(* How high a stack becomes over a statement, before it is gone: a role    *)
(* that is missing is inserted before the collection of its users, so that *)
(* a statement needs room for the default role of the user at most once,   *)
(* and once more for a role that is not that one.                          *)
Listed(s, uuid) ==
    uuid \in Reserve \/ \E i \in 1..Len(s.roles) : s.roles[i] = uuid
Fresh(s, user) == IF Listed(s, DefaultRole(user)) THEN 0 ELSE 5
NewRole(s, uuid, user) ==
    5 + (IF uuid = DefaultRole(user) THEN 0 ELSE Fresh(s, user))

OfUsers == {"findUser", "mayCreateUser", "getUser", "insertUser", "attr",
            "record"}
Room(s, f) ==
    CASE f[1] = "getCol" -> 4 + Fresh(s, f[3])
      [] f[1] = "mayCreateCol" -> 4 + Fresh(s, f[4])
      [] f[1] \in {"insertCol", "hasPolicy"} -> 2 + Fresh(s, f[3])
      [] f[1] = "getRole" -> IF Listed(s, f[2]) THEN 0
                             ELSE NewRole(s, f[2], f[4])
      [] f[1] = "insertRole" -> NewRole(s, f[2], f[4])
      [] f[1] \in {"col", "createCol"} -> 10
      [] f[1] \in OfUsers -> 13
      [] f[1] \in {"userRole", "roleDoc"} -> 12
      [] OTHER -> 0

(* The statements S, and all that they will push, are at most n + 1 high.  *)
Fit(s, S, n) == /\ IsSeq(S)
                /\ \A i \in 1..Len(S) : (Len(S) - i) + Room(s, S[i]) <= n
Bounded == \A w \in Workers : Fit(db, work[w].todo, MostStatements - 1)

LEMMA RoomIs ==
    ASSUME NEW s, NEW f
    PROVE  /\ Room(s, f) \in Nat
           /\ f[1] = "getCol" => Room(s, f) = 4 + Fresh(s, f[3])
           /\ f[1] = "mayCreateCol" => Room(s, f) = 4 + Fresh(s, f[4])
           /\ f[1] \in {"insertCol", "hasPolicy"}
                => Room(s, f) = 2 + Fresh(s, f[3])
           /\ f[1] = "getRole" => Room(s, f) = IF Listed(s, f[2]) THEN 0
                                               ELSE NewRole(s, f[2], f[4])
           /\ f[1] = "insertRole" => Room(s, f) = NewRole(s, f[2], f[4])
           /\ f[1] \in {"col", "createCol"} => Room(s, f) = 10
           /\ f[1] \in OfUsers => Room(s, f) = 13
           /\ f[1] \in {"userRole", "roleDoc"} => Room(s, f) = 12
           /\ f[1] \notin {"getCol", "mayCreateCol", "insertCol",
                           "hasPolicy", "getRole", "insertRole", "col",
                           "createCol", "userRole", "roleDoc"} \cup OfUsers
                => Room(s, f) = 0
<1>1. \A u : Fresh(s, u) \in Nat
  BY DEF Fresh
<1>2. \A u, v : NewRole(s, u, v) \in Nat
  BY <1>1 DEF NewRole
<1> QED
  BY <1>1, <1>2 DEF Room, OfUsers

(* The rows that others insert only make a stack lower.                    *)
LEMMA RoomShrinks ==
    ASSUME NEW s, NEW s2, Grows(s, s2)
    PROVE  /\ \A u : Fresh(s2, u) \in Nat /\ Fresh(s2, u) <= Fresh(s, u)
                     /\ Fresh(s, u) <= 5
           /\ \A f : Room(s2, f) <= Room(s, f)
<1>1. \A u : Listed(s, u) => Listed(s2, u)
  BY DEF Grows, Listed
<1>2. \A u : /\ Fresh(s, u) \in {0, 5} /\ Fresh(s2, u) \in {0, 5}
             /\ Fresh(s2, u) <= Fresh(s, u)
  BY <1>1 DEF Fresh
<1>3. \A u, v : /\ NewRole(s, u, v) \in Nat /\ NewRole(s2, u, v) \in Nat
                /\ NewRole(s2, u, v) <= NewRole(s, u, v)
  BY <1>2 DEF NewRole
<1>4. ASSUME NEW f PROVE Room(s2, f) <= Room(s, f)
  <2> DEFINE a == Room(s, f)
             b == Room(s2, f)
  <2>1. CASE f[1] \in {"getCol", "mayCreateCol", "insertCol", "hasPolicy"}
    <3>1. \A u : 2 + Fresh(s2, u) <= 2 + Fresh(s, u)
                 /\ 4 + Fresh(s2, u) <= 4 + Fresh(s, u)
      BY <1>2
    <3> QED
      BY <2>1, <3>1, RoomIs
  <2>2. CASE f[1] = "getRole"
    <3>1. /\ a = IF Listed(s, f[2]) THEN 0 ELSE NewRole(s, f[2], f[4])
          /\ b = IF Listed(s2, f[2]) THEN 0 ELSE NewRole(s2, f[2], f[4])
      BY <2>2, RoomIs
    <3> HIDE DEF a, b
    <3>2. b <= a
      BY <1>1, <1>3, <3>1
    <3> QED
      BY <3>2 DEF a, b
  <2>3. CASE f[1] = "insertRole"
    BY <1>3, <2>3, RoomIs
  <2>4. CASE f[1] \in {"col", "createCol", "userRole", "roleDoc"} \cup OfUsers
    BY <2>4, RoomIs
  <2>5. CASE f[1] \notin {"getCol", "mayCreateCol", "insertCol",
                          "hasPolicy", "getRole", "insertRole", "col",
                          "createCol", "userRole", "roleDoc"} \cup OfUsers
    BY <2>5, RoomIs
  <2> QED
    BY <2>1, <2>2, <2>3, <2>4, <2>5
<1> QED
  BY <1>2, <1>4

LEMMA FitLiterals ==
    ASSUME NEW s, NEW n \in Nat
    PROVE  /\ Fit(s, <<>>, n)
           /\ \A f : Room(s, f) <= n => Fit(s, <<f>>, n)
           /\ \A f, g : 1 + Room(s, f) <= n /\ Room(s, g) <= n
                => Fit(s, <<f, g>>, n)
           /\ \A f, g, h : /\ 2 + Room(s, f) <= n /\ 1 + Room(s, g) <= n
                           /\ Room(s, h) <= n
                => Fit(s, <<f, g, h>>, n)
<1>1. 1..0 = {} /\ 1..1 = {1} /\ 1..2 = {1, 2} /\ 1..3 = {1, 2, 3}
  OBVIOUS
<1>2. \A f : Room(s, f) \in Nat
  BY RoomIs
<1>3. Fit(s, <<>>, n)
  BY <1>1, Literals DEF Fit
<1>4. ASSUME NEW f, Room(s, f) <= n PROVE Fit(s, <<f>>, n)
  BY <1>1, <1>2, <1>4, Literals DEF Fit
<1>5. ASSUME NEW f, NEW g, 1 + Room(s, f) <= n, Room(s, g) <= n
      PROVE  Fit(s, <<f, g>>, n)
  <2> DEFINE S == <<f, g>>
  <2>1. IsSeq(S) /\ Len(S) = 2 /\ S[1] = f /\ S[2] = g
    BY Literals
  <2> HIDE DEF S
  <2>2. (Len(S) - 1) + Room(s, S[1]) <= n /\ (Len(S) - 2) + Room(s, S[2]) <= n
    BY <1>2, <1>5, <2>1
  <2>3. 1..Len(S) = {1, 2}
    BY <1>1, <2>1
  <2>4. Fit(s, S, n)
    BY <2>1, <2>2, <2>3 DEF Fit
  <2> QED
    BY <2>4 DEF S
<1>6. ASSUME NEW f, NEW g, NEW h, 2 + Room(s, f) <= n, 1 + Room(s, g) <= n,
             Room(s, h) <= n
      PROVE  Fit(s, <<f, g, h>>, n)
  <2> DEFINE S == <<f, g, h>>
  <2>1. IsSeq(S) /\ Len(S) = 3 /\ S[1] = f /\ S[2] = g /\ S[3] = h
    BY Literals
  <2> HIDE DEF S
  <2>2. /\ (Len(S) - 1) + Room(s, S[1]) <= n
        /\ (Len(S) - 2) + Room(s, S[2]) <= n
        /\ (Len(S) - 3) + Room(s, S[3]) <= n
    BY <1>2, <1>6, <2>1
  <2>3. 1..Len(S) = {1, 2, 3}
    BY <1>1, <2>1
  <2>4. Fit(s, S, n)
    BY <2>1, <2>2, <2>3 DEF Fit
  <2> QED
    BY <2>4 DEF S
<1> QED
  BY <1>3, <1>4, <1>5, <1>6

(* Statements on others that are m.                                        *)
LEMMA FitJoined ==
    ASSUME NEW s, NEW S, NEW T, NEW n \in Nat, NEW m \in Nat,
           Fit(s, S, m), Fit(s, T, n), m + Len(T) <= n
    PROVE  Fit(s, S \o T, n)
<1> DEFINE N == S \o T
<1>1. /\ IsSeq(N) /\ Len(N) = Len(S) + Len(T)
      /\ \A i \in 1..Len(S) : N[i] = S[i]
      /\ \A i \in 1..Len(T) : N[Len(S) + i] = T[i]
  BY JoinedSeq DEF Fit
<1>2. Len(S) \in Nat /\ Len(T) \in Nat
  BY DEF Fit, IsSeq
<1> HIDE DEF N
<1>3. ASSUME NEW i \in 1..Len(N)
      PROVE  (Len(N) - i) + Room(s, N[i]) <= n
  <2>1. CASE i \in 1..Len(S)
    <3>1. (Len(S) - i) + Room(s, S[i]) <= m /\ N[i] = S[i]
      BY <1>1, <2>1 DEF Fit
    <3>2. Room(s, S[i]) \in Nat
      BY RoomIs
    <3> QED
      BY <1>1, <1>2, <2>1, <3>1, <3>2
  <2>2. CASE i \notin 1..Len(S)
    <3>1. i - Len(S) \in 1..Len(T) /\ Len(S) + (i - Len(S)) = i
          /\ Len(N) - i = Len(T) - (i - Len(S))
      BY <1>1, <1>2, <2>2
    <3>2. N[i] = T[i - Len(S)]
      BY <1>1, <3>1
    <3> QED
      BY <3>1, <3>2 DEF Fit
  <2> QED
    BY <2>1, <2>2
<1> QED
  BY <1>1, <1>3 DEF Fit, N

(* Statements in place of the first, and what an error leaves.             *)
LEMMA FitPushed ==
    ASSUME NEW s, NEW s2, Grows(s, s2), NEW n \in Nat, NEW T, Fit(s, T, n),
           T # <<>>, NEW S, Fit(s2, S, Room(s, T[1]))
    PROVE  Fit(s2, S \o Tail(T), n)
<1> DEFINE N == S \o Tail(T)
<1>1. /\ Len(S) \in Nat /\ Len(T) \in Nat /\ Len(T) >= 1
      /\ IsSeq(N) /\ Len(N) = Len(S) + (Len(T) - 1)
      /\ \A i \in 1..(Len(T) - 1) : N[Len(S) + i] = T[1 + i]
      /\ \A i \in 1..Len(S) : N[i] = S[i]
  BY PushedSeq DEF Fit, Rest
<1>2. \A f : /\ Room(s, f) \in Nat /\ Room(s2, f) \in Nat
             /\ Room(s2, f) <= Room(s, f)
  BY RoomIs, RoomShrinks
<1>3. \A i \in 1..Len(T) : (Len(T) - i) + Room(s, T[i]) <= n
  BY DEF Fit
<1>4. \A i \in 1..Len(S) : (Len(S) - i) + Room(s2, S[i]) <= Room(s, T[1])
  BY DEF Fit
<1> HIDE DEF N
<1>5. ASSUME NEW i \in 1..Len(N)
      PROVE  (Len(N) - i) + Room(s2, N[i]) <= n
  <2>1. CASE i \in 1..Len(S)
    <3>1. (Len(S) - i) + Room(s2, S[i]) <= Room(s, T[1])
      BY <1>4, <2>1
    <3>2. (Len(T) - 1) + Room(s, T[1]) <= n
      BY <1>1, <1>3
    <3>3. N[i] = S[i] /\ Len(N) - i = (Len(S) - i) + (Len(T) - 1)
      BY <1>1, <2>1
    <3> DEFINE a == Len(S) - i
               b == Room(s2, S[i])
               c == Room(s, T[1])
               d == Len(T) - 1
    <3>4. a \in Int /\ b \in Nat /\ c \in Nat /\ d \in Int
      BY <1>1, <1>2
    <3>5. a + b <= c /\ d + c <= n
      BY <3>1, <3>2
    <3>6. (Len(N) - i) + Room(s2, N[i]) = (a + d) + b
      BY <3>3
    <3> HIDE DEF a, b, c, d
    <3>7. (a + d) + b <= n
      BY <3>4, <3>5
    <3> QED
      BY <3>6, <3>7
  <2>2. CASE i \notin 1..Len(S)
    <3> DEFINE j == i - Len(S)
    <3>1. j \in 1..(Len(T) - 1) /\ Len(S) + j = i /\ 1 + j \in 1..Len(T)
          /\ Len(N) - i = Len(T) - (1 + j)
      BY <1>1, <2>2
    <3> HIDE DEF j
    <3>2. N[i] = T[1 + j]
      BY <1>1, <3>1
    <3>3. (Len(T) - (1 + j)) + Room(s, T[1 + j]) <= n
      BY <1>3, <3>1
    <3>4. (Len(N) - i) + Room(s, N[i]) <= n
      BY <3>1, <3>2, <3>3
    <3> QED
      BY <1>1, <1>2, <3>4
  <2> QED
    BY <2>1, <2>2
<1> QED
  BY <1>1, <1>5 DEF Fit, N

LEMMA FitGrows ==
    ASSUME NEW s, NEW s2, Grows(s, s2), NEW n \in Nat, NEW T, Fit(s, T, n)
    PROVE  Fit(s2, T, n)
<1>1. \A f : /\ Room(s, f) \in Nat /\ Room(s2, f) \in Nat
             /\ Room(s2, f) <= Room(s, f)
  BY RoomIs, RoomShrinks
<1>2. Len(T) \in Nat
  BY DEF Fit, IsSeq
<1>3. ASSUME NEW i \in 1..Len(T)
      PROVE  (Len(T) - i) + Room(s2, T[i]) <= n
  <2>1. (Len(T) - i) + Room(s, T[i]) <= n
    BY DEF Fit
  <2> QED
    BY <1>1, <1>2, <2>1
<1> QED
  BY <1>3 DEF Fit

LEMMA FitCut ==
    ASSUME NEW s, NEW n, NEW T, Fit(s, T, n), NEW k \in 0..Len(T)
    PROVE  Fit(s, SubSeq(T, k + 1, Len(T)), n)
<1> DEFINE N == SubSeq(T, k + 1, Len(T))
<1>1. IsSeq(N) /\ Len(T) \in Nat /\ Len(N) = 0 + (Len(T) - k)
      /\ \A i \in 1..(Len(T) - k) : N[0 + i] = T[k + i]
  BY CutSeq DEF Fit, IsSeq, Rest
<1> HIDE DEF N
<1>2. ASSUME NEW i \in 1..Len(N)
      PROVE  (Len(N) - i) + Room(s, N[i]) <= n
  <2>1. /\ i \in 1..(Len(T) - k) /\ k + i \in 1..Len(T) /\ 0 + i = i
        /\ Len(N) - i = Len(T) - (k + i)
    BY <1>1
  <2>2. N[i] = T[k + i]
    BY <1>1, <2>1
  <2>3. (Len(T) - (k + i)) + Room(s, T[k + i]) <= n
    BY <2>1 DEF Fit
  <2> QED
    BY <2>1, <2>2, <2>3
<1> QED
  BY <1>1, <1>2 DEF Fit, N

(* The stack of w after a step: with S in place of the first statement.    *)
Pushed(w, S) == work'[w].todo = S \o Tail(work[w].todo)
Low(w) == Fit(db', work'[w].todo, MostStatements - 1)

LEMMA LowPushed ==
    ASSUME Bounded, NEW w \in Workers, Top(w), Grows(db, db'),
           NEW S, Pushed(w, S), Fit(db', S, Room(db, work[w].todo[1]))
    PROVE  Low(w)
<1>1. MostStatements - 1 \in Nat
  BY DEF MostStatements
<1> QED
  BY <1>1, FitPushed DEF Bounded, Top, Pushed, Low

LEMMA LowRaised ==
    ASSUME Bounded, Shapes, NEW w \in Workers, Top(w), Grows(db, db'),
           work' = Raise(w)
    PROVE  Low(w)
<1> DEFINE T == work[w].todo
           n == MostStatements - 1
<1>1. n \in Nat /\ Fit(db, T, n) /\ IsSeq(T)
  BY DEF MostStatements, Bounded, Fit
<1> HIDE DEF n
<1>2. PICK k \in 0..Len(T) :
        Unwind(T) = SubSeq(T, k + 1, Len(T)) /\ Caught(T, k)
  BY <1>1, Unwound
<1> DEFINE rest == Unwind(T)
<1>3. Fit(db, rest, n)
  BY <1>1, <1>2, FitCut
<1>4. work'[w].todo = rest
  <2>1. work'[w] = IF rest = <<>> THEN Idle ELSE [work[w] EXCEPT !.todo = rest]
    BY DEF Raise, Shapes
  <2>2. IsProc(work[w])
    BY DEF Top
  <2> HIDE DEF rest
  <2>3. Idle.todo = <<>> /\ [work[w] EXCEPT !.todo = rest].todo = rest
    BY <2>2 DEF Idle, IsProc
  <2> QED
    BY <2>1, <2>3
<1> HIDE DEF rest
<1>5. Fit(db', rest, n)
  BY <1>1, <1>3, FitGrows
<1> QED
  BY <1>4, <1>5 DEF Low, n

LEMMA PushedNow ==
    ASSUME Shapes, NEW w \in Workers, IsProc(work[w])
    PROVE  /\ \A S : work' = Push(w, S) => Pushed(w, S)
           /\ work' = Return(w) => Pushed(w, <<>>)
           /\ \A x, S : SetsOther(w, x, S) => Pushed(w, S)
           /\ \A x, S : work' = Now(w, [work[w] EXCEPT !.seen = x], S)
                => Pushed(w, S)
<1> DEFINE p == work[w]
<1>1. ASSUME NEW q, NEW S, IsProc(q), q.todo = p.todo, work' = Now(w, q, S)
      PROVE  Pushed(w, S)
  <2> DEFINE new == [q EXCEPT !.todo = S \o Tail(@)]
  <2>1. work'[w] = new
    BY <1>1 DEF Now, Shapes
  <2>2. q = [change |-> q.change, todo |-> q.todo, users |-> q.users,
             cols |-> q.cols, docs |-> q.docs, roleId |-> q.roleId,
             got |-> q.got, role |-> q.role, seen |-> q.seen]
    BY <1>1 DEF IsProc
  <2>3. new = [change |-> q.change, todo |-> S \o Tail(q.todo),
               users |-> q.users, cols |-> q.cols, docs |-> q.docs,
               roleId |-> q.roleId, got |-> q.got, role |-> q.role,
               seen |-> q.seen]
    BY <2>2, WithTodo
  <2> HIDE DEF new
  <2>4. new.todo = S \o Tail(q.todo)
    BY <2>3
  <2> QED
    BY <1>1, <2>1, <2>4 DEF Pushed
<1>2. ASSUME NEW S, work' = Push(w, S) PROVE Pushed(w, S)
  BY <1>1, <1>2 DEF Push
<1>3. ASSUME NEW x, NEW S, SetsOther(w, x, S)
      PROVE  Pushed(w, S)
  <2> DEFINE q1 == [p EXCEPT !.users = x]
             q2 == [p EXCEPT !.cols = x]
             q3 == [p EXCEPT !.docs = x]
             q4 == [p EXCEPT !.roleId = x]
             q5 == [p EXCEPT !.got = x]
             q6 == [p EXCEPT !.role = x]
  <2>1. \/ work' = Now(w, q1, S) \/ work' = Now(w, q2, S)
        \/ work' = Now(w, q3, S) \/ work' = Now(w, q4, S)
        \/ work' = Now(w, q5, S) \/ work' = Now(w, q6, S)
    BY <1>3 DEF SetsOther
  <2>2. \A q \in {q1, q2, q3, q4, q5, q6} : IsProc(q) /\ q.todo = p.todo
    BY Registers
  <2> HIDE DEF q1, q2, q3, q4, q5, q6
  <2> QED
    BY <1>1, <2>1, <2>2
<1>4. ASSUME NEW x, NEW S, work' = Now(w, [work[w] EXCEPT !.seen = x], S)
      PROVE  Pushed(w, S)
  <2> DEFINE q == [p EXCEPT !.seen = x]
  <2>1. IsProc(q) /\ q.todo = p.todo
    BY Registers
  <2> HIDE DEF q
  <2> QED
    BY <1>1, <1>4, <2>1 DEF q
<1> QED
  BY <1>2, <1>3, <1>4 DEF Return

(* The ways of a step: it raises an error, pushes statements, or none.     *)
LEMMA LowWays ==
    ASSUME IInv, Bounded, NEW w \in Workers, Op(w) # "none", Grows(db, db')
    PROVE  LET room == Room(db, work[w].todo[1])
           IN  /\ room \in Nat
               /\ \A S : Pushed(w, S) /\ Fit(db', S, room) => Low(w)
               /\ \A S : work' = Push(w, S) /\ Fit(db', S, room) => Low(w)
               /\ \A f : work' = Push(w, <<f>>) /\ Room(db', f) <= room
                    => Low(w)
               /\ \A x, f : SetsOther(w, x, <<f>>) /\ Room(db', f) <= room
                    => Low(w)
               /\ \A x : SetsOther(w, x, <<>>) => Low(w)
               /\ \A x : work' = Now(w, [work[w] EXCEPT !.seen = x], <<>>)
                    => Low(w)
               /\ work' = Return(w) => Low(w)
               /\ work' = Raise(w) => Low(w)
<1> DEFINE room == Room(db, work[w].todo[1])
<1>1. Top(w) /\ Shapes /\ IsProc(work[w])
  BY TopOf DEF IInv, Tables, Top
<1>2. room \in Nat
  BY RoomIs
<1>3. /\ Fit(db', <<>>, room)
      /\ \A f : Room(db', f) <= room => Fit(db', <<f>>, room)
  <2> HIDE DEF room
  <2> QED
    BY <1>2, FitLiterals
<1>4. \A S : Pushed(w, S) /\ Fit(db', S, room) => Low(w)
  BY <1>1, LowPushed
<1>5. work' = Raise(w) => Low(w)
  BY <1>1, LowRaised
<1>6. /\ \A S : work' = Push(w, S) => Pushed(w, S)
      /\ work' = Return(w) => Pushed(w, <<>>)
      /\ \A x, S : SetsOther(w, x, S) => Pushed(w, S)
      /\ \A x, S : work' = Now(w, [work[w] EXCEPT !.seen = x], S)
           => Pushed(w, S)
  BY <1>1, PushedNow
<1> HIDE DEF room
<1> QED
  BY <1>2, <1>3, <1>4, <1>5, <1>6 DEF room

LEMMA LowInsertUser ==
    ASSUME IInv, Bounded, NEW w \in Workers, Grows(db, db'), InsertUser(w)
    PROVE  Low(w)
<1> DEFINE u == Arg(w, 1)
           by == Change(w).by
           S == MakeUser(u, by)
           room == Room(db, work[w].todo[1])
           s == db'
<1>1. Op(w) = "insertUser" /\ Op(w) # "none"
  BY DEF InsertUser
<1>2. work[w].todo[1][1] = "insertUser"
  BY <1>1, TopOf DEF IInv, Top
<1>3. room = 13
  BY <1>2, RoomIs DEF OfUsers
<1>4. /\ IsSeq(S) /\ Len(S) = 5
      /\ S[1] = <<"getCol", UserRolesCol(u), by>>
      /\ S[2] = <<"userDoc", u>> /\ S[3] = <<"getRole", u, Nobody, u>>
      /\ S[4] = <<"addMember", u, RoleDocOf(u)>> /\ S[5] = <<"userMade", u>>
  BY MakeUserItems
<1> HIDE DEF S, u, by, s
<1>5. \A v, v2 : /\ Fresh(s, v) \in Nat /\ Fresh(s, v) <= 5
                 /\ NewRole(s, v, v2) \in Nat /\ NewRole(s, v, v2) <= 10
  <2>1. \A v : Fresh(s, v) \in Nat /\ Fresh(s, v) <= 5
    BY DEF Fresh
  <2> QED
    BY <2>1 DEF NewRole
<1>6. Room(s, S[1]) = 4 + Fresh(s, by)
  BY <1>4, RoomIs
<1>7. Room(s, S[2]) = 0 /\ Room(s, S[4]) = 0 /\ Room(s, S[5]) = 0
  BY <1>4, RoomIs DEF OfUsers
<1>8. Room(s, S[3]) \in Nat /\ Room(s, S[3]) <= 10
  <2>1. Room(s, S[3]) = IF Listed(s, u) THEN 0 ELSE NewRole(s, u, u)
    BY <1>4, RoomIs
  <2> QED
    BY <1>5, <2>1
<1>9. /\ (5 - 1) + Room(s, S[1]) <= 13 /\ (5 - 2) + Room(s, S[2]) <= 13
      /\ (5 - 3) + Room(s, S[3]) <= 13 /\ (5 - 4) + Room(s, S[4]) <= 13
      /\ (5 - 5) + Room(s, S[5]) <= 13
  BY <1>5, <1>6, <1>7, <1>8
<1>10. 1..5 = {1, 2, 3, 4, 5}
  OBVIOUS
<1>11. Fit(s, S, room)
  BY <1>3, <1>4, <1>9, <1>10 DEF Fit
<1>12. CASE work' = Push(w, S)
  BY <1>1, <1>11, <1>12, LowWays DEF s
<1>13. CASE work' = UserKnown(w, u)
  BY <1>1, <1>13, LowWays DEF UserKnown, SetsOther
<1>14. ASSUME NEW profile, work' = Push(w, <<<<"updateUser", u, profile>>>>)
       PROVE  Low(w)
  <2> DEFINE f == <<"updateUser", u, profile>>
  <2>1. Room(s, f) <= room
    BY <1>3, RoomIs DEF OfUsers
  <2> HIDE DEF f, room
  <2> QED
    BY <1>1, <1>14, <2>1, LowWays DEF f, s, room
<1> QED
  BY <1>12, <1>13, <1>14 DEF InsertUser, MakeUser, S, u, by

(* Making a collection, the policies, and the roles that they name.        *)
LEMMA LowCols ==
    ASSUME IInv, Bounded, NEW w \in Workers, Grows(db, db'),
           GetCol(w) \/ CreateCol(w)
    PROVE  Low(w)
<1> DEFINE T == work[w].todo
           room == Room(db, T[1])
           s == db'
<1>1. /\ Op(w) # "none" /\ T[1][1] = Op(w) /\ Arg(w, 2) = T[1][3]
      /\ Op(w) \in {"getCol", "createCol"}
      /\ GetCol(w) => Op(w) = "getCol"
      /\ CreateCol(w) => Op(w) = "createCol"
  <2>1. /\ Op(w) # "none" /\ Op(w) \in {"getCol", "createCol"}
        /\ GetCol(w) => Op(w) = "getCol"
        /\ CreateCol(w) => Op(w) = "createCol"
    BY DEF GetCol, CreateCol
  <2> QED
    BY <2>1, TopOf DEF IInv, Top
<1>2. \A u : /\ Fresh(s, u) \in Nat /\ Fresh(db, u) \in Nat
             /\ Fresh(s, u) <= Fresh(db, u) /\ Fresh(s, u) <= 5
  BY RoomShrinks DEF Fresh
<1>3. CASE GetCol(w)
  <2> DEFINE name == Arg(w, 1)
             user == Arg(w, 2)
             f == <<"hasPolicy", ALL, user>>
             g == <<"insertCol", name, user>>
             h == <<"colMade", name>>
  <2>1. room = 4 + Fresh(db, user)
    BY <1>1, <1>3, RoomIs
  <2>2. Room(s, f) = 2 + Fresh(s, user) /\ Room(s, g) = 2 + Fresh(s, user)
    BY RoomIs
  <2>3. Room(s, h) = 0
    BY RoomIs DEF OfUsers
  <2>4. \/ work' = Push(w, <<f, g, h>>)
        \/ work' = Now(w, [work[w] EXCEPT !.got = TRUE], <<>>)
    BY <1>3 DEF GetCol
  <2> HIDE DEF f, g, h, name, user, s, room
  <2>5. room \in Nat /\ 2 + Room(s, f) <= room /\ 1 + Room(s, g) <= room
        /\ Room(s, h) <= room
    BY <1>2, <2>1, <2>2, <2>3
  <2>6. Fit(s, <<f, g, h>>, room)
    BY <2>5, FitLiterals
  <2> QED
    BY <1>1, <2>4, <2>6, LowWays DEF SetsOther, s, room
<1>4. CASE CreateCol(w)
  <2> DEFINE name == Arg(w, 1)
             user == Change(w).by
             f == <<"getCol", name, user>>
             g == <<"knowCol", name>>
  <2>1. room = 10
    BY <1>1, <1>4, RoomIs
  <2>2. Room(s, f) = 4 + Fresh(s, user)
    BY RoomIs
  <2>3. Room(s, g) = 0
    BY RoomIs DEF OfUsers
  <2>4. work' = Push(w, <<f, g>>) \/ work' = Return(w)
    BY <1>4 DEF CreateCol
  <2> HIDE DEF f, g, name, user, s, room
  <2>5. room \in Nat /\ 1 + Room(s, f) <= room /\ Room(s, g) <= room
    BY <1>2, <2>1, <2>2, <2>3
  <2>6. Fit(s, <<f, g>>, room)
    BY <2>5, FitLiterals
  <2> QED
    BY <1>1, <2>4, <2>6, LowWays DEF s, room
<1> QED
  BY <1>3, <1>4

LEMMA LowDefaults ==
    ASSUME IInv, Bounded, NEW w \in Workers, Grows(db, db'),
           CreatePolicyIfMissing(w) \/ InsertCol(w)
    PROVE  Low(w)
<1> DEFINE T == work[w].todo
           user == Arg(w, 2)
           room == Room(db, T[1])
           s == db'
<1>1. /\ Op(w) # "none" /\ T[1][1] = Op(w) /\ user = T[1][3]
      /\ Op(w) \in {"hasPolicy", "insertCol"}
  <2>1. Op(w) # "none" /\ Op(w) \in {"hasPolicy", "insertCol"}
    BY DEF CreatePolicyIfMissing, InsertCol
  <2> QED
    BY <2>1, TopOf DEF IInv, Top
<1>2. \A u : /\ Fresh(s, u) \in Nat /\ Fresh(db, u) \in Nat
             /\ Fresh(s, u) <= Fresh(db, u)
  BY RoomShrinks DEF Fresh
<1>3. room = 2 + Fresh(db, user)
  BY <1>1, RoomIs
<1>4. CASE CreatePolicyIfMissing(w)
  <2> DEFINE role == DefaultRole(user)
             f == <<"getRole", role, Nobody, user>>
             g == <<"selectRows", Arg(w, 1)>>
             h == <<"replaceRows", Arg(w, 1)>>
  <2>1. Room(s, f) = IF Listed(s, role) THEN 0 ELSE NewRole(s, role, user)
    BY RoomIs
  <2>2. Room(s, f) = Fresh(s, user)
    BY <2>1 DEF NewRole, Fresh
  <2>3. Room(s, g) = 0 /\ Room(s, h) = 0
    BY RoomIs DEF OfUsers
  <2>4. work' = Push(w, <<f, g, h>>) \/ work' = Return(w)
    BY <1>4 DEF CreatePolicyIfMissing, Installs
  <2> HIDE DEF f, g, h, role, user, s, room
  <2>5. room \in Nat /\ 2 + Room(s, f) <= room /\ 1 + Room(s, g) <= room
        /\ Room(s, h) <= room
    BY <1>2, <1>3, <2>2, <2>3
  <2>6. Fit(s, <<f, g, h>>, room)
    BY <2>5, FitLiterals
  <2> QED
    BY <1>1, <2>4, <2>6, LowWays DEF s, room
<1>5. CASE InsertCol(w)
  <2> DEFINE f == <<"hasPolicy", Arg(w, 1), user>>
  <2>1. Room(s, f) = 2 + Fresh(s, user)
    BY RoomIs
  <2>2. work' = Push(w, <<f>>) \/ work' = Raise(w)
    BY <1>5 DEF InsertCol
  <2> HIDE DEF f, user, s, room
  <2>3. Room(s, f) <= room
    BY <1>2, <1>3, <2>1
  <2> QED
    BY <1>1, <2>2, <2>3, LowWays DEF s, room
<1> QED
  BY <1>4, <1>5

LEMMA LowRoles ==
    ASSUME IInv, Bounded, NEW w \in Workers, Grows(db, db'),
           GetRole(w) \/ InsertRole(w) \/ MayCreateCol(w)
    PROVE  Low(w)
<1> DEFINE T == work[w].todo
           uuid == Arg(w, 1)
           user == Arg(w, 3)
           room == Room(db, T[1])
           s == db'
<1>1. /\ Op(w) # "none" /\ T[1][1] = Op(w)
      /\ uuid = T[1][2] /\ user = T[1][4]
      /\ GetRole(w) => Op(w) = "getRole"
      /\ InsertRole(w) => Op(w) = "insertRole"
      /\ MayCreateCol(w) => Op(w) = "mayCreateCol"
  <2>1. /\ Op(w) # "none"
        /\ GetRole(w) => Op(w) = "getRole"
        /\ InsertRole(w) => Op(w) = "insertRole"
        /\ MayCreateCol(w) => Op(w) = "mayCreateCol"
    BY DEF GetRole, InsertRole, MayCreateCol
  <2> QED
    BY <2>1, TopOf DEF IInv, Top
<1>2. \A u : /\ Fresh(s, u) \in Nat /\ Fresh(db, u) \in Nat
             /\ Fresh(s, u) <= Fresh(db, u)
  BY RoomShrinks DEF Fresh
<1>3. CASE GetRole(w)
  <2> DEFINE f == <<"insertRole", uuid, Arg(w, 2), user>>
  <2>1. \/ \E id : work' = RoleFound(w, id)
        \/ RoleIds(uuid) = {} /\ work' = Push(w, <<f>>)
    BY <1>3 DEF GetRole
  <2>2. RoleIds(uuid) = {} => ~Listed(db, uuid)
    <3>1. DOMAIN roles = 1..Len(roles)
      BY SeqOfItems DEF IInv, Tables, Shapes
    <3> QED
      BY <3>1 DEF RoleIds, Listed, Reserve, db
  <2>3. RoleIds(uuid) = {} => room = NewRole(db, uuid, user)
    BY <1>1, <1>3, <2>2, RoomIs
  <2>4. Room(s, f) = NewRole(s, uuid, user)
    BY RoomIs
  <2>5. NewRole(s, uuid, user) <= NewRole(db, uuid, user)
    BY <1>2 DEF NewRole
  <2> HIDE DEF f, uuid, user, s, room
  <2>6. RoleIds(uuid) = {} => Room(s, f) <= room
    BY <2>3, <2>4, <2>5
  <2> QED
    BY <1>1, <2>1, <2>6, LowWays DEF SetsOther, RoleFound, s, room
<1>4. CASE InsertRole(w)
  <2> DEFINE f == <<"mayCreateCol", RoleUsersCol(uuid), Arg(w, 2), user>>
             g == <<"roleMade", Len(roles) + 1>>
  <2>1. work' = Push(w, <<f, g>>)
    BY <1>4 DEF InsertRole
  <2>2. Listed(s, uuid)
    <3>1. IsSeq(roles') /\ roles' = Append(roles, uuid)
          /\ IsSeq(roles) /\ Len(roles') = Len(roles) + 1
          /\ roles'[Len(roles) + 1] = uuid
      <4>1. IsSeq(roles') /\ IsSeq(roles) /\ roles' = Append(roles, uuid)
        BY <1>4, InsertRoleEffect DEF InsertRole, IInv, Tables, Shapes
      <4> DEFINE A == {roles[i] : i \in 1..Len(roles)} \cup {uuid}
      <4>2. roles \in [1..Len(roles) -> A] /\ Len(roles) \in Nat
        BY <4>1 DEF IsSeq
      <4>3. roles \in Seq(A) /\ uuid \in A
        BY <4>2, SeqDef
      <4> HIDE DEF A
      <4>4. Len(roles') = Len(roles) + 1 /\ roles'[Len(roles) + 1] = uuid
        BY <4>1, <4>3, AppendProperties
      <4> QED
        BY <4>1, <4>4
    <3>2. Len(roles) + 1 \in 1..Len(roles')
      BY <3>1 DEF IsSeq
    <3> QED
      BY <3>1, <3>2 DEF Listed, db
  <2>3. room = NewRole(db, uuid, user)
    BY <1>1, <1>4, RoomIs
  <2>4. Room(s, f) = 4 + Fresh(s, user)
    BY RoomIs
  <2>5. Room(s, g) = 0
    BY RoomIs DEF OfUsers
  <2>6. 5 + Fresh(s, user) <= NewRole(db, uuid, user)
        /\ NewRole(db, uuid, user) \in Nat
    <3>1. CASE uuid = DefaultRole(user)
      <4>1. Fresh(s, user) = 0
        BY <2>2, <3>1 DEF Fresh
      <4> QED
        BY <3>1, <4>1 DEF NewRole
    <3>2. CASE uuid # DefaultRole(user)
      BY <1>2, <3>2 DEF NewRole
    <3> QED
      BY <3>1, <3>2
  <2> HIDE DEF f, g, uuid, user, s, room
  <2>7. room \in Nat /\ 1 + Room(s, f) <= room /\ Room(s, g) <= room
    BY <1>2, <2>3, <2>4, <2>5, <2>6
  <2>8. Fit(s, <<f, g>>, room)
    BY <2>7, FitLiterals
  <2> QED
    BY <1>1, <2>1, <2>8, LowWays DEF s, room
<1>5. CASE MayCreateCol(w)
  <2> DEFINE f == <<"getCol", uuid, user>>
  <2>1. Room(s, f) = 4 + Fresh(s, user) /\ room = 4 + Fresh(db, user)
    BY <1>1, <1>5, RoomIs
  <2>2. work' = Push(w, <<f>>) \/ work' = Raise(w)
    BY <1>5 DEF MayCreateCol
  <2> HIDE DEF f, uuid, user, s, room
  <2>3. Room(s, f) <= room
    BY <1>2, <2>1
  <2> QED
    BY <1>1, <2>2, <2>3, LowWays DEF s, room
<1> QED
  BY <1>3, <1>4, <1>5

LEMMA FitMore ==
    ASSUME NEW s, NEW S, NEW n \in Nat, NEW m \in Nat, Fit(s, S, m), m <= n
    PROVE  Fit(s, S, n)
<1>1. Len(S) \in Nat /\ \A f : Room(s, f) \in Nat
  BY RoomIs DEF Fit, IsSeq
<1>2. ASSUME NEW i \in 1..Len(S)
      PROVE  (Len(S) - i) + Room(s, S[i]) <= n
  <2>1. (Len(S) - i) + Room(s, S[i]) <= m
    BY DEF Fit
  <2> QED
    BY <1>1, <2>1
<1> QED
  BY <1>2 DEF Fit

(* What the kinds of changes need.                                         *)
LEMMA FitWrite ==
    ASSUME NEW s, NEW d, NEW col
    PROVE  Fit(s, Write(d, col), 14) /\ Len(Write(d, col)) = 2
<1> DEFINE f == <<"attr", d, col>>
           g == <<"attrDone">>
<1>1. Room(s, f) = 13 /\ Room(s, g) = 0
  BY RoomIs DEF OfUsers
<1>2. Write(d, col) = <<f, g>>
  BY DEF Write
<1> HIDE DEF f, g
<1>3. 14 \in Nat /\ 1 + Room(s, f) <= 14 /\ Room(s, g) <= 14
  BY <1>1
<1>4. Fit(s, <<f, g>>, 14) /\ Len(<<f, g>>) = 2
  BY <1>3, FitLiterals, Literals
<1> QED
  BY <1>2, <1>4

LEMMA LowRoleChange ==
    ASSUME IInv, Bounded, NEW w \in Workers, Grows(db, db'),
           UserRole(w) \/ FindRoleDoc(w)
    PROVE  Low(w)
<1> DEFINE c == Change(w)
           ur == UserRolesCol(c.of)
           ru == RoleUsersCol(c.role)
           room == Room(db, work[w].todo[1])
           s == db'
<1>1. Op(w) # "none" /\ room = 12
  <2>1. Op(w) # "none" /\ Op(w) \in {"userRole", "roleDoc"}
    BY DEF UserRole, FindRoleDoc
  <2>2. work[w].todo[1][1] \in {"userRole", "roleDoc"}
    BY <2>1, TopOf DEF IInv, Top
  <2> QED
    BY <2>1, <2>2, RoomIs
<1>2. CASE UserRole(w)
  <2> DEFINE f == <<"need", CREATE, ALL, NULL>>
             g == <<"col", ur>>
             h == <<"col", ru>>
             k == <<"roleDoc">>
             S == <<f, g, h, k>>
  <2>1. /\ Room(s, f) = 0 /\ Room(s, g) = 10 /\ Room(s, h) = 10
        /\ Room(s, k) = 12
    BY RoomIs DEF OfUsers
  <2>2. \/ work' = Raise(w)
        \/ \E id : work' = Now(w, [work[w] EXCEPT !.roleId = id], S)
    BY <1>2 DEF UserRole
  <2> HIDE DEF f, g, h, k, s, room
  <2>3. /\ S \in Seq({f, g, h, k}) /\ Len(S) = 4
        /\ S[1] = f /\ S[2] = g /\ S[3] = h /\ S[4] = k
    OBVIOUS
  <2> HIDE DEF S
  <2>4. IsSeq(S) /\ 1..4 = {1, 2, 3, 4}
    BY <2>3, SeqIsSeq
  <2>5. /\ (4 - 1) + Room(s, S[1]) <= 12 /\ (4 - 2) + Room(s, S[2]) <= 12
        /\ (4 - 3) + Room(s, S[3]) <= 12 /\ (4 - 4) + Room(s, S[4]) <= 12
    BY <2>1, <2>3
  <2>6. Fit(s, S, room)
    BY <1>1, <2>3, <2>4, <2>5 DEF Fit
  <2>7. ASSUME NEW id, work' = Now(w, [work[w] EXCEPT !.roleId = id], S)
        PROVE  Low(w)
    <3>1. SetsOther(w, id, S)
      BY <2>7 DEF SetsOther
    <3>2. IsProc(work[w]) /\ Shapes
      BY <1>1, TopOf DEF IInv, Tables, Top
    <3>3. Pushed(w, S)
      BY <3>1, <3>2, PushedNow
    <3> QED
      BY <1>1, <2>6, <3>3, LowWays DEF s, room
  <2> QED
    BY <1>1, <2>2, <2>7, LowWays
<1>3. CASE FindRoleDoc(w)
  <2> DEFINE needs == <<<<"need", DESTROY, ur, NULL>>,
                        <<"need", DESTROY, ru, NULL>>>>
             destroys == IF c.add THEN <<>> ELSE needs
             first(d) == <<<<"need", CREATE, ur, d>>,
                           <<"need", CREATE, ru, RoleDoc(d)>>,
                           <<"doc", d, ur, c.of>>,
                           <<"doc", RoleDoc(d), ru, c.of>>>>
             last(d) == <<<<"doc", d, ur, c.by>>, <<"fork", d>>>>
             S(d) == (first(d) \o destroys) \o last(d)
  <2>1. \/ work' = Raise(w)
        \/ \E d \in RoleDocs(w) : work' = Push(w, S(d))
    BY <1>3 DEF FindRoleDoc
  <2>2. ASSUME NEW d PROVE Fit(s, S(d), 12)
    <3> DEFINE f == <<"need", CREATE, ur, d>>
               g == <<"need", CREATE, ru, RoleDoc(d)>>
               h == <<"doc", d, ur, c.of>>
               k == <<"doc", RoleDoc(d), ru, c.of>>
               x == <<"need", DESTROY, ur, NULL>>
               y == <<"need", DESTROY, ru, NULL>>
               v == <<"doc", d, ur, c.by>>
               z == <<"fork", d>>
               F == <<f, g, h, k>>
    <3>1. /\ Room(s, f) = 0 /\ Room(s, g) = 0 /\ Room(s, h) = 0
          /\ Room(s, k) = 0 /\ Room(s, x) = 0 /\ Room(s, y) = 0
          /\ Room(s, v) = 0 /\ Room(s, z) = 0
      BY RoomIs DEF OfUsers
    <3>2. first(d) = F /\ needs = <<x, y>> /\ last(d) = <<v, z>>
      OBVIOUS
    <3> HIDE DEF f, g, h, k, x, y, v, z, ur, ru, c, s
    <3>3. /\ F \in Seq({f, g, h, k}) /\ Len(F) = 4
          /\ F[1] = f /\ F[2] = g /\ F[3] = h /\ F[4] = k
      OBVIOUS
    <3> HIDE DEF F
    <3>4. Fit(s, F, 3)
      <4>1. IsSeq(F) /\ 1..4 = {1, 2, 3, 4}
        BY <3>3, SeqIsSeq
      <4>2. /\ (4 - 1) + Room(s, F[1]) <= 3 /\ (4 - 2) + Room(s, F[2]) <= 3
            /\ (4 - 3) + Room(s, F[3]) <= 3 /\ (4 - 4) + Room(s, F[4]) <= 3
        BY <3>1, <3>3
      <4> QED
        BY <3>3, <4>1, <4>2 DEF Fit
    <3>5. /\ Fit(s, <<x, y>>, 1) /\ Fit(s, <<v, z>>, 1) /\ Fit(s, <<>>, 1)
          /\ Len(<<x, y>>) = 2 /\ Len(<<v, z>>) = 2 /\ Len(<<>>) = 0
      <4>1. /\ 1 + Room(s, x) <= 1 /\ Room(s, y) <= 1 /\ 1 \in Nat
            /\ 1 + Room(s, v) <= 1 /\ Room(s, z) <= 1
        BY <3>1
      <4>2. Fit(s, <<x, y>>, 1) /\ Fit(s, <<v, z>>, 1)
        BY <4>1, FitLiterals
      <4>3. Fit(s, <<>>, 1)
        BY <4>1, FitLiterals
      <4> QED
        BY <4>2, <4>3, Literals
    <3> HIDE DEF first, needs, last
    <3>6. Fit(s, destroys, 1) /\ Len(destroys) \in Nat /\ Len(destroys) <= 2
      BY <3>2, <3>5
    <3> HIDE DEF destroys
    <3>7. Fit(s, first(d) \o destroys, 5)
      BY <3>2, <3>4, <3>6, FitJoined, FitMore
    <3>8. /\ 5 \in Nat /\ 12 \in Nat /\ 1 \in Nat
          /\ 5 + 2 <= 12 /\ 1 <= 12
      OBVIOUS
    <3>9. Fit(s, last(d), 12) /\ Len(last(d)) = 2
      BY <3>2, <3>5, <3>8, FitMore
    <3> DEFINE A == first(d) \o destroys
               B == last(d)
    <3> HIDE DEF A, B
    <3>10. Fit(s, A \o B, 12)
      BY <3>7, <3>8, <3>9, FitJoined DEF A, B
    <3> QED
      BY <3>10 DEF A, B
  <2> HIDE DEF S
  <2>3. ASSUME NEW d, work' = Push(w, S(d)) PROVE Low(w)
    BY <1>1, <2>2, <2>3, LowWays DEF s, room
  <2> QED
    BY <1>1, <2>1, <2>3, LowWays
<1> QED
  BY <1>2, <1>3

LEMMA LowRecord ==
    ASSUME IInv, Bounded, NEW w \in Workers, Grows(db, db'), Record(w)
    PROVE  Low(w)
<1> DEFINE c == Change(w)
           d == Arg(w, 1)
           col == Arg(w, 2)
           S == Options(c, d, col)
           room == Room(db, work[w].todo[1])
           s == db'
<1>1. Op(w) # "none" /\ room = 13
  <2>1. Op(w) # "none" /\ Op(w) = "record"
    BY DEF Record
  <2>2. work[w].todo[1][1] = "record"
    BY <2>1, TopOf DEF IInv, Top
  <2> QED
    BY <2>1, <2>2, RoomIs DEF OfUsers
<1> DEFINE a == <<"getRole", c.role, c.by, c.by>>
           b == <<"addMember", c.of, d>>
           e == <<"removeMember", c.of, c.role>>
           f == <<"insertUser", c.of, c.at>>
           g == <<"setPolicy", col>>
<1>2. S \in {<<a, b>>, <<a, g>>, <<e>>, <<f>>, <<>>}
  BY DEF Options
<1>3. Room(s, b) = 0 /\ Room(s, e) = 0 /\ Room(s, f) = 13 /\ Room(s, g) = 0
  BY RoomIs DEF OfUsers
<1>4. Room(s, a) \in Nat /\ Room(s, a) <= 10
  <2>1. Room(s, a) = IF Listed(s, c.role) THEN 0
                     ELSE NewRole(s, c.role, c.by)
    BY RoomIs
  <2>2. NewRole(s, c.role, c.by) \in {5, 10}
    BY DEF NewRole, Fresh
  <2> HIDE DEF a, c
  <2> QED
    BY <2>1, <2>2
<1>5. work' = Return(w) \/ work' = Push(w, S)
  BY DEF Record, Return
<1> HIDE DEF a, b, e, f, g, c, d, col, s, room, S
<1>6. Fit(s, S, 13)
  <2>1. /\ 13 \in Nat /\ 1 + Room(s, a) <= 13 /\ Room(s, b) <= 13
        /\ Room(s, e) <= 13 /\ Room(s, f) <= 13 /\ Room(s, g) <= 13
    BY <1>3, <1>4
  <2>2. /\ Fit(s, <<a, b>>, 13) /\ Fit(s, <<a, g>>, 13)
        /\ Fit(s, <<e>>, 13) /\ Fit(s, <<f>>, 13) /\ Fit(s, <<>>, 13)
    BY <2>1, FitLiterals
  <2> QED
    BY <1>2, <2>2
<1> QED
  BY <1>1, <1>5, <1>6, LowWays DEF s, room

(* Statements that push one that needs no more, or none.                   *)
LEMMA LowOne ==
    ASSUME IInv, Bounded, NEW w \in Workers, Grows(db, db'),
           \/ FindUser(w) \/ MayCreateUser(w) \/ GetUser(w) \/ Col(w)
           \/ GetDoc(w) \/ CreateAttr(w)
    PROVE  Low(w)
<1> DEFINE room == Room(db, work[w].todo[1])
           s == db'
<1>1. /\ Op(w) # "none" /\ work[w].todo[1][1] = Op(w)
  <2>1. Op(w) # "none"
    BY DEF FindUser, MayCreateUser, GetUser, Col, GetDoc, CreateAttr
  <2> QED
    BY <2>1, TopOf DEF IInv, Top
<1>2. /\ Op(w) \in OfUsers => room = 13
      /\ Op(w) = "col" => room = 10
      /\ Op(w) = "doc" => room = 0
  <2>1. \A f : /\ f[1] \in OfUsers => Room(db, f) = 13
               /\ f[1] = "col" => Room(db, f) = 10
               /\ f[1] = "doc" => Room(db, f) = 0
    BY RoomIs DEF OfUsers
  <2> QED
    BY <1>1, <2>1
<1>3. /\ \A f : work' = Push(w, <<f>>) /\ Room(s, f) <= room => Low(w)
      /\ \A x, f : SetsOther(w, x, <<f>>) /\ Room(s, f) <= room => Low(w)
      /\ \A x : SetsOther(w, x, <<>>) => Low(w)
      /\ work' = Return(w) => Low(w)
      /\ work' = Raise(w) => Low(w)
  BY <1>1, LowWays
<1> HIDE DEF room, s
<1>4. CASE FindUser(w)
  <2> DEFINE a == <<"mayCreateUser", Arg(w, 1)>>
  <2>1. Room(s, a) = 13 /\ room = 13
    BY <1>2, <1>4, RoomIs DEF FindUser, OfUsers
  <2>2. \E x : SetsOther(w, x, <<a>>)
    BY <1>4 DEF FindUser, SetsOther
  <2> HIDE DEF a
  <2>3. Room(s, a) <= room
    BY <2>1
  <2> QED
    BY <1>3, <2>2, <2>3
<1>5. CASE MayCreateUser(w)
  <2> DEFINE a == <<"getUser", Arg(w, 1)>>
  <2>1. Room(s, a) = 13 /\ room = 13
    BY <1>2, <1>5, RoomIs DEF MayCreateUser, OfUsers
  <2>2. work' = Push(w, <<a>>) \/ \E x : SetsOther(w, x, <<>>)
    BY <1>5 DEF MayCreateUser, SetsOther
  <2> HIDE DEF a
  <2>3. Room(s, a) <= room
    BY <2>1
  <2> QED
    BY <1>3, <2>2, <2>3
<1>6. CASE GetUser(w)
  <2> DEFINE a == <<"insertUser", Arg(w, 1), 0>>
  <2>1. Room(s, a) = 13 /\ room = 13
    BY <1>2, <1>6, RoomIs DEF GetUser, OfUsers
  <2>2. work' = Push(w, <<a>>) \/ \E x : SetsOther(w, x, <<>>)
    BY <1>6 DEF GetUser, UserKnown, SetsOther
  <2> HIDE DEF a
  <2>3. Room(s, a) <= room
    BY <2>1
  <2> QED
    BY <1>3, <2>2, <2>3
<1>7. CASE Col(w)
  <2> DEFINE a == <<"createCol", Arg(w, 1)>>
  <2>1. Room(s, a) = 10 /\ room = 10
    BY <1>2, <1>7, RoomIs DEF Col
  <2>2. \/ work' = Push(w, <<a>>) \/ work' = Return(w)
        \/ \E x : SetsOther(w, x, <<>>)
    BY <1>7 DEF Col, SetsOther
  <2> HIDE DEF a
  <2>3. Room(s, a) <= room
    BY <2>1
  <2> QED
    BY <1>3, <2>2, <2>3
<1>8. CASE GetDoc(w)
  <2> DEFINE a == <<"createDoc", Arg(w, 1), Arg(w, 2), Arg(w, 3)>>
  <2>1. Room(s, a) = 0 /\ room = 0
    BY <1>2, <1>8, RoomIs DEF GetDoc, OfUsers
  <2>2. \/ work' = Push(w, <<a>>) \/ work' = Return(w)
        \/ \E x : SetsOther(w, x, <<>>)
    BY <1>8 DEF GetDoc, DocKnown, SetsOther
  <2> HIDE DEF a
  <2>3. Room(s, a) <= room
    BY <2>1
  <2> QED
    BY <1>3, <2>2, <2>3
<1>9. CASE CreateAttr(w)
  <2> DEFINE a == <<"record", Arg(w, 1), Arg(w, 2)>>
  <2>1. Room(s, a) = 13 /\ room = 13
    BY <1>2, <1>9, RoomIs DEF CreateAttr, OfUsers
  <2>2. \/ work' = Push(w, <<a>>) \/ work' = Return(w)
        \/ work' = Raise(w)
    BY <1>9 DEF CreateAttr
  <2> HIDE DEF a
  <2>3. Room(s, a) <= room
    BY <2>1
  <2> QED
    BY <1>3, <2>2, <2>3
<1> QED
  BY <1>4, <1>5, <1>6, <1>7, <1>8, <1>9

LEMMA LowNone ==
    ASSUME IInv, Bounded, NEW w \in Workers, Grows(db, db'),
           \/ UserDoc(w) \/ UserMade(w) \/ UpdateUser(w) \/ KnowCol(w)
           \/ ColMade(w) \/ SelectRows(w) \/ ReplaceRows(w) \/ RoleMade(w)
           \/ AddMember(w) \/ RemoveMember(w) \/ HasNoId(w) \/ Need(w)
           \/ CreateDoc(w) \/ SetPolicy(w) \/ AttrDone(w)
    PROVE  Low(w)
<1>1. Op(w) # "none"
  BY StepsOn DEF Step
<1>2. /\ \A x : SetsOther(w, x, <<>>) => Low(w)
      /\ \A x : work' = Now(w, [work[w] EXCEPT !.seen = x], <<>>) => Low(w)
      /\ work' = Return(w) => Low(w)
      /\ work' = Raise(w) => Low(w)
  BY <1>1, LowWays
<1>3. work' = [work EXCEPT ![w] = Idle] => Low(w)
  <2>1. MostStatements - 1 \in Nat
    BY DEF MostStatements
  <2>2. Fit(db', <<>>, MostStatements - 1)
    BY <2>1, FitLiterals
  <2>3. work' = [work EXCEPT ![w] = Idle] => work'[w].todo = <<>>
    BY DEF IInv, Tables, Shapes, Idle
  <2> QED
    BY <2>2, <2>3 DEF Low
<1>4. CASE UserDoc(w) \/ UpdateUser(w) \/ AddMember(w) \/ SetPolicy(w)
  BY <1>2, <1>4 DEF UserDoc, UpdateUser, AddMember, SetPolicy
<1>5. CASE ReplaceRows(w) \/ RemoveMember(w) \/ HasNoId(w) \/ Need(w)
  BY <1>2, <1>5 DEF ReplaceRows, RemoveMember, HasNoId, Need
<1>6. CASE UserMade(w) \/ KnowCol(w)
  BY <1>2, <1>6 DEF UserMade, UserKnown, KnowCol, SetsOther
<1>7. CASE ColMade(w) \/ RoleMade(w)
  BY <1>2, <1>7 DEF ColMade, RoleMade, RoleFound, SetsOther
<1>8. CASE SelectRows(w)
  BY <1>2, <1>8 DEF SelectRows
<1>9. CASE CreateDoc(w)
  <2>1. work' = Return(w) \/ \E x : SetsOther(w, x, <<>>)
    BY <1>9 DEF CreateDoc, DocKnown, SetsOther
  <2> QED
    BY <1>2, <2>1
<1>10. CASE AttrDone(w)
  BY <1>3, <1>10 DEF AttrDone
<1> QED
  BY <1>4, <1>5, <1>6, <1>7, <1>8, <1>9, <1>10

LEMMA BoundedStep ==
    ASSUME IInv, Bounded, NEW w \in Workers, Step(w), ~Fork(w)
    PROVE  Bounded'
<1>1. Effect(w) /\ Grows(db, db')
  BY StepKept DEF Kept, Effect
<1>2. \A v \in Workers : v # w => work'[v] = work[v]
  BY <1>1, WorkShape DEF Effect, IInv, Tables
<1>3. Low(w)
  BY <1>1, LowOne, LowNone, LowInsertUser, LowCols, LowDefaults, LowRoles,
     LowRoleChange, LowRecord DEF Step
<1>4. ASSUME NEW v \in Workers, v # w
      PROVE  Fit(db', work[v].todo, MostStatements - 1)
  <2>1. MostStatements - 1 \in Nat
    BY DEF MostStatements
  <2> QED
    BY <1>1, <2>1, FitGrows DEF Bounded
<1> QED
  BY <1>2, <1>3, <1>4 DEF Bounded, Low

LEMMA FitProgram ==
    ASSUME NEW s, NEW c \in Everything
    PROVE  Fit(s, Program(c), 18)
<1> DEFINE f(u) == <<"findUser", u>>
           one == IF c.by # Nobody THEN <<f(c.by)>> ELSE <<>>
           two == IF c.of \notin {c.by, Nobody} THEN <<f(c.of)>> ELSE <<>>
           head(doc, col) == <<<<"col", col>>, <<"doc", doc, col, c.by>>>>
<1>1. /\ 13 \in Nat /\ 14 \in Nat /\ 12 \in Nat /\ 18 \in Nat
      /\ 13 + 1 <= 14 /\ 14 + 4 <= 18 /\ 14 + 1 <= 18 /\ 11 + 2 <= 14
      /\ 11 \in Nat /\ 13 <= 14 /\ 12 <= 18 /\ 14 <= 18
  OBVIOUS
<1>2. Fit(s, FindUsers(c), 14)
  <2>1. \A u : Room(s, f(u)) <= 13
    <3> SUFFICES ASSUME NEW u PROVE Room(s, f(u)) <= 13
      OBVIOUS
    <3>1. Room(s, f(u)) = 13
      BY RoomIs DEF OfUsers
    <3> HIDE DEF f
    <3> QED
      BY <3>1
  <2> HIDE DEF f
  <2>2. /\ \A u : Fit(s, <<f(u)>>, 13) /\ Len(<<f(u)>>) = 1
        /\ Fit(s, <<>>, 13) /\ Len(<<>>) = 0
    BY <1>1, <2>1, FitLiterals, Literals
  <2>3. Fit(s, one, 13) /\ Fit(s, two, 13) /\ Len(two) \in {0, 1}
    BY <2>2
  <2>4. FindUsers(c) = one \o two
    BY DEF FindUsers, f
  <2> HIDE DEF one, two
  <2>5. Fit(s, two, 14)
    BY <1>1, <2>3, FitMore
  <2>6. 13 + Len(two) <= 14
    <3>1. \A n : n \in {0, 1} => 13 + n <= 14
      OBVIOUS
    <3>2. Len(two) \in {0, 1}
      BY <2>3
    <3> QED
      BY <3>1, <3>2
  <2> QED
    BY <1>1, <2>3, <2>4, <2>5, <2>6, FitJoined
<1>3. CASE c.kind = "role"
  <2> DEFINE g == <<"userRole">>
             S == <<g>>
  <2>1. Room(s, g) = 12 /\ Program(c) = FindUsers(c) \o S
    BY <1>3, RoomIs DEF Program
  <2> HIDE DEF g
  <2>2. Room(s, g) <= 18
    BY <2>1
  <2>3. Fit(s, S, 18) /\ Len(S) = 1
    BY <1>1, <2>2, FitLiterals, Literals
  <2> HIDE DEF S
  <2> QED
    BY <1>1, <1>2, <2>1, <2>3, FitJoined
<1>4. ASSUME NEW doc, NEW col,
             Program(c) = FindUsers(c) \o
               (head(doc, col) \o Write(doc, col))
      PROVE  Fit(s, Program(c), 18)
  <2> DEFINE g == <<"col", col>>
             h == <<"doc", doc, col, c.by>>
             S == <<g, h>>
             W == Write(doc, col)
  <2>1. Room(s, g) = 10 /\ Room(s, h) = 0
    BY RoomIs DEF OfUsers
  <2>2. Program(c) = FindUsers(c) \o (S \o W)
    BY <1>4
  <2> HIDE DEF g, h
  <2>3. 1 + Room(s, g) <= 11 /\ Room(s, h) <= 11
    BY <2>1
  <2>4. Fit(s, S, 11) /\ Len(S) = 2
    BY <1>1, <2>3, FitLiterals, Literals
  <2>5. Fit(s, W, 14) /\ Len(W) = 2
    BY FitWrite
  <2> HIDE DEF S, W
  <2>6. Fit(s, S \o W, 14)
    BY <1>1, <2>4, <2>5, FitJoined
  <2>7. Len(S \o W) = 4
    <3>1. Len(S \o W) = Len(S) + Len(W)
      BY <2>4, <2>5, JoinedSeq DEF Fit
    <3> QED
      BY <2>4, <2>5, <3>1
  <2>8. Fit(s, S \o W, 18)
    BY <1>1, <2>6, FitMore
  <2>9. 14 + Len(S \o W) <= 18
    BY <2>7
  <2> QED
    BY <1>1, <1>2, <2>2, <2>8, <2>9, FitJoined
<1>5. CASE c.kind = "user"
  <2>1. Program(c) = FindUsers(c) \o
          (head(<<"$u", c.of>>, USER) \o Write(<<"$u", c.of>>, USER))
    BY <1>5 DEF Program
  <2> QED
    BY <1>4, <2>1
<1>6. CASE c.kind \in {"write", "policy"}
  <2>1. Program(c) = FindUsers(c) \o
          (head(c.doc, c.col) \o Write(c.doc, c.col))
    BY <1>6 DEF Program
  <2> QED
    BY <1>4, <2>1
<1> QED
  BY <1>3, <1>5, <1>6, AccountsAssumption DEF IsChange

LEMMA BoundedNext ==
    ASSUME IInv, Bounded, [Next]_vars
    PROVE  Bounded'
<1>0. MostStatements - 1 = 18 /\ 18 \in Nat
  BY DEF MostStatements
<1>1. CASE UNCHANGED <<tables, work>>
  BY <1>1 DEF Bounded, db, tables
<1>2. ASSUME NEW w \in Workers, Crash(w) PROVE Bounded'
  <2>1. /\ work' = [work EXCEPT ![w] = Idle, ![Twin(w)] = Idle]
        /\ db' = db /\ Idle.todo = <<>>
    BY <1>2 DEF Crash, tables, db, Idle
  <2>2. \A v \in Workers : work'[v] = work[v] \/ work'[v] = Idle
    BY <2>1, BothWork DEF IInv, Tables
  <2>3. Fit(db, <<>>, 18)
    BY <1>0, FitLiterals
  <2> QED
    BY <1>0, <2>1, <2>2, <2>3 DEF Bounded
<1>3. ASSUME NEW w \in Workers, NEW c \in queue, Take(w, c) PROVE Bounded'
  <2>1. /\ work'[w].todo = Program(c) /\ db' = db
        /\ \A v \in Workers : v # w => work'[v] = work[v]
    BY <1>3 DEF Take, IInv, Tables, Shapes, tables, db
  <2>2. c \in Everything
    BY DEF IInv, SentOK
  <2>3. Fit(db, Program(c), 18)
    BY <2>2, FitProgram
  <2> QED
    BY <1>0, <2>1, <2>3 DEF Bounded
<1>4. ASSUME NEW w \in Workers, Fork(w) PROVE Bounded'
  <2>1. /\ db' = db
        /\ \A v \in Workers \ {w, Twin(w)} : work'[v] = work[v]
    BY <1>4, Forked DEF OnlyWork, tables, db
  <2>2. /\ \E doc, col : work'[w].todo = Write(doc, col)
        /\ \E doc, col : work'[Twin(w)].todo = Write(doc, col)
    BY <1>4, Forked DEF IsHalf
  <2>3. 14 \in Nat /\ 14 <= 18
    OBVIOUS
  <2>4. \A doc, col : Fit(db, Write(doc, col), 18)
    BY <1>0, <2>3, FitWrite, FitMore
  <2> QED
    BY <1>0, <2>1, <2>2, <2>4 DEF Bounded
<1>5. Queue => UNCHANGED <<tables, work>>
  BY DEF Queue
<1>6. UNCHANGED vars => UNCHANGED <<tables, work>>
  BY DEF vars, tables
<1> QED
  BY <1>1, <1>2, <1>3, <1>4, <1>5, <1>6, BoundedStep DEF Next

(* A process is never more than MostStatements statements deep in the      *)
(* chain of users, collections, policies, roles and their collections that *)
(* create one another: a role is inserted before what needs it, and once   *)
(* inserted is found (roles.js:41-44, 120-140, users.js:164-183).          *)
THEOREM DepthBounded == Spec => []RecursionEnds
<1>1. Init => Bounded
  <2> SUFFICES ASSUME Init, NEW w \in Workers
               PROVE  Fit(db, work[w].todo, MostStatements - 1)
    BY DEF Bounded
  <2>1. work[w].todo = <<>>
    BY DEF Init, Idle
  <2>2. MostStatements - 1 \in Nat
    BY DEF MostStatements
  <2> QED
    BY <2>1, <2>2, FitLiterals
<1>2. IInv /\ Bounded /\ [Next]_vars => Bounded'
  BY BoundedNext
<1>3. Bounded => RecursionEnds
  <2> SUFFICES ASSUME Bounded, NEW w \in Workers
               PROVE  Len(work[w].todo) <= MostStatements
    BY DEF RecursionEnds
  <2> DEFINE T == work[w].todo
  <2>1. /\ Len(T) \in Nat /\ MostStatements = 19
        /\ \A i \in 1..Len(T) :
             (Len(T) - i) + Room(db, T[i]) <= MostStatements - 1
    BY DEF Bounded, Fit, IsSeq, MostStatements
  <2>2. Room(db, T[1]) \in Nat
    BY RoomIs
  <2> HIDE DEF T
  <2>3. Len(T) >= 1 => (Len(T) - 1) + Room(db, T[1]) <= MostStatements - 1
    BY <2>1
  <2>4. Len(T) <= MostStatements
    BY <2>1, <2>2, <2>3
  <2> QED
    BY <2>4 DEF T
<1> QED
  BY <1>1, <1>2, <1>3, Invariant, PTL DEF Spec

==============================================================================
