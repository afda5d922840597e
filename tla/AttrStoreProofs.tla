-------------------------- MODULE AttrStoreProofs ---------------------------
(***************************************************************************)
(* Machine-checked theorems about AttrStore, for any number of writers,    *)
(* names, changes and values.                                              *)
(***************************************************************************)
EXTENDS AttrStore, FiniteSetTheorems, TLAPS

(* A row, without the bookkeeping columns.                                 *)
Row == [name : Names, val : Values \cup {Null}, up : Nat, seq : Int]

(* What is queued has a sequence number (queue-attr-rec.js:29).            *)
LEMMA DeltaType ==
    \A d \in Deltas : /\ d.name \in Names /\ d.val \in Values \cup {Null}
                      /\ d.up \in Nat /\ d.seq \in Int /\ d.quorum \in BOOLEAN
BY AttrStoreAssumption DEF Deltas, Queued, QueuedSeq

LEMMA KeyType == /\ Keys \subseteq Row
                 /\ NoRow \notin Keys
                 /\ \A d \in Deltas : Key(d) \in Keys /\ Key(d).name = d.name
BY DeltaType, AttrStoreAssumption DEF Keys, Key, Row

LEMMA TypeStep ==
    ASSUME TypeOK, [Next]_vars PROVE TypeOK'
<1> USE DEF TypeOK
<1>1. ASSUME NEW w \in Writers, NEW d \in Deltas, NEW p \in Parts,
             Start(w, d, p)
      PROVE  TypeOK'
  BY <1>1 DEF Start, FirstStatement, Parts
<1>2. ASSUME NEW w \in Writers, Insert(w) PROVE TypeOK'
  BY <1>2, KeyType DEF Insert, Done, Row
<1>3. ASSUME NEW w \in Writers, InsertRefused(w) PROVE TypeOK'
  BY <1>3 DEF InsertRefused
<1>4. ASSUME NEW w \in Writers, Update(w) PROVE TypeOK'
  BY <1>4, KeyType DEF Update, Updated, Done, Row
<1>5. ASSUME NEW w \in Writers, CheckFound(w) PROVE TypeOK'
  BY <1>5 DEF CheckFound, Done, Parts
<1>6. ASSUME NEW w \in Writers, CheckMissing(w) PROVE TypeOK'
  BY <1>6 DEF CheckMissing
<1>7. ASSUME NEW w \in Writers, Create(w) PROVE TypeOK'
  BY <1>7 DEF Create, Done, Parts
<1>8. ASSUME NEW w \in Writers, Crash(w) PROVE TypeOK'
  BY <1>8 DEF Crash, Done, Parts
<1>9. CASE UNCHANGED vars
  BY <1>9 DEF vars
<1> QED
  BY <1>1, <1>2, <1>3, <1>4, <1>5, <1>6, <1>7, <1>8, <1>9 DEF Next, Step

(* Types and the pairing of statements with partitions (attr-rec.js:       *)
(* 164-172): LATEST is replaced, the other partitions only added to.       *)
THEOREM TypeCorrect == Spec => []TypeOK
<1>1. Init => TypeOK
  BY DEF Init, TypeOK, Parts
<1> QED
  BY <1>1, TypeStep, PTL DEF Spec

-----------------------------------------------------------------------------
(* A row of LATEST is only ever followed by a row that is not older: what  *)
(* the WHERE clause of AttrRec.update (attr-rec.js:130-152) is for.  No    *)
(* assumption on the collation is needed.                                  *)
THEOREM NeverRegresses == Spec => LatestNeverRegresses
<1> DEFINE NR == \A n \in Names : latest[n] # NoRow =>
                   latest'[n] # NoRow /\ NotOlder(latest'[n], latest[n])
<1>1. TypeOK /\ [Next]_vars => NR
  <2> SUFFICES ASSUME TypeOK, [Next]_vars, NEW n \in Names, latest[n] # NoRow
               PROVE  latest'[n] # NoRow /\ NotOlder(latest'[n], latest[n])
    OBVIOUS
  <2>1. latest[n] \in Row
    BY DEF TypeOK, Row
  <2>2. NotOlder(latest[n], latest[n])
    BY <2>1 DEF NotOlder, Row
  <2>3. CASE \E w \in Writers : Insert(w)
    BY <2>2, <2>3 DEF Insert, TypeOK
  <2>4. CASE \E w \in Writers : Update(w)
    <3>1. PICK w \in Writers : Update(w)
      BY <2>4
    <3>2. delta[w] \in Deltas /\ Key(delta[w]) \in Keys
      BY <3>1, KeyType DEF Update, TypeOK
    <3>3. Key(delta[w]) # NoRow /\ Key(delta[w]) \in Row
      BY <3>2, KeyType
    <3>4. Replaces(Key(delta[w]), latest[n])
            => NotOlder(Key(delta[w]), latest[n])
      BY <2>1, <3>3 DEF Replaces, NotOlder, Row
    <3>5. latest'[n] \in {latest[n], Updated(latest[n], Key(delta[w]))}
      BY <3>1 DEF Update, TypeOK
    <3> QED
      BY <2>2, <3>3, <3>4, <3>5 DEF Updated
  <2>5. CASE latest' = latest
    BY <2>2, <2>5
  <2> QED
    BY <2>3, <2>4, <2>5 DEF Next, Step, Start, InsertRefused, CheckFound,
                            CheckMissing, Create, Crash, vars
<1> QED
  BY <1>1, TypeCorrect, PTL DEF Spec, LatestNeverRegresses

-----------------------------------------------------------------------------
(* The race between checking for a record and creating it                  *)
(* (attr-rec.js:112-124) adds at most one copy per concurrent writer.  The *)
(* bound alone is not inductive: a writer that has checked will add a copy *)
(* whatever is there by then, so the writers about to create count too.    *)
LEMMA CreatorsFinite ==
    \A p \in Logs, d \in Deltas :
       /\ IsFiniteSet(Creators(p, d))
       /\ Cardinality(Creators(p, d)) \in Nat
       /\ Cardinality(Creators(p, d)) <= Cardinality(Writers)
       /\ Cardinality(Writers) \in Nat
<1> SUFFICES ASSUME NEW p \in Logs, NEW d \in Deltas
             PROVE  /\ IsFiniteSet(Creators(p, d))
                    /\ Cardinality(Creators(p, d)) \in Nat
                    /\ Cardinality(Creators(p, d)) <= Cardinality(Writers)
                    /\ Cardinality(Writers) \in Nat
  OBVIOUS
<1>1. Creators(p, d) \subseteq Writers
  BY DEF Creators
<1> QED
  BY <1>1, AttrStoreAssumption, FS_Subset, FS_CardinalityType

THEOREM CopiesAreBounded == Spec => []CopiesBounded
<1> DEFINE IInv == TypeOK /\ CopiesAndCreators
<1>1. Init => IInv
  <2>1. Init => TypeOK
    BY DEF Init, TypeOK, Parts
  <2>2. Init => \A p \in Logs, d \in Deltas : copies[p][d] = 0
    BY DEF Init
  <2> QED
    BY <2>1, <2>2, CreatorsFinite DEF CopiesAndCreators
<1>2. IInv /\ [Next]_vars => CopiesAndCreators'
  <2> SUFFICES ASSUME TypeOK, CopiesAndCreators, [Next]_vars,
                      NEW p \in Logs, NEW d \in Deltas
               PROVE  copies'[p][d] + Cardinality(Creators(p, d)')
                        <= Cardinality(Writers)
    BY DEF CopiesAndCreators
  <2> DEFINE C == Creators(p, d)
  <2>1. /\ copies[p][d] \in Nat /\ IsFiniteSet(C) /\ IsFiniteSet(Writers)
        /\ Cardinality(C) \in Nat /\ Cardinality(Writers) \in Nat
        /\ copies[p][d] + Cardinality(C) <= Cardinality(Writers)
    BY CreatorsFinite, AttrStoreAssumption DEF TypeOK, CopiesAndCreators
  <2>2. ASSUME copies'[p][d] = copies[p][d], C' \subseteq C
        PROVE  copies'[p][d] + Cardinality(C') <= Cardinality(Writers)
    <3>1. Cardinality(C') \in Nat /\ Cardinality(C') <= Cardinality(C)
      BY <2>1, <2>2, FS_Subset, FS_CardinalityType
    <3> QED
      BY <2>1, <2>2, <3>1
  <2>3. CASE \E w \in Writers : CheckMissing(w)
    <3>1. PICK w \in Writers : CheckMissing(w)
      BY <2>3
    <3>2. CASE part[w] = p /\ delta[w] = d
      <4>1. copies[p][d] = 0 /\ copies' = copies
        BY <2>1, <3>1, <3>2 DEF CheckMissing, Found
      <4>2. C' \subseteq Writers
        BY DEF Creators
      <4>3. Cardinality(C') \in Nat /\ Cardinality(C') <= Cardinality(Writers)
        BY <2>1, <4>2, FS_Subset, FS_CardinalityType
      <4> QED
        BY <2>1, <4>1, <4>3
    <3>3. CASE ~(part[w] = p /\ delta[w] = d)
      BY <2>2, <3>1, <3>3 DEF CheckMissing, Creators, TypeOK
    <3> QED
      BY <3>2, <3>3
  <2>4. CASE \E w \in Writers : Create(w)
    <3>1. PICK w \in Writers : Create(w)
      BY <2>4
    <3>2. /\ delta[w] \in Deltas /\ part[w] \in Logs
          /\ copies' = [copies EXCEPT ![part[w]][delta[w]] = @ + 1]
          /\ C' = C \ {w}
      BY <3>1 DEF Create, Done, Creators, TypeOK
    <3>3. CASE part[w] = p /\ delta[w] = d
      <4>1. w \in C
        BY <3>1, <3>3 DEF Create, Creators
      <4>2. Cardinality(C \ {w}) = Cardinality(C) - 1
        BY <2>1, <4>1, FS_RemoveElement
      <4>3. copies'[p][d] = copies[p][d] + 1
        BY <3>2, <3>3 DEF TypeOK
      <4> QED
        BY <2>1, <3>2, <4>2, <4>3
    <3>4. CASE ~(part[w] = p /\ delta[w] = d)
      BY <2>2, <3>2, <3>4 DEF TypeOK
    <3> QED
      BY <3>3, <3>4
  <2>5. CASE copies' = copies /\ C' \subseteq C
    BY <2>2, <2>5
  <2>6. ASSUME NEW w \in Writers, NEW e \in Deltas, NEW q \in Parts,
               Start(w, e, q)
        PROVE  copies' = copies /\ C' \subseteq C
    BY <2>6 DEF Start, FirstStatement, Creators, TypeOK
  <2>7. ASSUME NEW w \in Writers,
               Insert(w) \/ InsertRefused(w) \/ Update(w) \/ CheckFound(w)
                 \/ Crash(w)
        PROVE  copies' = copies /\ C' \subseteq C
    BY <2>7 DEF Insert, InsertRefused, Update, CheckFound, Crash, Done,
                Creators, TypeOK
  <2>8. CASE UNCHANGED vars
    BY <2>2, <2>8 DEF vars, Creators
  <2> QED
    BY <2>3, <2>4, <2>5, <2>6, <2>7, <2>8 DEF Next, Step
<1>3. IInv => CopiesBounded
  <2> SUFFICES ASSUME IInv, NEW p \in Logs, NEW d \in Deltas
               PROVE  copies[p][d] <= Cardinality(Writers)
    BY DEF CopiesBounded
  <2> QED
    BY CreatorsFinite DEF TypeOK, CopiesAndCreators
<1> QED
  BY <1>1, <1>2, <1>3, TypeCorrect, PTL DEF Spec

-----------------------------------------------------------------------------
(* What the comparisons of TSV are about: three integers, the last of      *)
(* which tells values apart.                                               *)
LEMMA TextType ==
    /\ \A r \in Row : r.up \in Int /\ r.seq \in Int /\ Text(r.val) \in Int
    /\ \A a, b \in Row : Text(a.val) = Text(b.val) => a.val = b.val
<1>1. \A v \in Values : v \in Int /\ v # NullText /\ v # Null
  BY TsvAssumption
<1>2. \A r \in Row : /\ r.up \in Int /\ r.seq \in Int
                     /\ r.val = Null \/ r.val \in Values
  BY DEF Row
<1>3. \A v : v = Null => Text(v) = NullText
  BY DEF Text
<1>4. \A v \in Values : Text(v) = v
  BY <1>1 DEF Text
<1> QED
  BY <1>1, <1>2, <1>3, <1>4, TsvAssumption

(* TSV is a total order on rows of one name: no two different rows tie.    *)
LEMMA TsvTotal ==
    \A a, b \in Row : TsvLeq(a, b) \/ TsvLeq(b, a)
BY TextType DEF TsvLeq

LEMMA TsvAntisymmetric ==
    \A a, b \in Row : a.name = b.name /\ TsvLeq(a, b) /\ TsvLeq(b, a) => a = b
<1> SUFFICES ASSUME NEW a \in Row, NEW b \in Row, a.name = b.name,
                    TsvLeq(a, b), TsvLeq(b, a)
             PROVE  a = b
  OBVIOUS
<1>1. a.up = b.up /\ a.seq = b.seq /\ Text(a.val) = Text(b.val)
  BY TextType DEF TsvLeq
<1> QED
  BY <1>1, TextType DEF Row

(* A row may be shown although rec was written too.                        *)
Holds(row, rec) == TsvLeq(rec, row) \/ StandsAgainst(row, rec)

(* What the WHERE clause decides.  A record it lets through comes after    *)
(* the row; a record it stops comes before the row, or the row is a        *)
(* deletion that stands against it.                                        *)
LEMMA ReplacesIsTsv ==
    ASSUME NEW row \in Row, NEW key \in Row
    PROVE  /\ Replaces(key, row) => /\ TsvLeq(row, key)
                                    /\ ~StandsAgainst(row, key)
           /\ ~Replaces(key, row) => Holds(row, key)
<1>1. /\ row.up \in Int /\ row.seq \in Int /\ Text(row.val) \in Int
      /\ key.up \in Int /\ key.seq \in Int /\ Text(key.val) \in Int
  BY TextType
<1>2. CASE row.val = Null
  <2>1. Text(row.val) = NullText
    BY <1>2 DEF Text
  <2>2. CASE key.val = Null
    <3>1. Text(key.val) = NullText
      BY <2>2 DEF Text
    <3> QED
      BY <1>1, <1>2, <2>1, <2>2, <3>1
         DEF Replaces, TsvLeq, Holds, StandsAgainst
  <2>3. CASE key.val # Null
    <3>1. Text(key.val) = key.val
      BY <2>3 DEF Text
    <3> QED
      BY <1>1, <1>2, <2>1, <2>3, <3>1
         DEF Replaces, TsvLeq, Holds, StandsAgainst
  <2> QED
    BY <2>2, <2>3
<1>3. CASE row.val # Null
  <2>1. Text(row.val) = row.val
    BY <1>3 DEF Text
  <2> QED
    BY <1>1, <1>3, <2>1 DEF Replaces, TsvLeq, Holds, StandsAgainst
<1> QED
  BY <1>2, <1>3

(* A row that replaces another inherits what the other was shown over.     *)
LEMMA HoldsTransfers ==
    ASSUME NEW row \in Row, NEW key \in Row, NEW rec \in Row,
           Replaces(key, row), Holds(row, rec)
    PROVE  Holds(key, rec)
<1>1. TsvLeq(row, key)
  BY ReplacesIsTsv
<1>2. CASE TsvLeq(rec, row)
  BY <1>1, <1>2, TextType DEF TsvLeq, Holds
<1>3. CASE StandsAgainst(row, rec)
  <2>1. row.val = Null /\ row.up = rec.up /\ row.seq = rec.seq
    BY <1>3 DEF StandsAgainst
  <2>2. row.up < key.up \/ (row.up = key.up /\ row.seq < key.seq)
    BY <2>1 DEF Replaces
  <2>3. TsvLeq(rec, key)
    BY <2>1, <2>2 DEF TsvLeq
  <2> QED
    BY <2>3 DEF Holds
<1> QED
  BY <1>2, <1>3 DEF Holds

(* The abstract store and this one compare records in the same way.        *)
LEMMA WinnersAre ==
    \A S, n : Lww!Winners(S, n) =
       {k \in S : k.name = n /\ \A j \in S : j.name = n => Holds(k, j)}
BY DEF Lww!Winners, Lww!Of, Lww!TsvLeq, Lww!Text, Lww!StandsAgainst,
       Holds, TsvLeq, Text, StandsAgainst

(* The inductive invariant behind the winner: the row is one of the        *)
(* records LATEST was given, and may be shown over each of them.           *)
LatestHolds ==
    \A n \in Names :
       IF latest[n] = NoRow
       THEN \A k \in applied : k.name # n
       ELSE /\ latest[n] \in applied
            /\ latest[n].name = n
            /\ \A j \in applied : j.name = n => Holds(latest[n], j)

LEMMA HoldsIsWinner == TypeOK /\ LatestHolds => LatestIsWinner
<1> SUFFICES ASSUME TypeOK, LatestHolds, NEW n \in Names
             PROVE  latest[n] \in IF Lww!Of(applied, n) = {} THEN {NoRow}
                                  ELSE Lww!Winners(applied, n)
  BY DEF LatestIsWinner
<1>1. CASE latest[n] = NoRow
  BY <1>1 DEF LatestHolds, Lww!Of
<1>2. CASE latest[n] # NoRow
  <2>1. latest[n] \in Lww!Of(applied, n)
    BY <1>2 DEF LatestHolds, Lww!Of
  <2>2. latest[n] \in Lww!Winners(applied, n)
    BY <1>2, WinnersAre DEF LatestHolds
  <2> QED
    BY <2>1, <2>2
<1> QED
  BY <1>1, <1>2

(* Giving LATEST one more record of a name: by the first insert, or by an  *)
(* update that replaces the row or leaves it.                              *)
LEMMA ApplyKeepsHolding ==
    ASSUME TypeOK, LatestHolds, NEW k \in Keys,
           applied' = applied \cup {k},
           \/ latest[k.name] = NoRow /\ latest' = [latest EXCEPT ![k.name] = k]
           \/ /\ latest[k.name] # NoRow
              /\ latest' = [latest EXCEPT ![k.name] = Updated(@, k)]
    PROVE  LatestHolds'
<1> SUFFICES ASSUME NEW n \in Names
             PROVE  IF latest'[n] = NoRow
                    THEN \A j \in applied' : j.name # n
                    ELSE /\ latest'[n] \in applied'
                         /\ latest'[n].name = n
                         /\ \A j \in applied' :
                               j.name = n => Holds(latest'[n], j)
  BY DEF LatestHolds
<1>1. k \in Row /\ k # NoRow /\ applied \subseteq Row
  BY KeyType DEF TypeOK
<1>2. CASE n # k.name
  <2>1. latest'[n] = latest[n]
    BY <1>2 DEF TypeOK
  <2>2. IF latest[n] = NoRow
        THEN \A j \in applied : j.name # n
        ELSE /\ latest[n] \in applied
             /\ latest[n].name = n
             /\ \A j \in applied : j.name = n => Holds(latest[n], j)
    BY DEF LatestHolds
  <2> QED
    BY <1>2, <2>1, <2>2
<1>3. CASE n = k.name /\ latest[n] = NoRow
  <2>1. latest'[n] = k /\ \A j \in applied : j.name # n
    BY <1>3 DEF TypeOK, LatestHolds
  <2>2. Holds(k, k)
    BY <1>1, TsvTotal DEF Holds
  <2> QED
    BY <1>1, <1>3, <2>1, <2>2
<1>4. CASE n = k.name /\ latest[n] # NoRow
  <2> DEFINE row == latest[n]
  <2>1. /\ row \in applied /\ row \in Row /\ row.name = n
        /\ \A j \in applied : j.name = n => Holds(row, j)
    BY <1>1, <1>4 DEF LatestHolds
  <2>2. latest'[n] = IF Replaces(k, row) THEN k ELSE row
    BY <1>4 DEF TypeOK, Updated
  <2>3. CASE Replaces(k, row)
    <3>1. Holds(k, k)
      BY <1>1, TsvTotal DEF Holds
    <3>2. \A j \in applied : j.name = n => Holds(k, j)
      BY <1>1, <2>1, <2>3, HoldsTransfers
    <3> QED
      BY <1>1, <1>4, <2>2, <2>3, <3>1, <3>2
  <2>4. CASE ~Replaces(k, row)
    <3>1. Holds(row, k)
      BY <1>1, <2>1, <2>4, ReplacesIsTsv
    <3> QED
      BY <1>4, <2>1, <2>2, <2>4, <3>1
  <2> QED
    BY <2>3, <2>4
<1> QED
  BY <1>2, <1>3, <1>4

(* The first insert needs no row; a refused insert is followed by an       *)
(* update, and rows never disappear, so the update always finds one.       *)
RowThere == \A w \in Writers : pc[w] = "update" => latest[delta[w].name] # NoRow

LatestInv == TypeOK /\ RowThere /\ LatestHolds

LEMMA LatestInvInit == Init => LatestInv
BY DEF Init, LatestInv, TypeOK, Parts, RowThere, LatestHolds

LEMMA LatestInvNext ==
    ASSUME LatestInv, [Next]_vars
    PROVE  LatestInv'
<1> USE DEF LatestInv
<1>1. TypeOK'
  BY TypeStep
<1>2. CASE \E w \in Writers : Insert(w)
  <2>1. PICK w \in Writers : Insert(w)
    BY <1>2
  <2> DEFINE k == Key(delta[w])
  <2>2. k \in Keys /\ k.name = delta[w].name /\ k # NoRow
    BY <2>1, KeyType DEF Insert, TypeOK
  <2>3. LatestHolds'
    BY <2>1, <2>2, ApplyKeepsHolding DEF Insert
  <2>4. RowThere'
    BY <2>1, <2>2 DEF Insert, Done, RowThere, TypeOK
  <2> QED
    BY <1>1, <2>3, <2>4
<1>3. CASE \E w \in Writers : Update(w)
  <2>1. PICK w \in Writers : Update(w)
    BY <1>3
  <2> DEFINE k == Key(delta[w])
  <2>2. k \in Keys /\ k.name = delta[w].name /\ k # NoRow
    BY <2>1, KeyType DEF Update, TypeOK
  <2>3. latest[k.name] # NoRow
    BY <2>1, <2>2 DEF Update, RowThere
  <2>4. LatestHolds'
    BY <2>1, <2>2, <2>3, ApplyKeepsHolding DEF Update
  <2>5. RowThere'
    BY <2>1, <2>2 DEF Update, Updated, Done, RowThere, TypeOK
  <2> QED
    BY <1>1, <2>4, <2>5
<1>4. ASSUME NEW w \in Writers, InsertRefused(w) PROVE LatestInv'
  BY <1>1, <1>4 DEF InsertRefused, RowThere, LatestHolds, TypeOK
<1>5. ASSUME NEW w \in Writers, NEW d \in Deltas, NEW p \in Parts,
             Start(w, d, p)
      PROVE  LatestInv'
  BY <1>1, <1>5 DEF Start, FirstStatement, RowThere, LatestHolds, TypeOK
<1>6. ASSUME NEW w \in Writers,
             CheckFound(w) \/ CheckMissing(w) \/ Create(w) \/ Crash(w)
      PROVE  LatestInv'
  BY <1>1, <1>6 DEF CheckFound, CheckMissing, Create, Crash, Done, RowThere,
                    LatestHolds, TypeOK
<1>7. CASE UNCHANGED vars
  BY <1>1, <1>7 DEF vars, RowThere, LatestHolds
<1> QED
  BY <1>2, <1>3, <1>4, <1>5, <1>6, <1>7 DEF Next, Step

(* LATEST always shows, for every name, a record it was given that no      *)
(* other of them beats (attr-rec.js:126-129), whatever the collation of    *)
(* the values: the TSV greatest, or a deletion that ties with it.          *)
THEOREM WinnerIsShown == Spec => []LatestIsWinner
<1>1. LatestInv => LatestIsWinner
  BY HoldsIsWinner DEF LatestInv
<1> QED
  BY <1>1, LatestInvInit, LatestInvNext, PTL DEF Spec

(* A row that is still a winner is not replaced: the clause lets a record  *)
(* through only when it beats the row.                                     *)
LEMMA WinnerStays ==
    ASSUME LatestInv, [Next]_vars, NEW n \in Names,
           latest[n] \in Lww!Winners(applied', n)
    PROVE  latest'[n] = latest[n]
<1> USE DEF LatestInv
<1>1. /\ latest[n] \in applied' /\ latest[n].name = n
      /\ \A j \in applied' : j.name = n => Holds(latest[n], j)
  BY WinnersAre
<1>2. applied' \subseteq Keys /\ Keys \subseteq Row
  BY TypeStep, KeyType DEF TypeOK
<1>3. latest[n] # NoRow
  BY <1>1, <1>2, KeyType
<1>4. CASE \E w \in Writers : Insert(w)
  BY <1>3, <1>4 DEF Insert, TypeOK
<1>5. CASE \E w \in Writers : Update(w)
  <2>1. PICK w \in Writers : Update(w)
    BY <1>5
  <2> DEFINE k == Key(delta[w])
  <2>2. k \in Keys /\ k.name = delta[w].name /\ k \in applied'
    BY <2>1, KeyType DEF Update, TypeOK
  <2>3. CASE n # k.name
    BY <2>1, <2>2, <2>3 DEF Update, TypeOK
  <2>4. CASE n = k.name /\ ~Replaces(k, latest[n])
    BY <2>1, <2>2, <2>4 DEF Update, Updated, TypeOK
  <2>5. CASE n = k.name /\ Replaces(k, latest[n])
    <3>1. TsvLeq(latest[n], k) /\ ~StandsAgainst(latest[n], k)
      BY <1>1, <1>2, <2>2, <2>5, ReplacesIsTsv
    <3>2. Holds(latest[n], k)
      BY <1>1, <2>2, <2>5
    <3>3. latest[n] = k
      BY <1>1, <1>2, <2>2, <2>5, <3>1, <3>2, TsvAntisymmetric DEF Holds
    <3>4. latest'[n] = Updated(latest[n], k)
      BY <2>1, <2>2, <2>5 DEF Update, TypeOK
    <3> QED
      BY <3>3, <3>4 DEF Updated
  <2> QED
    BY <2>3, <2>4, <2>5
<1>6. CASE latest' = latest
  BY <1>6
<1> QED
  BY <1>4, <1>5, <1>6 DEF Next, Step, Start, InsertRefused, CheckFound,
                          CheckMissing, Create, Crash, vars

(* LATEST implements the abstract last-writer-wins store: inserting and    *)
(* updating are its writes, everything else stutters.                      *)
THEOREM ImplementsLwwStore == Spec => LatestIsLwwStore
<1>1. Init => Lww!LwwInit
  BY DEF Init, Lww!LwwInit
<1>2. ASSUME LatestInv, [Next]_vars PROVE [Lww!LwwNext]_(Lww!lwwVars)
  <2>1. LatestInv' /\ LatestIsWinner'
    BY <1>2, LatestInvNext, HoldsIsWinner, PTL DEF LatestInv
  <2>2. latest' \in [Names -> Keys \cup {NoRow}]
    <3>1. \A n \in Names : latest'[n] # NoRow => latest'[n] \in applied'
      BY <2>1 DEF LatestInv, LatestHolds
    <3> QED
      BY <2>1, <3>1 DEF LatestInv, TypeOK
  <2>3. \A n \in Names :
           /\ latest'[n] \in IF Lww!Of(applied', n) = {} THEN {NoRow}
                             ELSE Lww!Winners(applied', n)
           /\ latest[n] \in Lww!Winners(applied', n) => latest'[n] = latest[n]
    BY <1>2, <2>1, WinnerStays DEF LatestIsWinner
  <2>4. ASSUME NEW w \in Writers, Insert(w) \/ Update(w)
        PROVE  Lww!LwwNext
    <3>1. Key(delta[w]) \in Keys /\ applied' = applied \cup {Key(delta[w])}
      BY <1>2, <2>4, KeyType DEF Insert, Update, LatestInv, TypeOK
    <3> QED
      BY <2>2, <2>3, <3>1 DEF Lww!LwwNext, Lww!Write
  <2>5. ASSUME UNCHANGED <<latest, applied>> PROVE UNCHANGED Lww!lwwVars
    BY <2>5 DEF Lww!lwwVars
  <2> QED
    BY <1>2, <2>4, <2>5 DEF Next, Step, Start, InsertRefused, CheckFound,
                           CheckMissing, Create, Crash, vars
<1> QED
  BY <1>1, <1>2, LatestInvInit, LatestInvNext, PTL
     DEF Spec, LatestIsLwwStore, Lww!LwwSpec
=============================================================================
