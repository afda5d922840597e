------------------------- MODULE DocLifecycleProofs -------------------------
(***************************************************************************)
(* Machine-checked theorems about DocLifecycle: for any document that is   *)
(* at rest, any edits and deletions of it, and any number of chains that   *)
(* run at the same time.                                                   *)
(***************************************************************************)
EXTENDS DocLifecycle, TLAPS

RestoreRow == [owner : Deltas, name : Names, val : Values \cup {Null},
               up : Nat, pc : {"attr", "update", "touch"}]
Places == {"queued", "attr", "update", "touch", "check", "destroy", "since",
           "read", "restoring", "done", "error"}

LEMMA DeltaTyped ==
    ASSUME NEW d \in Deltas
    PROVE  /\ d \in AttrRow /\ d # NoRow /\ d.name \in Columns
           /\ d.up \in Nat /\ d.seq \in Nat /\ d.val \in Values \cup {Null}
           /\ d.name # Tomb => d.name \in Names
<1>1. d \in [name : Columns, val : Values \cup {Null}, up : Nat, seq : Nat]
  BY DocLifecycleAssumption
<1>2. d \in AttrRow
  BY <1>1 DEF AttrRow
<1> QED
  BY <1>1, <1>2, DocLifecycleAssumption DEF Columns

LEMMA NullIsNoTime == Null \notin Int /\ Null \notin Nat
BY TsvAssumption

(* The statements on the document's row.                                   *)
LEMMA UndeleteDoes ==
    ASSUME NEW row \in DocRow, NEW t \in Nat
    PROVE  /\ Undelete(row, t) \in DocRow
           /\ \/ /\ Undelete(row, t) = row
                 /\ Le(t, row.updated) \/ Le(t, row.destroyed)
              \/ /\ Undelete(row, t).updated = t
                 /\ Undelete(row, t).destroyed = Null
                 /\ Undelete(row, t).last = row.last
                 /\ row.updated = Null \/ row.updated < t
                 /\ row.destroyed = Null \/ row.destroyed < t
<1> USE NullIsNoTime
<1> DEFINE Later == /\ row.updated = Null \/ row.updated < t
                    /\ row.destroyed = Null \/ row.destroyed < t
<1>1. row.updated \in Time /\ row.destroyed \in Time /\ t # Null
  BY DEF DocRow
<1>2. Undelete(row, t) = IF Later
                         THEN [row EXCEPT !.updated = t, !.destroyed = Null]
                         ELSE row
  BY <1>1 DEF Undelete, Lt
<1>3. CASE Later
  <2>1. [row EXCEPT !.updated = t, !.destroyed = Null] \in DocRow
    BY DEF DocRow, Time
  <2> QED
    BY <1>2, <1>3, <2>1 DEF DocRow
<1>4. CASE ~Later
  BY <1>1, <1>2, <1>4 DEF Le, Time
<1> QED
  BY <1>3, <1>4

LEMMA TouchDoes ==
    ASSUME NEW row \in DocRow, NEW t \in Nat
    PROVE  /\ Touch(row, t) \in DocRow
           /\ Touch(row, t).destroyed = row.destroyed
           /\ Touch(row, t).last = row.last
           /\ \/ /\ Touch(row, t).updated = row.updated
                 /\ row.updated # Null /\ row.updated > t
              \/ /\ Touch(row, t).updated = t
                 /\ row.updated = Null \/ row.updated <= t
BY NullIsNoTime DEF Touch, DocRow, Time, Le

Destroyed(row, t) == [row EXCEPT !.destroyed = t, !.last = t]
LEMMA DestroyedIs ==
    ASSUME NEW row \in DocRow, NEW t \in Nat
    PROVE  /\ Destroyed(row, t) \in DocRow
           /\ Destroyed(row, t).destroyed = t /\ Destroyed(row, t).last = t
           /\ Destroyed(row, t).updated = row.updated
BY DEF Destroyed, DocRow, Time

LEMMA NewDocIs ==
    ASSUME NEW d \in Deltas
    PROVE  /\ NewDoc(d) \in DocRow
           /\ d \in Edits => /\ NewDoc(d).updated = d.up
                             /\ NewDoc(d).destroyed = Null
                             /\ NewDoc(d).last = Null
           /\ d \notin Edits => /\ NewDoc(d).updated = Null
                                /\ NewDoc(d).destroyed = d.up
                                /\ NewDoc(d).last = d.up
BY DeltaTyped DEF NewDoc, DocRow, Time, Edits

(* The record that is put is in the row, or one that is not older is.      *)
NotOlder(row, up, seq) ==
    row # NoRow /\ (row.up > up \/ (row.up = up /\ row.seq >= seq))
LEMMA PutDoes ==
    ASSUME NEW row \in AttrRow \cup {NoRow}, NEW rec \in AttrRow
    PROVE  /\ Put(row, rec) \in {row, rec} /\ Put(row, rec) \in AttrRow
           /\ NotOlder(Put(row, rec), rec.up, rec.seq)
           /\ row # NoRow => NotOlder(Put(row, rec), row.up, row.seq)
BY DocLifecycleAssumption DEF Put, Replaces, AttrRow, NotOlder

-----------------------------------------------------------------------------
(* A restore of an attribute at one place of its chain.                    *)
LEMMA AdvanceTyped ==
    ASSUME NEW r \in RestoreRow, NEW next \in {"update", "touch"},
           restores \subseteq RestoreRow, Advance(r, next)
    PROVE  restores' \subseteq RestoreRow
BY DEF Advance, RestoreRow

LEMMA RestoredTyped ==
    ASSUME NEW r \in RestoreRow
    PROVE  /\ Restored(r) \in AttrRow /\ Restored(r).name = r.name
           /\ Restored(r).up = r.up /\ Restored(r).seq = -1
           /\ r.name \in Names /\ r.name \in Columns /\ r.up \in Nat
BY DEF Restored, RestoreSeq, RestoreRow, AttrRow, Columns

LEMMA InitTyped == ASSUME Init PROVE TypeOK
BY DocLifecycleAssumption DEF Init, TypeOK, Time

LEMMA TypedFacts ==
    ASSUME TypeOK
    PROVE  /\ doc # NoRow => doc \in DocRow
           /\ rows \in [Columns -> AttrRow \cup {NoRow}]
           /\ pc \in [Deltas -> Places] /\ at \in [Deltas -> Time]
           /\ restores \subseteq RestoreRow
           /\ \A d \in Deltas : pc[d] # "queued" => doc # NoRow
           /\ \A d \in Deltas : pc[d] \in {"read", "restoring"} => at[d] # Null
           /\ restores # {} => doc # NoRow
           /\ \A n \in Names : n \in Columns /\ n # Tomb
           /\ \A n \in Columns : rows[n] # NoRow =>
                /\ rows[n] \in AttrRow /\ rows[n].up \in Nat
                /\ rows[n].seq \in Int /\ rows[n].val \in Values \cup {Null}
<1>1. \A n \in Columns : rows[n] # NoRow => rows[n] \in AttrRow
  BY DEF TypeOK
<1>2. \A x \in AttrRow : x.up \in Nat /\ x.seq \in Int
                         /\ x.val \in Values \cup {Null}
  BY DEF AttrRow
<1> QED
  BY <1>1, <1>2, DocLifecycleAssumption
     DEF TypeOK, RestoreRow, Places, Columns

LEMMA TypedStep == ASSUME TypeOK, [Next]_vars PROVE TypeOK'
<1> DEFINE DocTyped == doc \in DocRow \cup {NoRow}
           RowsTyped == rows \in [Columns -> AttrRow \cup {NoRow}]
           Rest == /\ pc \in [Deltas -> Places]
                   /\ at \in [Deltas -> Time]
                   /\ restores \subseteq RestoreRow
                   /\ \A d \in Deltas :
                        /\ pc[d] # "queued" => doc # NoRow
                        /\ pc[d] \in {"read", "restoring"} => at[d] # Null
                   /\ restores # {} => doc # NoRow
<1>1. DocTyped /\ RowsTyped /\ Rest
  BY DEF TypeOK, Places, RestoreRow
<1>2. SUFFICES DocTyped' /\ RowsTyped' /\ Rest'
  BY DEF TypeOK, Places, RestoreRow
<1>3. DocRow \cap {NoRow} = {} /\ NoRow \notin AttrRow
  BY DocLifecycleAssumption
<1>4. ASSUME NEW d \in Deltas, GetOrCreateDoc(d)
      PROVE  DocTyped' /\ RowsTyped' /\ Rest'
  <2>1. doc' \in DocRow
    BY <1>1, <1>4, NewDocIs DEF GetOrCreateDoc
  <2> QED
    BY <1>1, <1>3, <1>4, <2>1 DEF GetOrCreateDoc, Go, Places
<1>5. ASSUME NEW d \in Deltas, CreateAttr(d)
      PROVE  DocTyped' /\ RowsTyped' /\ Rest'
  <2>1. Put(rows[d.name], d) \in AttrRow
    BY <1>1, DeltaTyped, PutDoes
  <2> QED
    BY <1>1, <1>5, <2>1 DEF CreateAttr, Go, Places
<1>6. ASSUME NEW d \in Deltas, UpdateDoc1(d) \/ UpdateDoc2(d) \/ Destroy(d)
      PROVE  DocTyped' /\ RowsTyped' /\ Rest'
  <2>1. doc \in DocRow /\ d.up \in Nat
    BY <1>1, <1>6, DeltaTyped DEF UpdateDoc1, UpdateDoc2, Destroy
  <2>2. doc' \in DocRow
    <3>1. CASE UpdateDoc1(d)
      BY <2>1, <3>1, UndeleteDoes DEF UpdateDoc1
    <3>2. CASE UpdateDoc2(d)
      BY <2>1, <3>2, TouchDoes DEF UpdateDoc2
    <3>3. CASE Destroy(d)
      BY <2>1, <3>3, DestroyedIs DEF Destroy, Destroyed
    <3> QED
      BY <1>6, <3>1, <3>2, <3>3
  <2> QED
    BY <1>1, <1>3, <1>6, <2>2 DEF UpdateDoc1, UpdateDoc2, Destroy, Go, Places
<1>7. ASSUME NEW d \in Deltas, RestoreIfDestroyedBefore(d)
      PROVE  DocTyped' /\ RowsTyped' /\ Rest'
  <2>1. d.up \in Time /\ d.up # Null
    BY DeltaTyped, NullIsNoTime DEF Time
  <2> QED
    BY <1>1, <1>7, <2>1 DEF RestoreIfDestroyedBefore, Go, Places
<1>8. ASSUME NEW d \in Deltas, RestoreIfChangeSince(d)
      PROVE  DocTyped' /\ RowsTyped' /\ Rest'
  <2>1. PICK n \in RowsSince(d.up) : at' = [at EXCEPT ![d] = rows[n].up]
    BY <1>8 DEF RestoreIfChangeSince
  <2>2. rows[n].up \in Time /\ rows[n].up # Null
    BY <2>1, TypedFacts, NullIsNoTime DEF RowsSince, Time
  <2> QED
    BY <1>1, <1>8, <2>1, <2>2 DEF RestoreIfChangeSince, Go, Places
<1>9. ASSUME NEW d \in Deltas,
             NoChangeSince(d) \/ RestoreFails(d) \/ RestoreDone(d)
      PROVE  DocTyped' /\ RowsTyped' /\ Rest'
  BY <1>1, <1>9 DEF NoChangeSince, RestoreFails, RestoreDone, Go, Places
<1>10. ASSUME NEW d \in Deltas, Restore(d)
       PROVE  DocTyped' /\ RowsTyped' /\ Rest'
  <2>1. at[d] \in Nat /\ doc # NoRow
    BY <1>1, <1>10 DEF Restore, Time
  <2>2. ASSUME NEW n \in RowsUpTo(at[d])
        PROVE  [owner |-> d, name |-> n, val |-> rows[n].val, up |-> at[d],
                pc |-> "attr"] \in RestoreRow
    <3>1. n \in Names /\ rows[n].val \in Values \cup {Null}
      BY TypedFacts DEF RowsUpTo
    <3> QED
      BY <2>1, <3>1 DEF RestoreRow
  <2>3. restores' \subseteq RestoreRow
    BY <1>1, <1>10, <2>2 DEF Restore
  <2> QED
    BY <1>1, <1>10, <2>1, <2>3 DEF Restore, Go, Places
<1>11. ASSUME NEW r \in restores, RestoreAttr(r)
       PROVE  DocTyped' /\ RowsTyped' /\ Rest'
  <2>1. restores' \subseteq RestoreRow
    BY <1>1, <1>11, AdvanceTyped DEF RestoreAttr
  <2>2. Put(rows[r.name], Restored(r)) \in AttrRow
    BY <1>1, RestoredTyped, PutDoes
  <2>3. doc # NoRow
    BY <1>1, <1>11
  <2> QED
    BY <1>1, <1>11, <2>1, <2>2, <2>3 DEF RestoreAttr
<1>12. ASSUME NEW r \in restores, RestoreDoc1(r) \/ RestoreDoc2(r)
       PROVE  DocTyped' /\ RowsTyped' /\ Rest'
  <2>1. restores' \subseteq RestoreRow
    BY <1>1, <1>12, AdvanceTyped DEF RestoreDoc1, RestoreDoc2
  <2>2. doc \in DocRow /\ r.up \in Nat
    BY <1>1, <1>12, RestoredTyped
  <2>3. doc' \in DocRow
    BY <1>12, <2>2, UndeleteDoes, TouchDoes DEF RestoreDoc1, RestoreDoc2
  <2> QED
    BY <1>1, <1>3, <1>12, <2>1, <2>3 DEF RestoreDoc1, RestoreDoc2
<1>13. CASE UNCHANGED vars
  BY <1>1, <1>13 DEF vars
<1> QED
  BY <1>4, <1>5, <1>6, <1>7, <1>8, <1>9, <1>10, <1>11, <1>12, <1>13
     DEF Next, StepDelta, StepRestore

(* The rows of the document and of its attributes keep their types, and a  *)
(* restore always has a time (attr.js:123-140, docs.js:24-66).             *)
THEOREM TypeCorrect == Spec => []TypeOK
BY InitTyped, TypedStep, PTL DEF Spec

-----------------------------------------------------------------------------
(* The times with which the two statements of DocRecs.update are still to  *)
(* be run, whether for an edit or for a restored attribute.                *)
Updating == {d.up : d \in {e \in Deltas : pc[e] = "update"}}
            \cup {r.up : r \in {s \in restores : s.pc = "update"}}
Touching == {d.up : d \in {e \in Deltas : pc[e] = "touch"}}
            \cup {r.up : r \in {s \in restores : s.pc = "touch"}}
Pending == Updating \cup Touching

LEMMA PendingTyped == ASSUME TypeOK PROVE Pending \subseteq Nat
<1>1. \A d \in Deltas : d.up \in Nat
  BY DeltaTyped
<1>2. \A r \in restores : r.up \in Nat
  BY TypedFacts, RestoredTyped
<1> QED
  BY <1>1, <1>2 DEF Pending, Updating, Touching

(* What a step does to the rows, by kind of statement.                     *)
Ahead == {"queued", "attr"}
NoneRecords == \A d \in Deltas : /\ pc[d] = "attr" => pc'[d] = "attr"
                                 /\ pc[d] \in Ahead => pc'[d] \in Ahead
Creates == \E d \in Deltas :
    /\ doc = NoRow /\ doc' = NewDoc(d) /\ pc[d] = "queued"
    /\ pc' = [pc EXCEPT ![d] = "attr"]
    /\ rows' = rows /\ Updating' = Updating /\ Touching' = Touching
Records == \E n \in Columns, rec \in AttrRow :
    /\ rows' = [rows EXCEPT ![n] = Put(@, rec)] /\ rec.name = n
    /\ n # Tomb => Updating' = Updating \cup {rec.up}
    /\ n = Tomb => Updating' = Updating
    /\ Touching' = Touching /\ doc' = doc
    /\ rec \in Deltas \/ rec.seq = -1
    /\ \A d \in Deltas : pc[d] \in Ahead /\ pc'[d] # pc[d] => rec = d
Undeletes == \E t \in Updating :
    /\ doc # NoRow /\ doc' = Undelete(doc, t)
    /\ Updating \ {t} \subseteq Updating' /\ Updating' \subseteq Updating
    /\ Touching' = Touching \cup {t}
    /\ rows' = rows /\ NoneRecords
Touches == \E t \in Touching :
    /\ doc # NoRow /\ doc' = Touch(doc, t)
    /\ Touching \ {t} \subseteq Touching' /\ Touching' \subseteq Touching
    /\ Updating' = Updating /\ rows' = rows /\ NoneRecords
Destroys == \E d \in Deltas :
    /\ doc # NoRow /\ Destroyable(doc, d.up) /\ doc' = Destroyed(doc, d.up)
    /\ pc[d] = "destroy"
    /\ Updating' = Updating /\ Touching' = Touching /\ rows' = rows
    /\ NoneRecords
Stays == /\ doc' = doc /\ rows' = rows /\ NoneRecords
         /\ Updating' = Updating /\ Touching' = Touching

LEMMA Kinds ==
    ASSUME TypeOK, [Next]_vars
    PROVE  Creates \/ Records \/ Undeletes \/ Touches \/ Destroys \/ Stays
<1>0. /\ pc \in [Deltas -> Places] /\ restores \subseteq RestoreRow
      /\ \A d \in Deltas : pc[d] # "queued" => doc # NoRow
      /\ restores # {} => doc # NoRow
  BY TypedFacts
<1>1. ASSUME NEW d \in Deltas, GetOrCreateDoc(d) PROVE Creates \/ Stays
  <2>1. Updating' = Updating /\ Touching' = Touching
    BY <1>0, <1>1 DEF GetOrCreateDoc, Go, Updating, Touching
  <2> QED
    BY <1>0, <1>1, <2>1 DEF GetOrCreateDoc, Go, Creates, Stays, NoneRecords, Ahead
<1>2. ASSUME NEW d \in Deltas, CreateAttr(d) PROVE Records
  <2>1. /\ rows' = [rows EXCEPT ![d.name] = Put(@, d)] /\ doc' = doc
        /\ restores' = restores /\ pc[d] = "attr"
        /\ pc' = [pc EXCEPT ![d] =
                    IF d.name = Tomb THEN "destroy" ELSE "update"]
    BY <1>2 DEF CreateAttr, Go
  <2>2. Touching' = Touching
    BY <1>0, <2>1 DEF Touching
  <2>3. d.name = Tomb => Updating' = Updating
    BY <1>0, <2>1 DEF Updating
  <2>4. d.name # Tomb => Updating' = Updating \cup {d.up}
    BY <1>0, <2>1 DEF Updating
  <2>5. \A e \in Deltas : pc[e] \in Ahead /\ pc'[e] # pc[e] => d = e
    BY <1>0, <2>1
  <2> QED
    BY <2>1, <2>2, <2>3, <2>4, <2>5, DeltaTyped DEF Records
<1>3. ASSUME NEW d \in Deltas, UpdateDoc1(d) PROVE Undeletes
  <2>1. /\ doc' = Undelete(doc, d.up) /\ rows' = rows
        /\ restores' = restores /\ pc[d] = "update"
        /\ pc' = [pc EXCEPT ![d] = "touch"]
    BY <1>3 DEF UpdateDoc1, Go
  <2>2. /\ d.up \in Updating /\ Touching' = Touching \cup {d.up}
        /\ Updating \ {d.up} \subseteq Updating' /\ Updating' \subseteq Updating
    BY <1>0, <2>1 DEF Updating, Touching
  <2> QED
    BY <1>0, <2>1, <2>2 DEF Undeletes, NoneRecords, Ahead
<1>4. ASSUME NEW d \in Deltas, UpdateDoc2(d) PROVE Touches
  <2>1. /\ doc' = Touch(doc, d.up) /\ rows' = rows
        /\ restores' = restores /\ pc[d] = "touch"
        /\ pc' = [pc EXCEPT ![d] = "check"]
    BY <1>4 DEF UpdateDoc2, Go
  <2>2. /\ d.up \in Touching /\ Updating' = Updating
        /\ Touching \ {d.up} \subseteq Touching' /\ Touching' \subseteq Touching
    BY <1>0, <2>1 DEF Updating, Touching
  <2> QED
    BY <1>0, <2>1, <2>2 DEF Touches, NoneRecords, Ahead
<1>5. ASSUME NEW d \in Deltas, Destroy(d) PROVE Destroys \/ Stays
  <2>1. /\ pc[d] = "destroy" /\ rows' = rows /\ restores' = restores
        /\ pc' = [pc EXCEPT ![d] = "done"] \/ pc' = [pc EXCEPT ![d] = "since"]
        /\ \/ Destroyable(doc, d.up) /\ doc' = Destroyed(doc, d.up)
           \/ doc' = doc
    BY <1>5 DEF Destroy, Go, Destroyed
  <2>2. Updating' = Updating /\ Touching' = Touching
    BY <1>0, <2>1 DEF Updating, Touching
  <2> QED
    BY <1>0, <2>1, <2>2 DEF Destroys, Stays, NoneRecords, Ahead
<1>6. ASSUME NEW d \in Deltas, NEW to \in Places, Go(d, to),
             pc[d] \notin Ahead \cup {"update", "touch"},
             to \notin {"update", "touch"},
             doc' = doc, rows' = rows, restores' = restores
      PROVE  Stays
  BY <1>0, <1>6 DEF Go, Stays, Updating, Touching, NoneRecords, Ahead
<1>7. ASSUME NEW d \in Deltas,
             \/ RestoreIfDestroyedBefore(d) \/ RestoreIfChangeSince(d)
             \/ NoChangeSince(d) \/ RestoreFails(d) \/ RestoreDone(d)
      PROVE  Stays
  BY <1>6, <1>7 DEF RestoreIfDestroyedBefore, RestoreIfChangeSince,
                    NoChangeSince, RestoreFails, RestoreDone, Places, Ahead
<1>8. ASSUME NEW d \in Deltas, Restore(d) PROVE Stays
  <2>1. /\ doc' = doc /\ rows' = rows /\ pc[d] = "read"
        /\ pc' = [pc EXCEPT ![d] = "restoring"]
    BY <1>8 DEF Restore, Go
  <2>2. {r \in restores' : r.pc = "update"} = {r \in restores : r.pc = "update"}
        /\ {r \in restores' : r.pc = "touch"} = {r \in restores : r.pc = "touch"}
    BY <1>8 DEF Restore
  <2> QED
    BY <1>0, <2>1, <2>2 DEF Stays, Updating, Touching, NoneRecords, Ahead
<1>9. ASSUME NEW r \in restores, RestoreAttr(r) PROVE Records
  <2>1. /\ rows' = [rows EXCEPT ![r.name] = Put(@, Restored(r))]
        /\ doc' = doc /\ pc' = pc /\ r.pc = "attr" /\ r \in RestoreRow
        /\ restores' = (restores \ {r}) \cup {[r EXCEPT !.pc = "update"]}
    BY <1>0, <1>9 DEF RestoreAttr, Advance
  <2>2. [r EXCEPT !.pc = "update"].pc = "update"
        /\ [r EXCEPT !.pc = "update"].up = r.up
    BY <2>1 DEF RestoreRow
  <2>3. Touching' = Touching /\ Updating' = Updating \cup {r.up}
    BY <2>1, <2>2 DEF Touching, Updating
  <2>4. Restored(r) \in AttrRow /\ Restored(r).name = r.name
        /\ Restored(r).up = r.up /\ r.name \in Columns /\ r.name # Tomb
        /\ Restored(r).seq = -1
    BY <2>1, RestoredTyped, TypedFacts
  <2> QED
    BY <2>1, <2>3, <2>4 DEF Records
<1>10. ASSUME NEW r \in restores, RestoreDoc1(r) PROVE Undeletes
  <2>1. /\ rows' = rows /\ r \in RestoreRow
        /\ doc' = Undelete(doc, r.up) /\ pc' = pc /\ r.pc = "update"
        /\ restores' = (restores \ {r}) \cup {[r EXCEPT !.pc = "touch"]}
    BY <1>0, <1>10 DEF RestoreDoc1, Advance
  <2>2. [r EXCEPT !.pc = "touch"].pc = "touch"
        /\ [r EXCEPT !.pc = "touch"].up = r.up
    BY <2>1 DEF RestoreRow
  <2>3. /\ r.up \in Updating /\ Touching' = Touching \cup {r.up}
        /\ Updating \ {r.up} \subseteq Updating' /\ Updating' \subseteq Updating
    BY <2>1, <2>2 DEF Updating, Touching
  <2> QED
    BY <1>0, <2>1, <2>3 DEF Undeletes, NoneRecords, Ahead
<1>11. ASSUME NEW r \in restores, RestoreDoc2(r) PROVE Touches
  <2>1. /\ rows' = rows /\ doc' = Touch(doc, r.up) /\ pc' = pc
        /\ r.pc = "touch" /\ restores' = restores \ {r}
    BY <1>11 DEF RestoreDoc2
  <2>2. /\ r.up \in Touching /\ Updating' = Updating
        /\ Touching \ {r.up} \subseteq Touching' /\ Touching' \subseteq Touching
    BY <2>1 DEF Updating, Touching
  <2> QED
    BY <1>0, <2>1, <2>2 DEF Touches, NoneRecords, Ahead
<1>12. CASE UNCHANGED vars
  BY <1>12 DEF vars, Stays, Updating, Touching, NoneRecords, Ahead
<1> QED
  BY <1>1, <1>2, <1>3, <1>4, <1>5, <1>7, <1>8, <1>9, <1>10, <1>11, <1>12
     DEF Next, StepDelta, StepRestore

-----------------------------------------------------------------------------
(* The times of the document's row agree in every interleaving because the *)
(* second statement of an update only runs when the first has found, or    *)
(* made, the row at least as late.                                         *)
Covers(row, s) == Le(s, row.updated) \/ Le(s, row.destroyed)
Known(t) == doc # NoRow /\ Covers(doc, t)
TimesOK == /\ doc # NoRow => TimesAgree(doc)
           /\ \A t \in Touching : Known(t)

LEMMA InitTimesOK == ASSUME Init PROVE TimesOK
<1>1. Touching = {}
  BY DEF Init, Touching
<1> QED
  BY <1>1, DocLifecycleAssumption DEF Init, TimesOK, AtRest

(* The row a step leaves, for any of the statements, and what it keeps.    *)
LEMMA RowTimesTyped ==
    ASSUME NEW row \in DocRow
    PROVE  /\ row.updated # Null => row.updated \in Nat
           /\ row.destroyed # Null => row.destroyed \in Nat
           /\ row.last # Null => row.last \in Nat
           /\ \A s \in Nat : s # Null
BY NullIsNoTime DEF DocRow, Time

LEMMA UndeleteAgrees ==
    ASSUME NEW row \in DocRow, TimesAgree(row), NEW t \in Nat
    PROVE  /\ TimesAgree(Undelete(row, t))
           /\ \A s \in Nat : Covers(row, s) => Covers(Undelete(row, t), s)
           /\ Covers(Undelete(row, t), t)
<1> DEFINE new == Undelete(row, t)
<1>1. CASE new = row /\ (Le(t, row.updated) \/ Le(t, row.destroyed))
  BY <1>1 DEF Covers
<1>2. CASE /\ new.updated = t /\ new.destroyed = Null /\ new.last = row.last
           /\ row.updated = Null \/ row.updated < t
           /\ row.destroyed = Null \/ row.destroyed < t
  <2> HIDE DEF new
  <2>1. TimesAgree(new)
    <3>1. row.last # Null => Lt(row.last, t)
      BY <1>2, RowTimesTyped DEF TimesAgree, Lt
    <3> QED
      BY <1>2, <3>1 DEF TimesAgree
  <2>2. Le(t, new.updated)
    BY <1>2, RowTimesTyped DEF Le
  <2>3. ASSUME NEW s \in Nat, Covers(row, s) PROVE Le(s, new.updated)
    BY <1>2, <2>3, RowTimesTyped DEF Covers, Le
  <2> QED
    BY <2>1, <2>2, <2>3 DEF Covers, new
<1> QED
  BY <1>1, <1>2, UndeleteDoes

LEMMA TouchAgrees ==
    ASSUME NEW row \in DocRow, TimesAgree(row), NEW t \in Nat, Covers(row, t)
    PROVE  /\ TimesAgree(Touch(row, t))
           /\ \A s \in Nat : Covers(row, s) => Covers(Touch(row, t), s)
<1> DEFINE new == Touch(row, t)
<1>1. new.destroyed = row.destroyed /\ new.last = row.last
  BY TouchDoes
<1>2. CASE new.updated = row.updated
  BY <1>1, <1>2 DEF TimesAgree, Covers
<1>3. CASE new.updated = t /\ (row.updated = Null \/ row.updated <= t)
  <2> HIDE DEF new
  <2>1. row.updated # Null => row.updated <= t
    BY <1>3
  <2>2. t # Null
    BY NullIsNoTime
  <2>3. row.destroyed # Null => t <= row.destroyed
    BY <2>1, RowTimesTyped DEF Covers, Le, TimesAgree
  <2>4. Lt(row.last, row.updated) => Lt(row.last, t)
    BY <2>1, RowTimesTyped DEF Lt
  <2>5. TimesAgree(new)
    BY <1>1, <1>3, <2>3, <2>4 DEF TimesAgree
  <2>6. \A s \in Nat : Le(s, row.updated) => Le(s, t)
    BY <2>1, RowTimesTyped DEF Le
  <2> QED
    BY <1>1, <1>3, <2>5, <2>6 DEF Covers, new
<1> QED
  BY <1>2, <1>3, TouchDoes

LEMMA DestroyedAgrees ==
    ASSUME NEW row \in DocRow, TimesAgree(row), NEW t \in Nat,
           Destroyable(row, t)
    PROVE  /\ TimesAgree(Destroyed(row, t))
           /\ \A s \in Nat : Covers(row, s) => Covers(Destroyed(row, t), s)
           /\ row.last # Null => Le(row.last, t)
<1> DEFINE new == Destroyed(row, t)
<1>1. new.destroyed = t /\ new.last = t /\ new.updated = row.updated
  BY DestroyedIs
<1> HIDE DEF new
<1>2. /\ row.updated # Null /\ row.updated <= t
      /\ row.destroyed # Null => row.destroyed <= t
  BY DEF Destroyable, Le
<1>3. TimesAgree(new)
  BY <1>1, <1>2, NullIsNoTime DEF TimesAgree
<1>4. ASSUME NEW s \in Nat, Covers(row, s) PROVE Covers(new, s)
  BY <1>1, <1>2, <1>4, RowTimesTyped DEF Covers, Le
<1>5. row.last # Null => Le(row.last, t)
  BY <1>2, RowTimesTyped DEF TimesAgree, Lt, Le
<1> QED
  BY <1>3, <1>4, <1>5 DEF new

LEMMA TimesStep ==
    ASSUME TypeOK, TimesOK, [Next]_vars
    PROVE  /\ TimesOK'
           /\ doc # NoRow => /\ doc' # NoRow
                             /\ doc.last # Null => Le(doc.last, doc'.last)
<1>0. /\ NoRow \notin DocRow /\ Null \notin Nat
      /\ doc # NoRow => doc \in DocRow /\ doc.last \in Time
      /\ Touching \subseteq Nat /\ Updating \subseteq Nat
      /\ \A d \in Deltas : d.up \in Nat
  BY DocLifecycleAssumption, NullIsNoTime, TypedFacts, PendingTyped,
     DeltaTyped DEF Pending, DocRow
<1>1. CASE Stays
  <2>1. \A t \in Touching' : Known(t)'
    BY <1>1 DEF Stays, TimesOK, Known
  <2>2. doc # NoRow /\ doc.last # Null => Le(doc.last, doc.last)
    BY <1>0 DEF Le, Time
  <2> QED
    BY <1>1, <2>1, <2>2 DEF Stays, TimesOK
<1>2. CASE Records
  <2>1. \A t \in Touching' : Known(t)'
    BY <1>2 DEF Records, TimesOK, Known
  <2>2. doc # NoRow /\ doc.last # Null => Le(doc.last, doc.last)
    BY <1>0 DEF Le, Time
  <2> QED
    BY <1>2, <2>1, <2>2 DEF Records, TimesOK
<1>3. CASE Creates
  <2>1. PICK d \in Deltas : doc' = NewDoc(d) /\ Touching' = Touching
                            /\ doc = NoRow
    BY <1>3 DEF Creates
  <2>2. doc' \in DocRow /\ TimesAgree(doc')
    BY <1>0, <2>1, NewDocIs DEF TimesAgree
  <2>3. Touching = {}
    BY <2>1 DEF TimesOK, Known
  <2> QED
    BY <2>1, <2>2, <2>3 DEF TimesOK
<1>4. ASSUME doc # NoRow, doc' \in DocRow, TimesAgree(doc'),
             \A s \in Nat : Covers(doc, s) => Covers(doc', s),
             \A s \in Touching' : s \in Touching \/ Covers(doc', s)
      PROVE  TimesOK' /\ doc' # NoRow
  <2>1. \A s \in Touching' : Covers(doc', s)
    BY <1>0, <1>4 DEF TimesOK, Known
  <2> QED
    BY <1>0, <1>4, <2>1 DEF TimesOK, Known
<1>5. CASE Undeletes
  <2>1. PICK t \in Updating : /\ doc # NoRow /\ doc' = Undelete(doc, t)
                              /\ Touching' = Touching \cup {t}
    BY <1>5 DEF Undeletes
  <2>2. doc'.last = doc.last
    BY <1>0, <2>1, UndeleteDoes
  <2>3. TimesOK' /\ doc' # NoRow
    <3>1. t \in Nat /\ doc \in DocRow /\ TimesAgree(doc)
      BY <1>0, <2>1 DEF TimesOK
    <3>2. /\ doc' \in DocRow /\ TimesAgree(doc') /\ Covers(doc', t)
          /\ \A s \in Nat : Covers(doc, s) => Covers(doc', s)
      BY <2>1, <3>1, UndeleteDoes, UndeleteAgrees
    <3>3. \A s \in Touching' : s \in Touching \/ Covers(doc', s)
      BY <2>1, <3>2
    <3> QED
      BY <1>4, <2>1, <3>2, <3>3
  <2> QED
    BY <1>0, <2>2, <2>3 DEF Le, Time
<1>6. CASE Touches
  <2>1. PICK t \in Touching : /\ doc # NoRow /\ doc' = Touch(doc, t)
                              /\ Touching' \subseteq Touching
    BY <1>6 DEF Touches
  <2>2. doc'.last = doc.last
    BY <1>0, <2>1, TouchDoes
  <2>3. Covers(doc, t)
    BY DEF TimesOK, Known
  <2>4. TimesOK' /\ doc' # NoRow
    <3>1. t \in Nat /\ doc \in DocRow /\ TimesAgree(doc)
      BY <1>0, <2>1 DEF TimesOK
    <3>2. /\ doc' \in DocRow /\ TimesAgree(doc')
          /\ \A s \in Nat : Covers(doc, s) => Covers(doc', s)
      BY <2>1, <2>3, <3>1, TouchDoes, TouchAgrees
    <3>3. \A s \in Touching' : s \in Touching \/ Covers(doc', s)
      BY <2>1, <3>2
    <3> QED
      BY <1>4, <2>1, <3>2, <3>3
  <2> QED
    BY <1>0, <2>2, <2>4 DEF Le, Time
<1>7. CASE Destroys
  <2>1. PICK d \in Deltas : /\ doc # NoRow /\ Destroyable(doc, d.up)
                            /\ doc' = Destroyed(doc, d.up)
                            /\ Touching' = Touching
    BY <1>7 DEF Destroys
  <2>2. TimesOK' /\ doc' # NoRow
    <3>1. d.up \in Nat /\ doc \in DocRow /\ TimesAgree(doc)
      BY <1>0, <2>1 DEF TimesOK
    <3>2. /\ doc' \in DocRow /\ TimesAgree(doc')
          /\ \A s \in Nat : Covers(doc, s) => Covers(doc', s)
      BY <2>1, <3>1, DestroyedIs, DestroyedAgrees
    <3>3. \A s \in Touching' : s \in Touching \/ Covers(doc', s)
      BY <2>1, <3>2
    <3> QED
      BY <1>4, <2>1, <3>2, <3>3
  <2>3. doc.last # Null => Le(doc.last, d.up)
    BY <1>0, <2>1, DestroyedAgrees DEF TimesOK
  <2> QED
    BY <1>0, <2>1, <2>2, <2>3, DestroyedIs
<1> QED
  BY <1>1, <1>2, <1>3, <1>5, <1>6, <1>7, Kinds

(* The statements of DocRecs.update and setDestroyedAt (doc-recs.js:       *)
(* 137-203) keep updated_at and destroyed_at in agreement, in whatever     *)
(* order those of several edits, deletions and restores run.               *)
THEOREM DestroyedAgreesWithUpdated == Spec => []DestroyedAfterUpdate
<1>1. Init => TypeOK /\ TimesOK
  BY InitTyped, InitTimesOK
<1>2. TypeOK /\ TimesOK /\ [Next]_vars => (TypeOK /\ TimesOK)'
  BY TypedStep, TimesStep
<1>3. TimesOK => DestroyedAfterUpdate
  BY DEF TimesOK, TimesAgree, DestroyedAfterUpdate
<1> QED
  BY <1>1, <1>2, <1>3, PTL DEF Spec

(* last_destroyed_at never moves back, though setDestroyedAt does not look *)
(* at it: destroyed_at and updated_at, which it does look at, tell enough. *)
THEOREM LastDestroyedGrows == Spec => LastDestroyedNeverDecreases
<1>1. Init => TypeOK /\ TimesOK
  BY InitTyped, InitTimesOK
<1>2. TypeOK /\ TimesOK /\ [Next]_vars => (TypeOK /\ TimesOK)'
  BY TypedStep, TimesStep
<1>3. TypeOK /\ TimesOK /\ [Next]_vars
        => [doc # NoRow /\ doc.last # Null => Le(doc.last, doc'.last)]_vars
  BY TimesStep
<1> QED
  BY <1>1, <1>2, <1>3, PTL DEF Spec, LastDestroyedNeverDecreases

-----------------------------------------------------------------------------
(* Whatever is recorded stays, or something later does.                    *)
RowsGrow == \A n \in Columns :
    rows[n] # NoRow => NotOlder(rows'[n], rows[n].up, rows[n].seq)

LEMMA NotOlderTransitive ==
    ASSUME NEW a \in AttrRow, NEW b, b # NoRow => b \in AttrRow,
           NotOlder(b, a.up, a.seq),
           NEW up \in Nat, NEW seq \in Int, NotOlder(a, up, seq)
    PROVE  NotOlder(b, up, seq)
<1>1. /\ a.up \in Nat /\ a.seq \in Int
      /\ b # NoRow => b.up \in Nat /\ b.seq \in Int
  BY DEF AttrRow
<1> QED
  BY <1>1 DEF NotOlder

LEMMA RecordDoes ==
    ASSUME TypeOK, NEW n \in Columns, NEW rec \in AttrRow,
           rows' = [rows EXCEPT ![n] = Put(@, rec)]
    PROVE  /\ RowsGrow /\ NotOlder(rows'[n], rec.up, rec.seq)
           /\ rows'[n] \in {rows[n], rec}
           /\ \A m \in Columns : m # n => rows'[m] = rows[m]
<1>0. rows \in [Columns -> AttrRow \cup {NoRow}] /\ NoRow \notin AttrRow
  BY TypedFacts, DocLifecycleAssumption
<1>1. /\ rows'[n] = Put(rows[n], rec)
      /\ \A m \in Columns \ {n} : rows'[m] = rows[m]
  BY <1>0
<1>2. \A m \in Columns :
        rows[m] # NoRow => NotOlder(rows[m], rows[m].up, rows[m].seq)
  BY TypedFacts DEF NotOlder
<1>3. RowsGrow
  BY <1>0, <1>1, <1>2, PutDoes DEF RowsGrow
<1> QED
  BY <1>0, <1>1, <1>3, PutDoes

LEMMA RowsGrowStep ==
    ASSUME TypeOK, [Next]_vars PROVE RowsGrow
<1>1. CASE rows' = rows
  BY <1>1, TypedFacts DEF RowsGrow, NotOlder
<1>2. CASE Records
  BY <1>2, RecordDoes DEF Records
<1> QED
  BY <1>1, <1>2, Kinds DEF Creates, Undeletes, Touches, Destroys, Stays

(* An edit that has been recorded is in the row of its attribute or has    *)
(* been followed by something that is not older; and what is there has     *)
(* been there at the start, is an edit, or is marked as restored.          *)
Recorded == \A d \in Edits :
    pc[d] \notin Ahead => NotOlder(rows[d.name], d.up, d.seq)
Origin == \A n \in Columns : rows[n] # NoRow =>
    \/ rows[n] = InitRows[n]
    \/ rows[n] \in Deltas /\ rows[n].name = n
    \/ rows[n].seq = -1

LEMMA InitRecorded == ASSUME Init PROVE Recorded /\ Origin
BY DEF Init, Recorded, Origin, Ahead, Edits

LEMMA RecordedStep ==
    ASSUME TypeOK, Recorded, Origin, [Next]_vars
    PROVE  Recorded' /\ Origin'
<1>0. \A n \in Columns : rows'[n] # NoRow => rows'[n] \in AttrRow
  BY TypedStep, TypedFacts DEF TypeOK
<1>1. ASSUME NEW d \in Edits, pc[d] \notin Ahead
      PROVE  NotOlder(rows'[d.name], d.up, d.seq)
  <2>1. d.name \in Columns /\ d.up \in Nat /\ d.seq \in Int
    BY DeltaTyped DEF Edits
  <2>2. NotOlder(rows[d.name], d.up, d.seq)
    BY <1>1 DEF Recorded
  <2>3. rows[d.name] \in AttrRow
    BY <2>1, <2>2, TypedFacts DEF NotOlder
  <2>4. NotOlder(rows'[d.name], rows[d.name].up, rows[d.name].seq)
    BY <2>1, <2>2, RowsGrowStep DEF RowsGrow, NotOlder
  <2> QED
    BY <1>0, <2>1, <2>2, <2>3, <2>4, NotOlderTransitive
<1>2. CASE rows' = rows /\ \A d \in Deltas : pc[d] \in Ahead => pc'[d] \in Ahead
  BY <1>1, <1>2 DEF Recorded, Origin, Edits
<1>3. CASE Records
  <2>1. PICK n \in Columns, rec \in AttrRow :
          /\ rows' = [rows EXCEPT ![n] = Put(@, rec)] /\ rec.name = n
          /\ rec \in Deltas \/ rec.seq = -1
          /\ \A d \in Deltas : pc[d] \in Ahead /\ pc'[d] # pc[d] => rec = d
    BY <1>3 DEF Records
  <2>2. Origin'
    <3>1. rows'[n] \in {rows[n], rec}
          /\ \A m \in Columns : m # n => rows'[m] = rows[m]
      BY <2>1, RecordDoes
    <3> QED
      BY <2>1, <3>1 DEF Origin
  <2>3. ASSUME NEW d \in Edits, pc'[d] \notin Ahead, pc[d] \in Ahead
        PROVE  NotOlder(rows'[d.name], d.up, d.seq)
    <3>1. rec = d
      BY <2>1, <2>3 DEF Edits
    <3> QED
      BY <2>1, <3>1, RecordDoes
  <2> QED
    BY <1>1, <2>2, <2>3 DEF Recorded
<1>4. CASE Creates
  BY <1>2, <1>4, TypedFacts DEF Creates, Ahead
<1>5. CASE Undeletes \/ Touches \/ Destroys \/ Stays
  BY <1>2, <1>5 DEF Undeletes, Touches, Destroys, Stays, NoneRecords
<1> QED
  BY <1>3, <1>4, <1>5, Kinds

LEMMA RecordedOK ==
    ASSUME TypeOK, Recorded, Origin PROVE RestoringChangesWin
<1> SUFFICES ASSUME NEW d \in Edits, pc[d] \notin Ahead,
                    rows[d.name].up = d.up
             PROVE  \E e \in Edits \cup {InitRows[d.name]} :
                      e # NoRow /\ e.name = d.name /\ e.up = d.up
                      /\ e.seq >= 0 /\ e.val = rows[d.name].val
  BY DEF RestoringChangesWin, Ahead
<1> DEFINE row == rows[d.name]
<1>1. /\ d.name \in Columns /\ d.name # Tomb
      /\ d.up \in Nat /\ d.seq \in Nat
  BY DeltaTyped DEF Edits
<1>2. row # NoRow /\ row.seq >= d.seq /\ row.seq \in Int /\ row.up \in Nat
  BY <1>1, TypedFacts DEF Recorded, NotOlder
<1>3. row = InitRows[d.name] \/ (row \in Deltas /\ row.name = d.name)
  BY <1>1, <1>2 DEF Origin
<1>4. row \in Edits \cup {InitRows[d.name]} /\ row.name = d.name
  BY <1>1, <1>2, <1>3, DocLifecycleAssumption DEF Edits
<1> QED
  BY <1>1, <1>2, <1>4

(* A restore never shows in place of an edit of the same time: its         *)
(* sequence number (attrs.js:33-34) decides, whichever is recorded first.  *)
THEOREM EditsBeforeRestores == Spec => []RestoringChangesWin
<1>1. Init => TypeOK /\ Recorded /\ Origin
  BY InitTyped, InitRecorded
<1>2. TypeOK /\ Recorded /\ Origin /\ [Next]_vars
        => (TypeOK /\ Recorded /\ Origin)'
  BY TypedStep, RecordedStep
<1>3. TypeOK /\ Recorded /\ Origin => RestoringChangesWin
  BY RecordedOK
<1> QED
  BY <1>1, <1>2, <1>3, PTL DEF Spec

-----------------------------------------------------------------------------
(* The time of the last update only moves forward, and to a time that an   *)
(* edit or a restored attribute has been recorded with.                    *)
LEMMA UpdatedStep ==
    ASSUME TypeOK, [Next]_vars, doc # NoRow
    PROVE  /\ doc' # NoRow
           /\ doc'.updated = doc.updated \/ doc'.updated \in Pending
           /\ \A s \in Nat : Le(s, doc.updated) => Le(s, doc'.updated)
<1>0. /\ NoRow \notin DocRow /\ doc \in DocRow
      /\ Updating \subseteq Nat /\ Touching \subseteq Nat
      /\ \A d \in Deltas : d.up \in Nat
  BY DocLifecycleAssumption, TypedFacts, PendingTyped, DeltaTyped DEF Pending
<1>1. CASE doc' = doc
  BY <1>1
<1>2. CASE Undeletes
  <2>1. PICK t \in Updating : doc' = Undelete(doc, t)
    BY <1>2 DEF Undeletes
  <2>2. doc' \in DocRow
    BY <1>0, <2>1, UndeleteDoes
  <2>3. \/ doc'.updated = doc.updated
        \/ /\ doc'.updated = t
           /\ doc.updated = Null \/ doc.updated < t
    BY <1>0, <2>1, UndeleteDoes
  <2>4. \A s \in Nat : Le(s, doc.updated) => Le(s, doc'.updated)
    BY <1>0, <2>3, RowTimesTyped DEF Le
  <2> QED
    BY <1>0, <2>1, <2>2, <2>3, <2>4 DEF Pending
<1>3. CASE Touches
  <2>1. PICK t \in Touching : doc' = Touch(doc, t)
    BY <1>3 DEF Touches
  <2>2. doc' \in DocRow
    BY <1>0, <2>1, TouchDoes
  <2>3. \/ doc'.updated = doc.updated
        \/ /\ doc'.updated = t
           /\ doc.updated = Null \/ doc.updated <= t
    BY <1>0, <2>1, TouchDoes
  <2>4. \A s \in Nat : Le(s, doc.updated) => Le(s, doc'.updated)
    BY <1>0, <2>3, RowTimesTyped DEF Le
  <2> QED
    BY <1>0, <2>1, <2>2, <2>3, <2>4 DEF Pending
<1>4. CASE Destroys
  <2>1. PICK d \in Deltas : doc' = Destroyed(doc, d.up)
    BY <1>4 DEF Destroys
  <2> QED
    BY <1>0, <2>1, DestroyedIs
<1> QED
  BY <1>1, <1>2, <1>3, <1>4, Kinds DEF Creates, Records, Stays

(* Some attribute is as late as the document, and no attribute is later,   *)
(* but for the edits and restores whose statements are still to be run.    *)
Held(t) == \E n \in Names : rows[n] # NoRow /\ rows[n].up >= t
PendingHeld == \A t \in Pending : Held(t)
NoneLater == \A n \in Names :
    rows[n] # NoRow => \/ rows[n].up \in Pending
                       \/ doc # NoRow /\ Le(rows[n].up, doc.updated)
UpdatedHeld ==
    doc # NoRow /\ doc.updated # Null =>
      \/ Held(doc.updated)
      \/ /\ InitDoc = NoRow
         /\ \E d \in Edits : pc[d] = "attr" /\ d.up >= doc.updated
Exists == InitDoc # NoRow => doc # NoRow
RowTimes == PendingHeld /\ NoneLater /\ UpdatedHeld /\ Exists

LEMMA InitRowTimes == ASSUME Init PROVE RowTimes
<1>1. Pending = {}
  BY DEF Init, Pending, Updating, Touching
<1>2. AtRest(doc, rows)
  BY DocLifecycleAssumption DEF Init
<1>3. UpdatedHeld
  <2>1. CASE doc # NoRow /\ doc.updated # Null
    <3>1. doc.updated \in Nat
      BY <2>1, DocLifecycleAssumption, RowTimesTyped DEF Init
    <3> QED
      BY <1>2, <2>1, <3>1 DEF AtRest, UpdatedHeld, Held
  <2> QED
    BY <2>1 DEF UpdatedHeld
<1> QED
  BY <1>1, <1>2, <1>3 DEF Init, RowTimes, PendingHeld, NoneLater, AtRest,
                          Exists

LEMMA HeldStays ==
    ASSUME TypeOK, RowsGrow, TypeOK', NEW t \in Nat, Held(t)
    PROVE  Held(t)'
<1>1. PICK n \in Names : rows[n] # NoRow /\ rows[n].up >= t
  BY DEF Held
<1>2. n \in Columns /\ rows[n].up \in Nat
  BY <1>1, TypedFacts
<1>3. rows'[n] # NoRow /\ rows'[n].up >= rows[n].up
  <2>1. NotOlder(rows'[n], rows[n].up, rows[n].seq)
    BY <1>1, <1>2 DEF RowsGrow
  <2>2. rows'[n] # NoRow => rows'[n].up \in Nat
    BY <1>2 DEF TypeOK, AttrRow
  <2> QED
    BY <1>2, <2>1, <2>2 DEF NotOlder
<1>4. rows'[n].up \in Nat
  BY <1>2, <1>3 DEF TypeOK, AttrRow
<1> QED
  BY <1>1, <1>2, <1>3, <1>4 DEF Held

LEMMA RowTimesStep ==
    ASSUME TypeOK, RowTimes, [Next]_vars PROVE RowTimes'
<1>0. TypeOK' /\ RowsGrow
  BY TypedStep, RowsGrowStep
<1>1. /\ Pending \subseteq Nat
      /\ doc # NoRow => doc \in DocRow /\ (doc.updated # Null => doc.updated \in Nat)
      /\ NoRow \notin DocRow
      /\ \A n \in Names : n \in Columns /\ n # Tomb
                          /\ (rows[n] # NoRow => rows[n].up \in Nat)
      /\ \A d \in Deltas : d.up \in Nat
  BY PendingTyped, TypedFacts, RowTimesTyped, DocLifecycleAssumption, DeltaTyped
<1>2. Exists'
  BY UpdatedStep DEF RowTimes, Exists
<1>3. \A t \in Pending : Held(t) /\ Held(t)'
  BY <1>0, <1>1, HeldStays DEF RowTimes, PendingHeld
<1>4. CASE Creates
  <2>1. PICK d \in Deltas : /\ doc = NoRow /\ doc' = NewDoc(d)
                            /\ pc' = [pc EXCEPT ![d] = "attr"] /\ rows' = rows
                            /\ Updating' = Updating /\ Touching' = Touching
    BY <1>4 DEF Creates
  <2>2. pc'[d] = "attr"
    BY <2>1, TypedFacts
  <2>3. UpdatedHeld'
    <3>1. CASE d \in Edits
      BY <1>1, <2>1, <2>2, <3>1, NewDocIs DEF UpdatedHeld, RowTimes, Exists
    <3>2. CASE d \notin Edits
      BY <2>1, <3>2, NewDocIs DEF UpdatedHeld
    <3> QED
      BY <3>1, <3>2
  <2>4. PendingHeld' /\ NoneLater'
    BY <1>3, <2>1 DEF PendingHeld, NoneLater, RowTimes, Pending
  <2> QED
    BY <1>2, <2>3, <2>4 DEF RowTimes
<1>5. CASE Records
  <2>1. PICK n \in Columns, rec \in AttrRow :
          /\ rows' = [rows EXCEPT ![n] = Put(@, rec)] /\ rec.name = n
          /\ n # Tomb => Updating' = Updating \cup {rec.up}
          /\ n = Tomb => Updating' = Updating
          /\ Touching' = Touching /\ doc' = doc
          /\ \A d \in Deltas : pc[d] \in Ahead /\ pc'[d] # pc[d] => rec = d
    BY <1>5 DEF Records
  <2>2. /\ n # Tomb => Pending' = Pending \cup {rec.up}
        /\ n = Tomb => Pending' = Pending
    BY <2>1 DEF Pending
  <2>3. /\ NotOlder(rows'[n], rec.up, rec.seq)
        /\ rows'[n] \in {rows[n], rec}
        /\ \A m \in Columns : m # n => rows'[m] = rows[m]
    BY <2>1, RecordDoes
  <2>4. n # Tomb => n \in Names /\ Held(rec.up)'
    <3>1. rows'[n] # NoRow => rows'[n].up \in Nat
      BY <1>0 DEF TypeOK, AttrRow
    <3>2. rec.up \in Nat
      BY DEF AttrRow
    <3> QED
      BY <2>3, <3>1, <3>2 DEF Columns, NotOlder, Held
  <2>5. PendingHeld'
    BY <1>3, <2>2, <2>4 DEF PendingHeld
  <2>6. NoneLater'
    BY <1>1, <2>1, <2>2, <2>3 DEF NoneLater, RowTimes
  <2>7. UpdatedHeld'
    <3>1. SUFFICES ASSUME doc # NoRow, doc.updated # Null PROVE UpdatedHeld'
      BY <2>1 DEF UpdatedHeld
    <3>2. CASE Held(doc.updated)
      BY <1>0, <1>1, <2>1, <3>1, <3>2, HeldStays DEF UpdatedHeld, Held
    <3>3. ASSUME InitDoc = NoRow, NEW d \in Edits, pc[d] = "attr",
                 d.up >= doc.updated
          PROVE  UpdatedHeld'
      <4>1. CASE pc'[d] = "attr"
        BY <2>1, <3>3, <4>1 DEF UpdatedHeld
      <4>2. CASE pc'[d] # "attr"
        <5>1. rec = d /\ d \in Deltas
          BY <2>1, <3>3, <4>2 DEF Ahead, Edits
        <5>2. n \in Names /\ Held(d.up)'
          BY <2>1, <2>4, <5>1 DEF Edits
        <5>3. PICK m \in Names : rows'[m] # NoRow /\ rows'[m].up >= d.up
          BY <5>2 DEF Held
        <5>4. rows'[m].up \in Nat
          BY <1>0, <1>1, <5>3 DEF TypeOK, AttrRow
        <5>5. rows'[m].up >= doc'.updated
          BY <1>1, <2>1, <3>1, <3>3, <5>1, <5>3, <5>4
        <5> QED
          BY <5>3, <5>5 DEF UpdatedHeld, Held
      <4> QED
        BY <4>1, <4>2
    <3> QED
      BY <3>1, <3>2, <3>3 DEF RowTimes, UpdatedHeld
  <2> QED
    BY <1>2, <2>5, <2>6, <2>7 DEF RowTimes
<1>6. ASSUME doc # NoRow, rows' = rows, NoneRecords, Pending' \subseteq Pending,
             \A t \in Pending : t \in Pending' \/ Le(t, doc'.updated)
      PROVE  RowTimes'
  <2>1. PendingHeld'
    BY <1>3, <1>6 DEF PendingHeld
  <2>2. doc' # NoRow /\ \A s \in Nat : Le(s, doc.updated) => Le(s, doc'.updated)
    BY <1>6, UpdatedStep
  <2>3. NoneLater'
    BY <1>1, <1>6, <2>2 DEF RowTimes, NoneLater
  <2>4. UpdatedHeld'
    <3>1. CASE doc'.updated = doc.updated
      BY <1>6, <2>2, <3>1 DEF RowTimes, UpdatedHeld, Held, NoneRecords, Edits
    <3>2. CASE doc'.updated \in Pending
      BY <1>3, <1>6, <3>2 DEF UpdatedHeld, Held
    <3> QED
      BY <1>6, <3>1, <3>2, UpdatedStep
  <2> QED
    BY <1>2, <2>1, <2>3, <2>4 DEF RowTimes
<1>7. CASE Undeletes
  <2>1. Pending' = Pending
    BY <1>7 DEF Undeletes, Pending
  <2> QED
    BY <1>6, <1>7, <2>1 DEF Undeletes
<1>8. CASE Touches
  <2>1. PICK t \in Touching :
          /\ doc # NoRow /\ doc' = Touch(doc, t)
          /\ Touching \ {t} \subseteq Touching' /\ Touching' \subseteq Touching
          /\ Updating' = Updating /\ rows' = rows /\ NoneRecords
    BY <1>8 DEF Touches
  <2>2. Le(t, doc'.updated)
    <3>1. t \in Nat /\ doc \in DocRow
      BY <1>1, <2>1 DEF Pending
    <3> QED
      BY <2>1, <3>1, TouchDoes, RowTimesTyped DEF Le
  <2> QED
    BY <1>6, <2>1, <2>2 DEF Pending
<1>9. CASE Destroys
  BY <1>6, <1>9 DEF Destroys, Pending
<1>10. CASE Stays
  <2>1. CASE doc # NoRow
    BY <1>6, <1>10, <2>1 DEF Stays, Pending
  <2>2. CASE doc = NoRow
    BY <1>2, <1>10, <2>2
       DEF Stays, RowTimes, PendingHeld, NoneLater, UpdatedHeld, Held, Pending
  <2> QED
    BY <2>1, <2>2
<1> QED
  BY <1>4, <1>5, <1>7, <1>8, <1>9, <1>10, Kinds

(* A restore of an attribute runs for a delta that waits for it.           *)
Owned == \A r \in restores : pc[r.owner] = "restoring"
LEMMA OwnedStep == ASSUME TypeOK, Owned, [Next]_vars PROVE Owned'
<1>0. /\ pc \in [Deltas -> Places] /\ restores \subseteq RestoreRow
      /\ \A r \in RestoreRow : r.owner \in Deltas
  BY TypedFacts DEF RestoreRow
<1>1. ASSUME NEW d \in Deltas, NEW to, Go(d, to), pc[d] # "restoring",
             restores' = restores
      PROVE  Owned'
  BY <1>0, <1>1 DEF Go, Owned
<1>2. ASSUME NEW d \in Deltas,
             \/ GetOrCreateDoc(d) \/ UpdateDoc1(d) \/ UpdateDoc2(d)
             \/ NoChangeSince(d) \/ RestoreFails(d) \/ RestoreIfChangeSince(d)
             \/ RestoreIfDestroyedBefore(d) \/ Destroy(d) \/ CreateAttr(d)
      PROVE  Owned'
  BY <1>1, <1>2 DEF GetOrCreateDoc, UpdateDoc1, UpdateDoc2, NoChangeSince,
     RestoreFails, RestoreIfChangeSince, RestoreIfDestroyedBefore, Destroy,
     CreateAttr
<1>3. ASSUME NEW d \in Deltas, Restore(d) PROVE Owned'
  <2>1. \A r \in restores' : r \in restores \/ r.owner = d
    BY <1>3 DEF Restore
  <2> QED
    BY <1>0, <1>3, <2>1 DEF Restore, Go, Owned
<1>4. ASSUME NEW d \in Deltas, RestoreDone(d) PROVE Owned'
  BY <1>0, <1>4 DEF RestoreDone, Go, Owned
<1>5. ASSUME NEW r \in restores, StepRestore(r) PROVE Owned'
  <2>1. \A to : [r EXCEPT !.pc = to].owner = r.owner
    BY <1>0 DEF RestoreRow
  <2>2. pc' = pc /\ \A s \in restores' : s \in restores \/ s.owner = r.owner
    BY <1>5, <2>1 DEF StepRestore, RestoreAttr, RestoreDoc1, RestoreDoc2,
                      Advance
  <2> QED
    BY <2>2 DEF Owned
<1>6. CASE UNCHANGED vars
  BY <1>6 DEF vars, Owned
<1> QED
  BY <1>2, <1>3, <1>4, <1>5, <1>6 DEF Next, StepDelta

LEMMA QuietMeans ==
    ASSUME TypeOK, Owned, Quiet
    PROVE  /\ doc # NoRow /\ restores = {} /\ Pending = {}
           /\ \A d \in Deltas : pc[d] \in {"queued", "done", "error"}
<1>1. \A d \in Deltas : pc[d] \in {"queued", "done", "error"}
  BY DEF Quiet, Running, Processed
<1>2. \A r \in restores : r.owner \in Deltas
  BY TypedFacts DEF RestoreRow
<1>3. restores = {}
  BY <1>1, <1>2 DEF Owned
<1>4. Pending = {}
  BY <1>1, <1>3 DEF Pending, Updating, Touching
<1> QED
  BY <1>1, <1>3, <1>4 DEF Quiet

LEMMA AtRestOK ==
    ASSUME TypeOK, TimesOK, RowTimes, Owned, Quiet PROVE AtRest(doc, rows)
<1>1. /\ doc # NoRow /\ Pending = {} /\ \A d \in Deltas : pc[d] # "attr"
      /\ doc \in DocRow
  BY QuietMeans, TypedFacts
<1>2. \A n \in Names : rows[n] # NoRow => /\ rows[n].up \in Nat
                                          /\ Le(rows[n].up, doc.updated)
  BY <1>1, TypedFacts DEF RowTimes, NoneLater
<1>3. doc.updated # Null => \E n \in Names : rows[n] # NoRow
                                             /\ rows[n].up >= doc.updated
  BY <1>1 DEF RowTimes, UpdatedHeld, Held, Edits
<1>4. doc.updated # Null => \E n \in Names : rows[n] # NoRow
                                             /\ rows[n].up = doc.updated
  BY <1>1, <1>2, <1>3, RowTimesTyped DEF Le
<1> QED
  BY <1>1, <1>2, <1>4 DEF AtRest, TimesOK

(* Whenever processing comes to rest, it leaves a document in the state it *)
(* was assumed to start from: the instances' documents at rest are those   *)
(* that processing leaves, and rounds of processing can follow each other. *)
THEOREM RestsAgain == Spec => [](Quiet => AtRest(doc, rows))
<1> DEFINE IInv == TypeOK /\ TimesOK /\ RowTimes /\ Owned
<1>1. Init => IInv
  BY InitTyped, InitTimesOK, InitRowTimes DEF Init, Owned
<1>2. IInv /\ [Next]_vars => IInv'
  BY TypedStep, TimesStep, RowTimesStep, OwnedStep
<1>3. IInv => (Quiet => AtRest(doc, rows))
  BY AtRestOK
<1> QED
  BY <1>1, <1>2, <1>3, PTL DEF Spec

-----------------------------------------------------------------------------
(* What follows is about a document that exists and has a time of its last *)
(* update.  One whose first delta is a deletion has none, and no condition *)
(* on it holds (process.js:330): then deletions do not take priority.      *)
Created == InitDoc # NoRow /\ InitDoc.updated # Null

(* A step is that of one delta, or leaves its place alone.                 *)
LEMMA OwnStep ==
    ASSUME TypeOK, [Next]_vars, NEW e \in Deltas
    PROVE  StepDelta(e) \/ (pc'[e] = pc[e] /\ at'[e] = at[e])
<1>0. pc \in [Deltas -> Places] /\ at \in [Deltas -> Time]
  BY TypedFacts
<1>1. ASSUME NEW d \in Deltas, StepDelta(d), d # e
      PROVE  pc'[e] = pc[e] /\ at'[e] = at[e]
  BY <1>0, <1>1 DEF StepDelta, GetOrCreateDoc, CreateAttr, UpdateDoc1,
     UpdateDoc2, RestoreIfDestroyedBefore, Destroy, RestoreIfChangeSince,
     NoChangeSince, Restore, RestoreFails, RestoreDone, Go
<1>2. ASSUME NEW r \in restores, StepRestore(r) PROVE pc' = pc /\ at' = at
  BY <1>2 DEF StepRestore, RestoreAttr, RestoreDoc1, RestoreDoc2
<1> QED
  BY <1>1, <1>2 DEF Next, vars

(* What a delta's step is, by its place, and where it goes.                *)
LEMMA StepFrom ==
    ASSUME TypeOK, NEW d \in Deltas, StepDelta(d)
    PROVE  /\ pc[d] = "queued" => GetOrCreateDoc(d) /\ pc'[d] = "attr"
           /\ pc[d] = "attr" =>
                CreateAttr(d)
                /\ pc'[d] = IF d.name = Tomb THEN "destroy" ELSE "update"
           /\ pc[d] = "update" => UpdateDoc1(d) /\ pc'[d] = "touch"
           /\ pc[d] = "touch" => UpdateDoc2(d) /\ pc'[d] = "check"
           /\ pc[d] = "check" => RestoreIfDestroyedBefore(d)
                                 /\ pc'[d] \in {"read", "done"}
           /\ pc[d] = "destroy" => Destroy(d) /\ pc'[d] \in {"done", "since"}
           /\ pc[d] = "since" => \/ RestoreIfChangeSince(d) /\ pc'[d] = "read"
                                 \/ NoChangeSince(d) /\ pc'[d] = "done"
           /\ pc[d] = "read" => \/ Restore(d) /\ pc'[d] = "restoring"
                                \/ RestoreFails(d) /\ pc'[d] = "error"
           /\ pc[d] = "restoring" => pc'[d] = "done"
           /\ pc[d] \notin {"done", "error"}
<1>0. pc \in [Deltas -> Places]
  BY TypedFacts
<1> QED
  BY <1>0 DEF StepDelta, GetOrCreateDoc, CreateAttr, UpdateDoc1, UpdateDoc2,
     RestoreIfDestroyedBefore, Destroy, RestoreIfChangeSince, NoChangeSince,
     Restore, RestoreFails, RestoreDone, Go

(* Edits update the document's row, deletions destroy it.                  *)
Ways == \A d \in Deltas :
          /\ pc[d] \in {"update", "touch", "check"} => d \in Edits
          /\ pc[d] \in {"destroy", "since"} => d \in Deletions
LEMMA WaysStep == ASSUME TypeOK, Ways, [Next]_vars PROVE Ways'
<1> SUFFICES ASSUME NEW d \in Deltas
             PROVE  /\ pc'[d] \in {"update", "touch", "check"} => d \in Edits
                    /\ pc'[d] \in {"destroy", "since"} => d \in Deletions
  BY DEF Ways
<1>1. CASE pc'[d] = pc[d]
  BY <1>1 DEF Ways
<1>2. CASE StepDelta(d)
  <2>1. pc[d] \in Places
    BY TypedFacts
  <2> QED
    BY <1>2, <2>1, StepFrom DEF Ways, Edits, Deletions, Places
<1> QED
  BY <1>1, <1>2, OwnStep

LEMMA ProcessedGrows ==
    ASSUME TypeOK, [Next]_vars
    PROVE  /\ Processed \subseteq Processed'
           /\ EditTimes \subseteq EditTimes'
           /\ DeletionTimes \subseteq DeletionTimes'
<1>1. ASSUME NEW d \in Deltas, pc[d] # "queued" PROVE pc'[d] # "queued"
  <2>1. pc[d] \in Places
    BY TypedFacts
  <2> QED
    BY <1>1, <2>1, OwnStep, StepFrom DEF Places
<1>2. Processed \subseteq Processed'
  BY <1>1 DEF Processed
<1> QED
  BY <1>2 DEF EditTimes, DeletionTimes

LEMMA TimesTyped ==
    ASSUME Created
    PROVE  /\ EditTimes \subseteq Nat /\ DeletionTimes \subseteq Nat
           /\ InitDoc.updated \in EditTimes
           /\ InitDoc.last # Null => InitDoc.last \in DeletionTimes
           /\ InitDoc \in DocRow
<1>1. InitDoc \in DocRow
  BY DocLifecycleAssumption DEF Created
<1> QED
  BY <1>1, DeltaTyped, RowTimesTyped
     DEF Created, EditTimes, DeletionTimes, Edits, Deletions, Processed

(* Every time in the rows is, at the latest, that of an edit.              *)
ByEdit(t) == \E u \in EditTimes : t <= u
Sourced ==
    /\ \A n \in Names : rows[n] # NoRow => ByEdit(rows[n].up)
    /\ \A d \in Deltas : at[d] # Null => ByEdit(at[d])
    /\ \A r \in restores : ByEdit(r.up)
    /\ doc # NoRow /\ doc.updated # Null /\ ByEdit(doc.updated)
    /\ doc.destroyed # Null => doc.destroyed \in DeletionTimes

LEMMA InitSourced == ASSUME Created, Init PROVE Sourced
<1>1. InitDoc.updated \in EditTimes /\ InitDoc \in DocRow
      /\ InitDoc.updated \in Nat
  BY TimesTyped
<1>2. ByEdit(doc.updated) /\ doc # NoRow /\ doc.updated # Null
  BY <1>1 DEF Init, Created, ByEdit
<1>3. \A n \in Names : rows[n] # NoRow => rows[n].up <= InitDoc.updated
  BY DocLifecycleAssumption DEF Init, AtRest, Created, Le
<1>4. doc.destroyed # Null => doc.destroyed \in DeletionTimes
  <2>1. TimesAgree(InitDoc)
    BY DocLifecycleAssumption DEF AtRest, Created
  <2>2. doc.destroyed # Null => InitDoc.last = doc.destroyed
    BY <2>1 DEF TimesAgree, Init
  <2> QED
    BY <2>2, TimesTyped
<1> QED
  BY <1>1, <1>2, <1>3, <1>4 DEF Init, Sourced, ByEdit

LEMMA SourcedStep ==
    ASSUME Created, TypeOK, Ways, Sourced, [Next]_vars PROVE Sourced'
<1>0. /\ pc \in [Deltas -> Places] /\ at \in [Deltas -> Time]
      /\ restores \subseteq RestoreRow
      /\ doc \in DocRow /\ doc # NoRow
      /\ \A n \in Names : n \in Columns /\ n # Tomb
  BY TypedFacts DEF Sourced
<1>1. /\ \A t : ByEdit(t) => ByEdit(t)'
      /\ DeletionTimes \subseteq DeletionTimes'
  BY ProcessedGrows DEF ByEdit
<1>2. ASSUME NEW d \in Edits, pc[d] # "queued" PROVE ByEdit(d.up)
  <2>1. d.up \in EditTimes /\ d.up \in Nat
    BY <1>2, DeltaTyped DEF EditTimes, Processed, Edits
  <2> QED
    BY <2>1 DEF ByEdit
<1>3. \A n \in Names : rows'[n] # NoRow => ByEdit(rows'[n].up)
  <2>1. ASSUME NEW d \in Deltas, CreateAttr(d),
               NEW n \in Names, rows'[n] # NoRow
        PROVE  ByEdit(rows'[n].up)
    <3>1. /\ pc[d] = "attr" /\ d.name \in Columns /\ d \in AttrRow
          /\ rows' = [rows EXCEPT ![d.name] = Put(@, d)]
      BY <2>1, DeltaTyped DEF CreateAttr
    <3>2. CASE n = d.name
      <4>1. rows'[n] = rows[n] \/ rows'[n] = d
        BY <3>1, <3>2, RecordDoes
      <4>2. d \in Edits
        BY <1>0, <3>2 DEF Edits
      <4> QED
        BY <1>2, <2>1, <3>1, <4>1, <4>2 DEF Sourced
    <3>3. CASE n # d.name
      BY <1>0, <2>1, <3>1, <3>3, RecordDoes DEF Sourced
    <3> QED
      BY <3>2, <3>3
  <2>2. ASSUME NEW r \in restores, RestoreAttr(r),
               NEW n \in Names, rows'[n] # NoRow
        PROVE  ByEdit(rows'[n].up)
    <3>0. /\ r.name \in Columns /\ Restored(r) \in AttrRow /\ n \in Columns
          /\ rows' = [rows EXCEPT ![r.name] = Put(@, Restored(r))]
      BY <1>0, <2>2, RestoredTyped DEF RestoreAttr
    <3>1. rows'[n] = rows[n] \/ rows'[n] = Restored(r)
      BY <3>0, RecordDoes
    <3>2. Restored(r).up = r.up
      BY <1>0, RestoredTyped
    <3> QED
      BY <2>2, <3>1, <3>2 DEF Sourced
  <2>3. CASE rows' = rows
    BY <2>3 DEF Sourced
  <2>4. ASSUME NEW d \in Deltas, StepDelta(d)
        PROVE  rows' = rows \/ CreateAttr(d)
    BY <2>4 DEF StepDelta, GetOrCreateDoc, UpdateDoc1,
     UpdateDoc2, RestoreIfDestroyedBefore, Destroy, RestoreIfChangeSince,
     NoChangeSince, Restore, RestoreFails, RestoreDone
  <2>5. ASSUME NEW r \in restores, StepRestore(r)
        PROVE  rows' = rows \/ RestoreAttr(r)
    BY <2>5 DEF StepRestore, RestoreDoc1, RestoreDoc2
  <2> QED
    BY <2>1, <2>2, <2>3, <2>4, <2>5 DEF Next, vars
<1>4. ASSUME NEW d \in Deltas, at'[d] # Null PROVE ByEdit(at'[d])
  <2>1. CASE at'[d] = at[d]
    BY <1>4, <2>1 DEF Sourced
  <2>2. CASE StepDelta(d)
    <3>1. CASE RestoreIfDestroyedBefore(d)
      <4>1. pc[d] = "check" /\ d \in Edits /\ at'[d] \in {at[d], d.up}
        BY <1>0, <3>1 DEF RestoreIfDestroyedBefore, Ways
      <4> QED
        BY <1>2, <1>4, <2>1, <4>1
    <3>2. CASE RestoreIfChangeSince(d)
      <4>1. \E n \in RowsSince(d.up) : at'[d] = rows[n].up
        BY <1>0, <3>2 DEF RestoreIfChangeSince
      <4> QED
        BY <4>1 DEF RowsSince, Sourced
    <3>3. CASE at' = at
      BY <2>1, <3>3
    <3> QED
      BY <2>2, <3>1, <3>2, <3>3 DEF StepDelta, GetOrCreateDoc, CreateAttr,
         UpdateDoc1, UpdateDoc2, Destroy, NoChangeSince, Restore,
         RestoreFails, RestoreDone
  <2> QED
    BY <2>1, <2>2, OwnStep
<1>5. ASSUME NEW s \in restores' PROVE ByEdit(s.up)
  <2>1. CASE s \in restores
    BY <2>1 DEF Sourced
  <2>2. ASSUME NEW d \in Deltas, Restore(d) PROVE ByEdit(s.up)
    <3>1. at[d] # Null
      BY <2>2, TypedFacts DEF Restore
    <3>2. s \in restores \/ s.up = at[d]
      BY <2>2 DEF Restore
    <3> QED
      BY <2>1, <3>1, <3>2 DEF Sourced
  <2>3. ASSUME NEW r \in restores, StepRestore(r) PROVE ByEdit(s.up)
    <3>1. \A to : [r EXCEPT !.pc = to].up = r.up
      BY <1>0 DEF RestoreRow
    <3>2. s \in restores \/ s.up = r.up
      BY <2>3, <3>1 DEF StepRestore, RestoreAttr, RestoreDoc1, RestoreDoc2,
                        Advance
    <3> QED
      BY <2>1, <3>2 DEF Sourced
  <2>4. CASE restores' = restores
    BY <2>1, <2>4
  <2>5. ASSUME NEW d \in Deltas, StepDelta(d)
        PROVE  restores' = restores \/ Restore(d)
    BY <2>5 DEF StepDelta, GetOrCreateDoc, CreateAttr, UpdateDoc1,
     UpdateDoc2, RestoreIfDestroyedBefore, Destroy, RestoreIfChangeSince,
     NoChangeSince, RestoreFails, RestoreDone
  <2> QED
    BY <2>2, <2>3, <2>4, <2>5 DEF Next, vars
<1>6. \A t \in Pending : ByEdit(t) /\ t \in Nat
  <2>1. \A d \in Deltas : pc[d] \in {"update", "touch"} => ByEdit(d.up)
    BY <1>2 DEF Ways
  <2> QED
    BY <2>1, PendingTyped DEF Pending, Updating, Touching, Sourced
<1>7. doc' # NoRow /\ doc'.updated # Null /\ ByEdit(doc'.updated)
  BY <1>0, <1>6, UpdatedStep, NullIsNoTime DEF Sourced
<1>8. doc'.destroyed # Null =>
        \/ doc'.destroyed \in DeletionTimes
        \/ \E d \in Deletions : pc[d] # "queued" /\ doc'.destroyed = d.up
  <2>1. CASE doc' = doc
    BY <2>1 DEF Sourced
  <2>2. CASE Undeletes
    <3>1. PICK t \in Updating : doc' = Undelete(doc, t)
      BY <2>2 DEF Undeletes
    <3>2. t \in Nat
      BY <1>6 DEF Pending
    <3>3. doc' = doc \/ doc'.destroyed = Null
      BY <1>0, <3>1, <3>2, UndeleteDoes
    <3> QED
      BY <3>3 DEF Sourced
  <2>3. CASE Touches
    <3>1. PICK t \in Touching : doc' = Touch(doc, t)
      BY <2>3 DEF Touches
    <3>2. t \in Nat
      BY <1>6 DEF Pending
    <3>3. doc'.destroyed = doc.destroyed
      BY <1>0, <3>1, <3>2, TouchDoes
    <3> QED
      BY <3>3 DEF Sourced
  <2>4. CASE Destroys
    <3>1. PICK d \in Deltas : doc' = Destroyed(doc, d.up) /\ pc[d] = "destroy"
      BY <2>4 DEF Destroys
    <3>2. d \in Deletions /\ doc'.destroyed = d.up
      BY <1>0, <3>1, DestroyedIs, DeltaTyped DEF Ways
    <3> QED
      BY <3>1, <3>2
  <2> QED
    BY <1>0, <2>1, <2>2, <2>3, <2>4, Kinds DEF Creates, Records, Stays
<1>9. doc'.destroyed # Null => doc'.destroyed \in DeletionTimes'
  <2>1. \A d \in Deletions : pc[d] # "queued" => d.up \in DeletionTimes
    BY DEF DeletionTimes, Processed, Deletions
  <2> QED
    BY <1>1, <1>8, <2>1
<1> QED
  BY <1>1, <1>3, <1>4, <1>5, <1>7, <1>9 DEF Sourced

-----------------------------------------------------------------------------
(* The document's row knows of every edit whose update is over, and of     *)
(* every deletion that has been tried: it was updated after the deletion,  *)
(* or destroyed not before.                                                *)
Answered(t) == doc # NoRow /\ (Lt(t, doc.updated) \/ Le(t, doc.destroyed))
Updates == {"queued", "attr", "update", "touch"}
Gone == {d.up : d \in {e \in Deletions : pc[e] \notin Ahead \cup {"destroy"}}}
        \cup ({InitDoc.last} \ {Null})
RowKnows ==
    /\ \A d \in Edits : pc[d] \notin Updates => Le(d.up, doc.updated)
    /\ Le(InitDoc.updated, doc.updated)
    /\ \A t \in Gone : Answered(t)

LEMMA AnsweredStep ==
    ASSUME TypeOK, [Next]_vars, NEW t \in Nat, Answered(t)
    PROVE  Answered(t)'
<1>0. /\ NoRow \notin DocRow /\ doc \in DocRow /\ doc # NoRow
      /\ Updating \subseteq Nat /\ Touching \subseteq Nat
      /\ \A d \in Deltas : d.up \in Nat
      /\ doc' # NoRow
  BY DocLifecycleAssumption, TypedFacts, PendingTyped, DeltaTyped, UpdatedStep
     DEF Pending, Answered
<1>1. CASE doc' = doc
  BY <1>1 DEF Answered
<1>2. CASE Undeletes
  <2>1. PICK s \in Updating : doc' = Undelete(doc, s)
    BY <1>2 DEF Undeletes
  <2>2. CASE doc' = doc
    BY <1>1, <2>2
  <2>3. CASE /\ doc'.updated = s
             /\ doc.updated = Null \/ doc.updated < s
             /\ doc.destroyed = Null \/ doc.destroyed < s
    <3>1. s \in Nat /\ s # Null
      BY <1>0, NullIsNoTime
    <3>2. Lt(t, s)
      BY <1>0, <2>3, <3>1, RowTimesTyped DEF Answered, Lt, Le
    <3> QED
      BY <1>0, <2>3, <3>2 DEF Answered
  <2> QED
    BY <1>0, <2>1, <2>2, <2>3, UndeleteDoes
<1>3. CASE Touches
  <2>1. PICK s \in Touching : doc' = Touch(doc, s)
    BY <1>3 DEF Touches
  <2>2. doc'.destroyed = doc.destroyed /\ s \in Nat
    BY <1>0, <2>1, TouchDoes
  <2>3. doc'.updated = doc.updated
        \/ (doc'.updated = s /\ (doc.updated = Null \/ doc.updated <= s))
    BY <1>0, <2>1, TouchDoes
  <2>4. Lt(t, doc.updated) => Lt(t, doc'.updated)
    BY <1>0, <2>2, <2>3, RowTimesTyped DEF Lt
  <2> QED
    BY <1>0, <2>2, <2>4 DEF Answered
<1>4. CASE Destroys
  <2>1. PICK d \in Deltas : doc' = Destroyed(doc, d.up)
                            /\ Destroyable(doc, d.up)
    BY <1>4 DEF Destroys
  <2>2. doc'.destroyed = d.up /\ doc'.updated = doc.updated /\ d.up \in Nat
    BY <1>0, <2>1, DestroyedIs
  <2>3. Le(t, doc.destroyed) => Le(t, doc'.destroyed)
    BY <1>0, <2>1, <2>2, RowTimesTyped DEF Destroyable, Le
  <2> QED
    BY <1>0, <2>2, <2>3 DEF Answered
<1> QED
  BY <1>0, <1>1, <1>2, <1>3, <1>4, Kinds DEF Creates, Records, Stays

LEMMA GoneTyped == ASSUME Created PROVE Gone \subseteq Nat
BY TimesTyped, DeltaTyped, RowTimesTyped DEF Gone, Deletions

LEMMA InitRowKnows == ASSUME Created, Init PROVE RowKnows
<1>1. InitDoc \in DocRow /\ TimesAgree(InitDoc)
  BY DocLifecycleAssumption, TimesTyped DEF Created, AtRest
<1>2. Le(InitDoc.updated, InitDoc.updated)
  BY <1>1, RowTimesTyped DEF Created, Le
<1>3. InitDoc.last # Null => \/ Le(InitDoc.last, InitDoc.destroyed)
                             \/ Lt(InitDoc.last, InitDoc.updated)
  BY <1>1, RowTimesTyped DEF TimesAgree, Le
<1>4. Gone \subseteq {InitDoc.last} \ {Null}
  BY DEF Init, Gone, Ahead, Deletions
<1> QED
  BY <1>2, <1>3, <1>4 DEF Init, RowKnows, Answered, Created, Updates, Edits

(* A deletion joins those that have been tried by Destroy.                 *)
LEMMA GoneStep ==
    ASSUME TypeOK, [Next]_vars, NEW t \in Gone'
    PROVE  t \in Gone \/ \E d \in Deletions : d.up = t /\ Destroy(d)
<1>1. CASE t \in {InitDoc.last} \ {Null}
  BY <1>1 DEF Gone
<1>2. CASE \E d \in Deletions : pc'[d] \notin Ahead \cup {"destroy"} /\ d.up = t
  <2>1. PICK d \in Deletions : pc'[d] \notin Ahead \cup {"destroy"} /\ d.up = t
    BY <1>2
  <2>2. CASE pc[d] \notin Ahead \cup {"destroy"}
    BY <2>1, <2>2 DEF Gone
  <2>3. CASE pc[d] \in Ahead \cup {"destroy"}
    <3>1. StepDelta(d)
      BY <2>1, <2>3, OwnStep DEF Deletions
    <3>2. Destroy(d)
      BY <2>1, <2>3, <3>1, StepFrom DEF Ahead, Deletions
    <3> QED
      BY <2>1, <3>2
  <2> QED
    BY <2>2, <2>3
<1> QED
  BY <1>1, <1>2 DEF Gone

(* After a deletion that was tried the row answers for it.                 *)
LEMMA DestroyDoes ==
    ASSUME TypeOK, doc.updated # Null, NEW d \in Deltas, Destroy(d)
    PROVE  \/ Le(d.up, doc'.destroyed) /\ doc' # NoRow
           \/ /\ doc' = doc /\ doc # NoRow /\ Lt(d.up, doc.updated)
              /\ pc'[d] = "since"
<1>0. doc \in DocRow /\ doc # NoRow /\ d.up \in Nat /\ pc \in [Deltas -> Places]
      /\ NoRow \notin DocRow
  BY TypedFacts, DeltaTyped, DocLifecycleAssumption DEF Destroy
<1>1. CASE Destroyable(doc, d.up)
  <2>1. doc' = Destroyed(doc, d.up)
    BY <1>1 DEF Destroy, Destroyed
  <2>2. doc' \in DocRow /\ doc'.destroyed = d.up
    BY <1>0, <2>1, DestroyedIs
  <2> QED
    BY <1>0, <2>2, NullIsNoTime DEF Le
<1>2. CASE ~Destroyable(doc, d.up)
  <2>1. doc' = doc /\ pc'[d] = "since"
    BY <1>0, <1>2 DEF Destroy, Go
  <2>2. Lt(d.up, doc.updated) \/ Le(d.up, doc.destroyed)
    BY <1>0, <1>2, RowTimesTyped DEF Destroyable, Le, Lt
  <2> QED
    BY <1>0, <2>1, <2>2
<1> QED
  BY <1>1, <1>2

LEMMA RowKnowsStep ==
    ASSUME Created, TypeOK, Ways, Sourced, RowKnows, [Next]_vars PROVE RowKnows'
<1>0. /\ doc # NoRow /\ doc.updated # Null /\ doc \in DocRow
      /\ InitDoc.updated \in Nat
      /\ \A d \in Deltas : d.up \in Nat
  BY TypedFacts, TimesTyped, DeltaTyped DEF Sourced
<1>1. \A s \in Nat : Le(s, doc.updated) => Le(s, doc'.updated)
  BY <1>0, UpdatedStep
<1>2. ASSUME NEW d \in Edits, pc'[d] \notin Updates
      PROVE  Le(d.up, doc'.updated)
  <2>0. d \in Deltas /\ d.up \in Nat
    BY <1>0 DEF Edits
  <2>1. CASE pc[d] \notin Updates
    BY <1>1, <2>0, <2>1 DEF RowKnows
  <2>2. CASE pc[d] \in Updates
    <3>1. StepDelta(d)
      BY <1>2, <2>0, <2>2, OwnStep
    <3>2. UpdateDoc2(d)
      BY <1>2, <2>0, <2>2, <3>1, StepFrom DEF Updates, Edits
    <3>3. doc' = Touch(doc, d.up)
      BY <3>2 DEF UpdateDoc2
    <3>4. \/ doc'.updated = d.up
          \/ doc'.updated = doc.updated /\ doc.updated > d.up
      BY <1>0, <2>0, <3>3, TouchDoes
    <3> QED
      BY <1>0, <2>0, <3>4, RowTimesTyped DEF Le
  <2> QED
    BY <2>1, <2>2
<1>3. ASSUME NEW t \in Gone' PROVE Answered(t)'
  <2>1. CASE t \in Gone
    BY <2>1, AnsweredStep, GoneTyped DEF RowKnows
  <2>2. ASSUME NEW d \in Deletions, d.up = t, Destroy(d)
        PROVE  Answered(t)'
    BY <1>0, <2>2, DestroyDoes DEF Answered, Deletions
  <2> QED
    BY <2>1, <2>2, GoneStep
<1>4. Le(InitDoc.updated, doc'.updated)
  BY <1>0, <1>1 DEF RowKnows
<1> QED
  BY <1>2, <1>3, <1>4 DEF RowKnows

Follows == TypeOK /\ TimesOK /\ Owned /\ Ways /\ Sourced /\ RowKnows

LEMMA InitFollows == ASSUME Created, Init PROVE Follows
BY InitTyped, InitTimesOK, InitSourced, InitRowKnows
   DEF Init, Follows, Owned, Ways

LEMMA FollowsStep == ASSUME Created, Follows, [Next]_vars PROVE Follows'
BY TypedStep, TimesStep, OwnedStep, WaysStep, SourcedStep, RowKnowsStep
   DEF Follows

(* At rest all that was processed has been answered.                       *)
LEMMA AllAnswered ==
    ASSUME Created, Follows, Quiet
    PROVE  /\ \A u \in EditTimes : Le(u, doc.updated)
           /\ DeletionTimes \subseteq Gone
<1>1. \A d \in Processed : pc[d] \in {"done", "error"} /\ d \in Deltas
  BY QuietMeans DEF Follows, Processed
<1> QED
  BY <1>1 DEF Follows, RowKnows, EditTimes, DeletionTimes, Gone, Updates, Ahead,
              Created, Edits, Deletions

LEMMA PriorityOK ==
    ASSUME Created, Follows PROVE DeletionsTakePriority
<1> SUFFICES ASSUME Quiet PROVE (doc.destroyed = Null) <=> EditedLast
  BY DEF DeletionsTakePriority
<1>0. /\ doc \in DocRow /\ doc # NoRow /\ doc.updated \in Nat
      /\ EditTimes \subseteq Nat /\ DeletionTimes \subseteq Nat
      /\ doc.destroyed # Null => doc.destroyed \in Nat
  BY TypedFacts, TimesTyped, RowTimesTyped DEF Follows, Sourced
<1>1. ASSUME doc.destroyed = Null PROVE EditedLast
  <2>1. PICK u \in EditTimes : doc.updated <= u
    BY DEF Follows, Sourced, ByEdit
  <2>2. ASSUME NEW t \in DeletionTimes PROVE t < u
    <3>1. Answered(t)
      BY AllAnswered DEF Follows, RowKnows
    <3>2. t < doc.updated
      BY <1>1, <3>1 DEF Answered, Lt, Le
    <3> QED
      BY <1>0, <2>1, <3>2
  <2> QED
    BY <2>2 DEF EditedLast
<1>2. ASSUME EditedLast, doc.destroyed # Null PROVE FALSE
  <2>1. PICK u \in EditTimes : \A t \in DeletionTimes : t < u
    BY <1>2 DEF EditedLast
  <2>2. doc.destroyed < u
    BY <1>2, <2>1 DEF Follows, Sourced
  <2>3. u <= doc.updated
    BY AllAnswered DEF Le
  <2>4. doc.updated <= doc.destroyed
    BY <1>0, <1>2, NullIsNoTime DEF Follows, TimesOK, TimesAgree
  <2> QED
    BY <1>0, <1>2, <2>2, <2>3, <2>4
<1> QED
  BY <1>1, <1>2

(* "Use < for destroyed_at so that deletions take priority"                *)
(* (doc-recs.js:149-151): whatever edits and deletions are processed, in   *)
(* any order and any number of them at once, a document that had been      *)
(* updated comes to rest live exactly when its last edit is strictly later *)
(* than its last deletion.                                                 *)
THEOREM DeletionsWin == Created /\ Spec => []DeletionsTakePriority
<1>1. Created /\ Init => Follows
  BY InitFollows
<1>2. Created /\ Follows /\ [Next]_vars => Follows'
  BY FollowsStep
<1>3. Created /\ Follows => DeletionsTakePriority
  BY PriorityOK
<1>4. CASE Created
  <2>1. Init => Follows
    BY <1>1, <1>4
  <2>2. Follows /\ [Next]_vars => Follows'
    BY <1>2, <1>4
  <2>3. Follows => DeletionsTakePriority
    BY <1>3, <1>4
  <2> QED
    BY <2>1, <2>2, <2>3, PTL DEF Spec
<1> QED
  BY <1>4

-----------------------------------------------------------------------------
(* An attribute is given a time when its row has it, or a chain that will  *)
(* record it with that time, or a later one, has been started.             *)
Had == {n \in Names : InitRows[n] # NoRow}
Given(n, t) == \/ rows[n] # NoRow /\ rows[n].up >= t
               \/ \E r \in restores : r.name = n /\ r.up >= t /\ r.pc = "attr"

LEMMA GivenStep ==
    ASSUME TypeOK, [Next]_vars, NEW n \in Names, NEW t \in Nat, Given(n, t)
    PROVE  Given(n, t)'
<1>0. /\ RowsGrow /\ TypeOK' /\ n \in Columns /\ restores \subseteq RestoreRow
      /\ \A r \in RestoreRow : r.up \in Nat /\ r.name \in Names
  BY RowsGrowStep, TypedStep, TypedFacts DEF RestoreRow
<1>1. CASE rows[n] # NoRow /\ rows[n].up >= t
  <2>1. NotOlder(rows'[n], rows[n].up, rows[n].seq) /\ rows[n].up \in Nat
    BY <1>0, <1>1, TypedFacts DEF RowsGrow
  <2>2. rows'[n] # NoRow => rows'[n].up \in Nat
    BY <1>0 DEF TypeOK, AttrRow
  <2>3. rows'[n] # NoRow /\ rows'[n].up >= t
    BY <1>1, <2>1, <2>2 DEF NotOlder
  <2> QED
    BY <2>3 DEF Given
<1>2. ASSUME NEW r \in restores, r.name = n, r.up >= t, r.pc = "attr"
      PROVE  Given(n, t)'
  <2>1. CASE r \in restores'
    BY <1>2, <2>1 DEF Given
  <2>2. CASE r \notin restores'
    <3>1. RestoreAttr(r)
      <4>1. ASSUME NEW s \in restores, StepRestore(s) PROVE s = r
        BY <2>2, <4>1 DEF StepRestore, RestoreAttr, RestoreDoc1, RestoreDoc2,
                          Advance
      <4>2. ~(RestoreDoc1(r) \/ RestoreDoc2(r))
        BY <1>2 DEF RestoreDoc1, RestoreDoc2
      <4>3. ASSUME NEW d \in Deltas, StepDelta(d) PROVE r \in restores'
        BY <4>3 DEF StepDelta, GetOrCreateDoc, CreateAttr, UpdateDoc1,
           UpdateDoc2, RestoreIfDestroyedBefore, Destroy,
           RestoreIfChangeSince, NoChangeSince, Restore, RestoreFails,
           RestoreDone
      <4> QED
        BY <2>2, <4>1, <4>2, <4>3 DEF Next, vars, StepRestore
    <3>2. /\ rows' = [rows EXCEPT ![n] = Put(@, Restored(r))]
          /\ Restored(r) \in AttrRow /\ Restored(r).up = r.up /\ r.up \in Nat
      BY <1>0, <1>2, <3>1, RestoredTyped DEF RestoreAttr
    <3>3. NotOlder(rows'[n], r.up, Restored(r).seq)
      BY <1>0, <3>2, RecordDoes
    <3>4. rows'[n] # NoRow => rows'[n].up \in Nat
      BY <1>0 DEF TypeOK, AttrRow
    <3>5. rows'[n] # NoRow /\ rows'[n].up >= t
      BY <1>2, <3>2, <3>3, <3>4 DEF NotOlder
    <3> QED
      BY <3>5 DEF Given
  <2> QED
    BY <2>1, <2>2
<1> QED
  BY <1>1, <1>2 DEF Given

(* A restore is about the attributes up to its time; the others are later. *)
LEMMA RestoreGives ==
    ASSUME TypeOK, NEW d \in Deltas, Restore(d), NEW n \in Names,
           rows[n] # NoRow, NEW u, u = at[d]
    PROVE  u \in Nat /\ Given(n, u)'
           /\ \A t \in Nat : t < u => Given(n, t + 1)'
<1>0. u \in Nat /\ rows[n].up \in Nat /\ rows' = rows
  BY TypedFacts DEF Restore, Time
<1>1. CASE rows[n].up <= u
  <2> DEFINE r == [owner |-> d, name |-> n, val |-> rows[n].val,
                   up |-> u, pc |-> "attr"]
  <2>1. r \in restores'
    BY <1>1 DEF Restore, RowsUpTo
  <2>2. r.name = n /\ r.up = u /\ r.pc = "attr"
    OBVIOUS
  <2> HIDE DEF r
  <2>3. Given(n, u)'
    BY <1>0, <2>1, <2>2 DEF Given
  <2>4. ASSUME NEW t \in Nat, t < u PROVE Given(n, t + 1)'
    <3>1. u >= t + 1
      BY <1>0, <2>4
    <3> QED
      BY <2>1, <2>2, <3>1 DEF Given
  <2> QED
    BY <1>0, <2>3, <2>4
<1>2. CASE rows[n].up > u
  BY <1>0, <1>2 DEF Given
<1> QED
  BY <1>0, <1>1, <1>2

Spread == /\ \A n \in Had : rows[n] # NoRow
          /\ \A r \in restores, n \in Had : Given(n, r.up)

LEMMA SpreadStep == ASSUME TypeOK, Spread, [Next]_vars PROVE Spread'
<1>0. /\ restores \subseteq RestoreRow /\ \A r \in RestoreRow : r.up \in Nat
      /\ \A n \in Had : n \in Names /\ n \in Columns
  BY TypedFacts DEF RestoreRow, Had
<1>1. \A n \in Had : rows'[n] # NoRow
  BY <1>0, RowsGrowStep DEF Spread, RowsGrow, NotOlder
<1>2. ASSUME NEW s \in restores', NEW n \in Had PROVE Given(n, s.up)'
  <2>1. ASSUME NEW r \in restores, s.up = r.up PROVE Given(n, s.up)'
    <3>1. Given(n, r.up) /\ r.up \in Nat
      BY <1>0 DEF Spread
    <3> QED
      BY <1>0, <2>1, <3>1, GivenStep
  <2>2. ASSUME NEW d \in Deltas, Restore(d) PROVE Given(n, s.up)'
    <3>1. s \in restores \/ s.up = at[d]
      BY <2>2 DEF Restore
    <3>2. rows[n] # NoRow
      BY DEF Spread
    <3> QED
      BY <1>0, <2>1, <2>2, <3>1, <3>2, RestoreGives
  <2>3. ASSUME NEW r \in restores, StepRestore(r) PROVE Given(n, s.up)'
    <3>1. \A to : [r EXCEPT !.pc = to].up = r.up
      BY <1>0 DEF RestoreRow
    <3>2. s \in restores \/ s.up = r.up
      BY <2>3, <3>1 DEF StepRestore, RestoreAttr, RestoreDoc1, RestoreDoc2,
                        Advance
    <3> QED
      BY <2>1, <3>2
  <2>4. CASE restores' = restores
    BY <2>1, <2>4
  <2>5. ASSUME NEW d \in Deltas, StepDelta(d)
        PROVE  restores' = restores \/ Restore(d)
    BY <2>5 DEF StepDelta, GetOrCreateDoc, CreateAttr, UpdateDoc1,
     UpdateDoc2, RestoreIfDestroyedBefore, Destroy, RestoreIfChangeSince,
     NoChangeSince, RestoreFails, RestoreDone
  <2> QED
    BY <2>2, <2>3, <2>4, <2>5 DEF Next, vars
<1> QED
  BY <1>1, <1>2 DEF Spread

(* Once the deletion at t has been tried, either the attribute is given a  *)
(* later time, or the document is still destroyed, or somebody is on the   *)
(* way to restore it: an edit that will find the deletion, a restore about *)
(* to read the attributes, a deletion that will find a later change.       *)
Finding(e, t) == /\ pc[e] \in {"touch", "check"} /\ e.up > t
                 /\ Lt(doc.last, e.up)
Reading(d, t) == pc[d] = "read" /\ at[d] > t
Asking(d, t) == pc[d] = "since" /\ d.up >= t /\ Held(d.up + 1)
Safe(n, t) == \/ Given(n, t + 1)
              \/ Le(t, doc.destroyed)
              \/ \E d \in Deltas : Finding(d, t) \/ Reading(d, t) \/ Asking(d, t)

LEMMA FindingStep ==
    ASSUME Created, Follows, Spread, [Next]_vars,
           NEW n \in Had, NEW t \in Nat, NEW e \in Deltas, Finding(e, t)
    PROVE  Safe(n, t)'
<1>0. /\ TypeOK /\ doc \in DocRow /\ doc # NoRow /\ e.up \in Nat
      /\ \A d \in Deltas : d.up \in Nat
      /\ pc \in [Deltas -> Places] /\ at \in [Deltas -> Time]
      /\ Updating \subseteq Nat /\ Touching \subseteq Nat
  BY TypedFacts, DeltaTyped, PendingTyped DEF Follows, Sourced, Pending
<1>1. CASE pc'[e] = "read"
  <2>1. StepDelta(e) /\ pc[e] = "check"
    BY <1>0, <1>1, OwnStep, StepFrom DEF Finding
  <2>2. at'[e] = e.up
    BY <1>0, <2>1, StepFrom DEF RestoreIfDestroyedBefore, Finding
  <2> QED
    BY <1>1, <2>2 DEF Finding, Reading, Safe
<1>2. CASE pc'[e] # "read"
  <2>1. pc'[e] \in {"touch", "check"}
    <3>1. CASE StepDelta(e) /\ pc[e] = "check"
      BY <1>0, <1>2, <3>1, StepFrom DEF RestoreIfDestroyedBefore, Finding, Go
    <3>2. CASE StepDelta(e) /\ pc[e] = "touch"
      BY <1>0, <3>2, StepFrom
    <3> QED
      BY <1>0, <3>1, <3>2, OwnStep DEF Finding
  <2>2. CASE doc'.last = doc.last
    BY <2>1, <2>2 DEF Finding, Safe
  <2>3. CASE Destroys
    <3>1. PICK d \in Deltas : doc' = Destroyed(doc, d.up)
      BY <2>3 DEF Destroys
    <3>2. doc'.destroyed = d.up /\ doc'.last = d.up
      BY <1>0, <3>1, DestroyedIs
    <3>3. Lt(doc'.last, e.up) \/ Le(t, doc'.destroyed)
      BY <1>0, <3>2, NullIsNoTime DEF Finding, Lt, Le
    <3> QED
      BY <2>1, <3>3 DEF Finding, Safe
  <2>4. CASE Undeletes
    BY <1>0, <2>2, <2>4, UndeleteDoes DEF Undeletes
  <2>5. CASE Touches
    BY <1>0, <2>2, <2>5, TouchDoes DEF Touches
  <2> QED
    BY <1>0, <2>2, <2>3, <2>4, <2>5, Kinds DEF Creates, Records, Stays
<1> QED
  BY <1>1, <1>2

LEMMA ReadingStep ==
    ASSUME TypeOK, Spread, [Next]_vars,
           NEW n \in Had, NEW t \in Nat, NEW d \in Deltas, Reading(d, t)
    PROVE  Safe(n, t)'
<1>0. /\ n \in Names /\ rows[n] # NoRow /\ rows[n].up \in Nat
      /\ at[d] \in Nat
  BY TypedFacts DEF Had, Spread, Reading, Time
<1>1. CASE pc'[d] = pc[d] /\ at'[d] = at[d]
  BY <1>1 DEF Reading, Safe
<1>2. CASE Restore(d)
  BY <1>0, <1>2, RestoreGives DEF Reading, Safe
<1>3. CASE RestoreFails(d)
  <2>1. rows' = rows /\ ~(rows[n].up <= at[d])
    BY <1>0, <1>3 DEF RestoreFails, RowsUpTo
  <2>2. rows[n].up >= t + 1
    BY <1>0, <2>1 DEF Reading
  <2> QED
    BY <1>0, <2>1, <2>2 DEF Given, Safe
<1> QED
  BY <1>1, <1>2, <1>3, OwnStep, StepFrom DEF Reading

LEMMA AskingStep ==
    ASSUME TypeOK, [Next]_vars,
           NEW n \in Had, NEW t \in Nat, NEW d \in Deltas, Asking(d, t)
    PROVE  Safe(n, t)'
<1>0. /\ d.up \in Nat /\ at \in [Deltas -> Time]
      /\ \A m \in Names : rows[m] # NoRow => rows[m].up \in Nat
  BY TypedFacts, DeltaTyped
<1>1. CASE pc'[d] = pc[d]
  <2>1. Held(d.up + 1)'
    BY <1>0, HeldStays, RowsGrowStep, TypedStep DEF Asking
  <2> QED
    BY <1>1, <2>1 DEF Asking, Safe
<1>2. CASE RestoreIfChangeSince(d) /\ pc'[d] = "read"
  <2>1. PICK m \in RowsSince(d.up) : at' = [at EXCEPT ![d] = rows[m].up]
    BY <1>2 DEF RestoreIfChangeSince
  <2>2. at'[d] > t
    BY <1>0, <2>1 DEF RowsSince, Asking
  <2> QED
    BY <1>2, <2>2 DEF Reading, Safe
<1>3. CASE NoChangeSince(d)
  BY <1>0, <1>3 DEF NoChangeSince, RowsSince, Asking, Held
<1> QED
  BY <1>1, <1>2, <1>3, OwnStep, StepFrom DEF Asking

(* A destroyed document that is undeleted leaves an edit that will find    *)
(* the deletion, or restored attributes, and then all were given the time. *)
LEMMA DestroyedStep ==
    ASSUME Created, Follows, Spread, [Next]_vars,
           NEW n \in Had, NEW t \in Nat, Le(t, doc.destroyed)
    PROVE  Safe(n, t)'
<1>0. /\ TypeOK /\ doc \in DocRow /\ doc # NoRow
      /\ \A d \in Deltas : d.up \in Nat
      /\ \A r \in restores : r.up \in Nat
      /\ doc.destroyed # Null /\ doc.destroyed \in Nat
      /\ pc \in [Deltas -> Places] /\ n \in Names
      /\ Touching \subseteq Nat
  BY TypedFacts, DeltaTyped, RowTimesTyped, RestoredTyped, PendingTyped
     DEF Follows, Sourced, Le, Had, Pending
<1>1. CASE doc'.destroyed = doc.destroyed
  BY <1>1 DEF Safe
<1>2. ASSUME NEW d \in Deltas, UpdateDoc1(d) PROVE Safe(n, t)'
  <2>1. /\ doc' = Undelete(doc, d.up) /\ pc'[d] = "touch"
    BY <1>0, <1>2 DEF UpdateDoc1, Go
  <2>2. CASE doc' = doc
    BY <1>1, <2>2
  <2>3. CASE doc'.last = doc.last /\ doc.destroyed < d.up
    <3>1. doc.last = doc.destroyed
      BY <1>0 DEF Follows, TimesOK, TimesAgree
    <3>2. Lt(doc'.last, d.up) /\ d.up > t
      BY <1>0, <2>3, <3>1, NullIsNoTime DEF Lt, Le
    <3> QED
      BY <2>1, <3>2 DEF Finding, Safe
  <2> QED
    BY <1>0, <2>1, <2>2, <2>3, UndeleteDoes
<1>3. ASSUME NEW r \in restores, RestoreDoc1(r) PROVE Safe(n, t)'
  <2>1. doc' = Undelete(doc, r.up)
    BY <1>3 DEF RestoreDoc1
  <2>2. CASE doc' = doc
    BY <1>1, <2>2
  <2>3. CASE doc.destroyed < r.up
    <3>1. t + 1 <= r.up
      BY <1>0, <2>3 DEF Le
    <3>2. Given(n, r.up)'
      BY <1>0, GivenStep DEF Spread
    <3>3. Given(n, t + 1)'
      <4>1. rows'[n] # NoRow => rows'[n].up \in Nat
        BY <1>0, TypedStep DEF TypeOK, AttrRow, Columns
      <4>2. \A s \in restores' : s.up \in Nat
        BY <1>0, TypedStep DEF TypeOK
      <4> QED
        BY <1>0, <3>1, <3>2, <4>1, <4>2 DEF Given
    <3> QED
      BY <3>3 DEF Safe
  <2> QED
    BY <1>0, <2>1, <2>2, <2>3, UndeleteDoes
<1>4. ASSUME NEW d \in Deltas, Destroy(d) PROVE Safe(n, t)'
  <2>1. CASE doc' = doc
    BY <1>1, <2>1
  <2>2. CASE Destroyable(doc, d.up) /\ doc' = Destroyed(doc, d.up)
    <3>1. doc'.destroyed = d.up
      BY <1>0, <2>2, DestroyedIs
    <3>2. doc.destroyed <= d.up /\ d.up \in Nat /\ t <= doc.destroyed
      BY <1>0, <2>2 DEF Destroyable, Le
    <3>3. Le(t, doc'.destroyed)
      BY <1>0, <3>1, <3>2, NullIsNoTime DEF Le
    <3> QED
      BY <3>3 DEF Safe
  <2> QED
    BY <1>4, <2>1, <2>2 DEF Destroy, Destroyed
<1>5. ASSUME NEW d \in Deltas, UpdateDoc2(d) PROVE Safe(n, t)'
  BY <1>0, <1>1, <1>5, TouchDoes DEF UpdateDoc2
<1>6. ASSUME NEW r \in restores, RestoreDoc2(r) PROVE Safe(n, t)'
  BY <1>0, <1>1, <1>6, TouchDoes DEF RestoreDoc2
<1>7. CASE doc' = doc
  BY <1>1, <1>7
<1>8. ASSUME NEW d \in Deltas, StepDelta(d)
      PROVE  UpdateDoc1(d) \/ UpdateDoc2(d) \/ Destroy(d) \/ doc' = doc
  BY <1>0, <1>8 DEF StepDelta, GetOrCreateDoc, CreateAttr,
     RestoreIfDestroyedBefore, RestoreIfChangeSince, NoChangeSince, Restore,
     RestoreFails, RestoreDone
<1>9. ASSUME NEW r \in restores, StepRestore(r)
      PROVE  RestoreDoc1(r) \/ RestoreDoc2(r) \/ doc' = doc
  BY <1>9 DEF StepRestore, RestoreAttr
<1> QED
  BY <1>2, <1>3, <1>4, <1>5, <1>6, <1>7, <1>8, <1>9 DEF Next, vars

LEMMA SafeStep ==
    ASSUME Created, Follows, Spread, [Next]_vars,
           NEW n \in Had, NEW t \in Nat, Safe(n, t)
    PROVE  Safe(n, t)'
<1>0. TypeOK /\ n \in Names
  BY DEF Follows, Had
<1>1. CASE Given(n, t + 1)
  BY <1>0, <1>1, GivenStep DEF Safe
<1>2. CASE Le(t, doc.destroyed)
  BY <1>2, DestroyedStep
<1>3. CASE \E d \in Deltas : Finding(d, t) \/ Reading(d, t) \/ Asking(d, t)
  BY <1>0, <1>3, FindingStep, ReadingStep, AskingStep
<1> QED
  BY <1>1, <1>2, <1>3 DEF Safe

(* What the document starts with: after its last deletion, unless it is    *)
(* still deleted, every attribute it has was recorded again.  A change     *)
(* that is older than the last deletion may come later and bring a new     *)
(* attribute, which stays as it is.                                        *)
StartsRestored ==
    InitDoc.last # Null /\ InitDoc.destroyed = Null =>
      \A n \in Had : InitRows[n].up > InitDoc.last
AllSafe == \A n \in Had, t \in Gone : Safe(n, t)

LEMMA InitAllSafe ==
    ASSUME Created, StartsRestored, Init PROVE AllSafe /\ Spread
<1>1. /\ \A n \in Had : rows[n] = InitRows[n] /\ rows[n] # NoRow
      /\ \A n \in Had : rows[n].up \in Nat
      /\ restores = {} /\ doc = InitDoc
      /\ InitDoc.last # Null => InitDoc.last \in Nat
  BY InitTyped, TypedFacts, TimesTyped, RowTimesTyped DEF Init, Had
<1>2. Gone \subseteq {InitDoc.last} \ {Null}
  BY DEF Init, Gone, Ahead, Deletions
<1>3. ASSUME NEW n \in Had, InitDoc.last # Null PROVE Safe(n, InitDoc.last)
  <2>1. CASE InitDoc.destroyed = Null
    <3>1. rows[n].up > InitDoc.last
      BY <1>1, <1>3, <2>1 DEF StartsRestored
    <3>2. rows[n].up >= InitDoc.last + 1
      BY <1>1, <1>3, <3>1
    <3> QED
      BY <1>1, <3>2 DEF Given, Safe
  <2>2. CASE InitDoc.destroyed # Null
    <3>1. InitDoc.destroyed = InitDoc.last
      BY <1>3, <2>2, DocLifecycleAssumption DEF AtRest, TimesAgree, Created
    <3> QED
      BY <1>1, <1>3, <3>1 DEF Safe, Le
  <2> QED
    BY <2>1, <2>2
<1> QED
  BY <1>1, <1>2, <1>3 DEF AllSafe, Spread

LEMMA AllSafeStep ==
    ASSUME Created, Follows, RowTimes, Spread, AllSafe, [Next]_vars
    PROVE  AllSafe'
<1> SUFFICES ASSUME NEW n \in Had, NEW t \in Gone' PROVE Safe(n, t)'
  BY DEF AllSafe
<1>1. CASE t \in Gone
  BY <1>1, SafeStep, GoneTyped DEF AllSafe
<1>2. ASSUME NEW d \in Deletions, d.up = t, Destroy(d) PROVE Safe(n, t)'
  <2>0. /\ TypeOK /\ doc.updated # Null /\ d \in Deltas /\ d.up \in Nat
        /\ doc \in DocRow /\ doc # NoRow
    BY TypedFacts, DeltaTyped DEF Follows, Sourced, Deletions
  <2>1. CASE Le(d.up, doc'.destroyed)
    BY <1>2, <2>1 DEF Safe
  <2>2. CASE Lt(d.up, doc.updated) /\ pc'[d] = "since"
    <3>1. Held(doc.updated)
      BY <2>0 DEF RowTimes, UpdatedHeld, Created
    <3>2. PICK m \in Names : rows[m] # NoRow /\ rows[m].up >= doc.updated
      BY <3>1 DEF Held
    <3>3. rows' = rows /\ rows[m].up \in Nat /\ doc.updated \in Nat
      BY <1>2, <2>0, <3>2, TypedFacts, RowTimesTyped DEF Destroy
    <3>4. rows'[m].up >= d.up + 1
      BY <2>0, <2>2, <3>2, <3>3 DEF Lt
    <3>5. Held(d.up + 1)'
      BY <3>2, <3>3, <3>4 DEF Held
    <3> QED
      BY <1>2, <2>0, <2>2, <3>5 DEF Asking, Safe
  <2> QED
    BY <1>2, <2>0, <2>1, <2>2, DestroyDoes
<1> QED
  BY <1>1, <1>2, GoneStep DEF Follows

LEMMA RestoredOK ==
    ASSUME Created, Follows, Spread, AllSafe PROVE AutoRestored
<1> SUFFICES ASSUME Quiet, EditedLast, NEW n \in Names, InitRows[n] # NoRow,
                    NEW t \in DeletionTimes
             PROVE  rows[n].up > t
  BY DEF AutoRestored
<1>1. doc.destroyed = Null
  BY PriorityOK DEF DeletionsTakePriority
<1>2. Safe(n, t)
  BY AllAnswered DEF AllSafe, Had
<1>3. /\ \A d \in Deltas : pc[d] \in {"queued", "done", "error"}
      /\ restores = {} /\ t \in Nat /\ ~Le(t, doc.destroyed)
  BY <1>1, QuietMeans, TimesTyped DEF Follows, Le
<1>4. rows[n] # NoRow /\ rows[n].up >= t + 1
  BY <1>2, <1>3 DEF Safe, Given, Finding, Reading, Asking
<1> QED
  BY <1>3, <1>4, TypedFacts DEF Follows

(* "Auto restore" (NOTES.md, Restore; attr.js:123-140, docs.js:24-66): a   *)
(* document whose last edit is later than its last deletion comes to rest  *)
(* with every attribute it had recorded later than all deletions, whether  *)
(* the edit finds the deletion or the deletion finds the edit, and though  *)
(* the statements of both run in between each other.                       *)
THEOREM AllRestored ==
    Created /\ StartsRestored /\ Spec => []AutoRestored
<1> DEFINE IInv == Follows /\ RowTimes /\ Spread /\ AllSafe
<1>1. Created /\ StartsRestored /\ Init => IInv
  BY InitFollows, InitRowTimes, InitAllSafe
<1>2. Created /\ IInv /\ [Next]_vars => IInv'
  BY FollowsStep, RowTimesStep, SpreadStep, AllSafeStep DEF Follows
<1>3. Created /\ IInv => AutoRestored
  BY RestoredOK
<1>4. CASE Created /\ StartsRestored
  <2>1. Init => IInv
    BY <1>1, <1>4
  <2>2. IInv /\ [Next]_vars => IInv'
    BY <1>2, <1>4
  <2>3. IInv => AutoRestored
    BY <1>3, <1>4
  <2> QED
    BY <2>1, <2>2, <2>3, PTL DEF Spec
<1> QED
  BY <1>4

=============================================================================
