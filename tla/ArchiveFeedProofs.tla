-------------------------- MODULE ArchiveFeedProofs ---------------------------
(***************************************************************************)
(* Machine-checked theorems about ArchiveFeed, for any deltas of a         *)
(* document and any number of milliseconds, archives and resends.          *)
(***************************************************************************)
EXTENDS ArchiveFeed, TLAPS

(* The types of the tables ...                                             *)
DbTyped ==
    /\ all \in [Deltas -> Times \cup {Null}]
    /\ ids \in Nat
    /\ recent \subseteq [delta : Deltas, doc : 1..ids, re : 1..now]
    /\ doc # Null => /\ doc \in DocRow /\ doc.re \in 1..now
                     /\ doc.id = ids /\ ids # 0

(* ... of the clock and the archive ...                                    *)
TimesTyped ==
    /\ now \in 1..MaxTime
    /\ archived \in Nat /\ cut \in Nat /\ archived <= cut /\ cut <= now
    /\ archive \in [pc : {"idle", "docs", "set"}, before : Nat]
    /\ archive.before <= cut
    /\ archives \in 0..Archives /\ resends \in 0..Resends

(* ... and of what is being processed.                                     *)
JobsTyped ==
    /\ todo \in [Deltas -> SUBSET {"get", "all", "attr", "doc"}]
    /\ docId \in [Deltas -> 0..ids]
    /\ begun \in [Deltas -> (1..now) \cup {Null}]
    /\ times \in [Deltas -> Nat]
    /\ refreshed \subseteq Deltas
    /\ \A d \in Deltas :
         /\ begun[d] # Null => docId[d] # 0
         /\ "attr" \in todo[d] => "doc" \in todo[d]
         /\ todo[d] \cap {"all", "attr", "doc"} # {} => begun[d] # Null

Typed == DbTyped /\ TimesTyped /\ JobsTyped

LEMMA TypedOK == ASSUME Typed PROVE TypeOK
<1>1. \A d \in Deltas : docId[d] \in 0..ids
                        /\ (begun[d] # Null => docId[d] \in 1..ids)
  BY DEF Typed, JobsTyped, DbTyped
<1>2. doc # Null => doc.id \in 1..ids
  BY DEF Typed, DbTyped
<1>3. archive.pc \in {"idle", "docs", "set"} /\ archive.before \in 0..cut
  BY DEF Typed, TimesTyped
<1> QED
  BY <1>1, <1>2, <1>3
     DEF Typed, DbTyped, TimesTyped, JobsTyped, TypeOK, DocRow

LEMMA InitTyped == ASSUME Init PROVE Typed
BY ArchiveFeedAssumption
   DEF Init, Typed, DbTyped, TimesTyped, JobsTyped, Idle, Times

LEMMA DeltaTyped ==
    ASSUME NEW d \in Deltas
    PROVE  d.up \in Nat /\ d.del \in BOOLEAN
BY ArchiveFeedAssumption

LEMMA NewDocTyped ==
    ASSUME Typed, NEW d \in Deltas
    PROVE  /\ NewDoc(d) \in DocRow /\ NewDoc(d) # Null
           /\ NewDoc(d).re = now /\ NewDoc(d).id = ids + 1
BY DeltaTyped, ArchiveFeedAssumption
   DEF NewDoc, DocRow, Typed, DbTyped, TimesTyped

LEMMA RowsTyped ==
    ASSUME Typed, NEW d \in Deltas
    PROVE  doc # Null => /\ Updated(doc, d) \in DocRow
                         /\ [doc EXCEPT !.updated = d.up] \in DocRow
                         /\ [doc EXCEPT !.destroyed = d.up] \in DocRow
<1>1. now \in Nat
  BY ArchiveFeedAssumption DEF Typed, TimesTyped
<1>2. doc # Null => doc \in DocRow
  BY DEF Typed, DbTyped
<1> QED
  BY <1>1, <1>2, DeltaTyped DEF DocRow, Updated

(* What a step does to the clock and to archive().                         *)
LEMMA TimesStep == ASSUME Typed, [Next]_vars PROVE TimesTyped'
<1> USE ArchiveFeedAssumption DEF Typed, TimesTyped, dbVars, archiveVars, Idle
<1>1. CASE Tick
  BY <1>1 DEF Tick
<1>2. ASSUME NEW d \in Deltas, ProcessStep(d) PROVE TimesTyped'
  BY <1>2 DEF ProcessStep, GetDoc, RecordAll, RecordRecent, UpdateDoc,
              DestroyDoc
<1>3. ASSUME NEW d \in Deltas, Resend(d) PROVE TimesTyped'
  BY <1>3 DEF Resend
<1>4. ASSUME NEW before \in 1..MaxTime, ArchiveAttrs(before)
      PROVE  TimesTyped'
  BY <1>4 DEF ArchiveAttrs
<1>5. CASE ArchiveDocs
  BY <1>5 DEF ArchiveDocs
<1>6. CASE SetArchived
  BY <1>6 DEF SetArchived
<1>7. CASE ArchiveDies
  BY <1>7 DEF ArchiveDies
<1>8. CASE UNCHANGED vars
  BY <1>8 DEF vars
<1> QED
  BY <1>1, <1>2, <1>3, <1>4, <1>5, <1>6, <1>7, <1>8 DEF Next

(* Times and ids only grow: what has been recorded stays well formed.      *)
LEMMA RowsStay ==
    ASSUME Typed, now' \in Nat, now <= now', ids' \in Nat, ids <= ids'
    PROVE  /\ recent \subseteq [delta : Deltas, doc : 1..ids', re : 1..now']
           /\ doc # Null => doc \in DocRow /\ doc.re \in 1..now'
           /\ docId \in [Deltas -> 0..ids']
           /\ begun \in [Deltas -> (1..now') \cup {Null}]
<1>1. now \in Nat /\ ids \in Nat
  BY ArchiveFeedAssumption DEF Typed, TimesTyped, DbTyped
<1>2. 1..ids \subseteq 1..ids' /\ 0..ids \subseteq 0..ids'
      /\ 1..now \subseteq 1..now'
  BY <1>1
<1> QED
  BY <1>2 DEF Typed, DbTyped, JobsTyped

LEMMA DbStep == ASSUME Typed, [Next]_vars PROVE DbTyped'
<1> USE ArchiveFeedAssumption
<1>0. now \in Nat /\ ids \in Nat /\ now >= 1 /\ now <= MaxTime
  BY DEF Typed, TimesTyped, DbTyped
<1>1. CASE Tick
  BY <1>0, <1>1, RowsStay DEF Tick, Typed, DbTyped, dbVars
<1>2. ASSUME NEW d \in Deltas, GetDoc(d) PROVE DbTyped'
  <2>1. NewDoc(d) \in DocRow /\ NewDoc(d).re = now /\ NewDoc(d).id = ids + 1
    BY <1>0, DeltaTyped DEF NewDoc, DocRow
  <2>2. now \in 1..now /\ 1..now \subseteq 1..now
    BY <1>0
  <2>3. CASE doc = Null
    <3>1. doc' = NewDoc(d) /\ ids' = ids + 1 /\ now' = now
          /\ all' = all /\ recent' = recent
      BY <1>2, <2>3 DEF GetDoc
    <3> QED
      BY <1>0, <2>1, <2>2, <3>1, RowsStay DEF Typed, DbTyped
  <2>4. CASE doc # Null
    BY <1>2, <2>4 DEF GetDoc, Typed, DbTyped
  <2> QED
    BY <2>3, <2>4
<1>3. ASSUME NEW d \in Deltas, RecordAll(d) PROVE DbTyped'
  BY <1>0, <1>3 DEF RecordAll, Typed, DbTyped, Times
<1>4. ASSUME NEW d \in Deltas, RecordRecent(d) PROVE DbTyped'
  <2>1. docId[d] \in 1..ids
    BY <1>0, <1>4 DEF RecordRecent, Typed, JobsTyped
  <2>2. [delta |-> d, doc |-> docId[d], re |-> now]
          \in [delta : Deltas, doc : 1..ids, re : 1..now]
    BY <1>0, <2>1
  <2> QED
    BY <1>4, <2>2 DEF RecordRecent, Typed, DbTyped
<1>5. ASSUME NEW d \in Deltas, UpdateDoc(d) PROVE DbTyped'
  <2>1. doc # Null => /\ Updated(doc, d) \in DocRow
                      /\ Updated(doc, d).re = now /\ Updated(doc, d).id = ids
                      /\ [doc EXCEPT !.updated = d.up] \in DocRow
                      /\ [doc EXCEPT !.updated = d.up].re = doc.re
                      /\ [doc EXCEPT !.updated = d.up].id = ids
    BY <1>0, DeltaTyped DEF Typed, DbTyped, DocRow, Updated
  <2>2. doc' \in {doc, Updated(doc, d), [doc EXCEPT !.updated = d.up]}
        /\ (doc = Null => doc' = doc)
    BY <1>5 DEF UpdateDoc
  <2>3. doc' # Null => /\ doc' \in DocRow /\ doc'.re \in 1..now
                       /\ doc'.id = ids /\ ids # 0
    <3>1. now \in 1..now
      BY <1>0
    <3>2. doc # Null => doc \in DocRow /\ doc.re \in 1..now
                        /\ doc.id = ids /\ ids # 0
      BY DEF Typed, DbTyped
    <3>3. CASE doc = Null
      BY <2>2, <3>3
    <3>4. CASE doc' = doc
      BY <3>2, <3>4
    <3>5. CASE doc # Null /\ doc' = Updated(doc, d)
      BY <2>1, <3>1, <3>2, <3>5
    <3>6. CASE doc # Null /\ doc' = [doc EXCEPT !.updated = d.up]
      BY <2>1, <3>2, <3>6
    <3> QED
      BY <2>2, <3>3, <3>4, <3>5, <3>6
  <2> QED
    BY <1>5, <2>3 DEF UpdateDoc, Typed, DbTyped
<1>6. ASSUME NEW d \in Deltas, DestroyDoc(d) PROVE DbTyped'
  <2>1. doc # Null => /\ [doc EXCEPT !.destroyed = d.up] \in DocRow
                      /\ [doc EXCEPT !.destroyed = d.up].re = doc.re
                      /\ [doc EXCEPT !.destroyed = d.up].id = ids
    BY DeltaTyped DEF Typed, DbTyped, DocRow
  <2>2. doc' \in {doc, [doc EXCEPT !.destroyed = d.up]}
        /\ (doc = Null => doc' = doc)
    BY <1>6 DEF DestroyDoc
  <2>3. doc' # Null => /\ doc' \in DocRow /\ doc'.re \in 1..now
                       /\ doc'.id = ids /\ ids # 0
    BY <2>1, <2>2 DEF Typed, DbTyped
  <2> QED
    BY <1>6, <2>3 DEF DestroyDoc, Typed, DbTyped
<1>7. ASSUME NEW d \in Deltas, Resend(d) PROVE DbTyped'
  BY <1>7 DEF Resend, dbVars, Typed, DbTyped
<1>8. ASSUME NEW before, ArchiveAttrs(before) PROVE DbTyped'
  BY <1>8 DEF ArchiveAttrs, Typed, DbTyped
<1>9. CASE ArchiveDocs \/ SetArchived \/ ArchiveDies
  BY <1>9 DEF ArchiveDocs, SetArchived, ArchiveDies, dbVars, Typed, DbTyped
<1>10. CASE UNCHANGED vars
  BY <1>10 DEF vars, dbVars, Typed, DbTyped
<1> QED
  BY <1>1, <1>2, <1>3, <1>4, <1>5, <1>6, <1>7, <1>8, <1>9, <1>10
     DEF Next, ProcessStep

LEMMA JobsStep == ASSUME Typed, [Next]_vars PROVE JobsTyped'
<1> USE ArchiveFeedAssumption
<1>0. now \in Nat /\ ids \in Nat /\ now >= 1 /\ Null \notin 1..now
  BY DEF Typed, TimesTyped, DbTyped
<1>1. CASE Tick
  BY <1>0, <1>1, RowsStay DEF Tick, Typed, JobsTyped, dbVars, jobVars
<1>2. ASSUME NEW d \in Deltas, GetDoc(d) PROVE JobsTyped'
  <2>1. /\ doc'.id = ids' /\ ids' \in Nat \ {0} /\ ids <= ids'
    BY <1>0, <1>2 DEF GetDoc, NewDoc, Typed, DbTyped
  <2>2. /\ docId' = [docId EXCEPT ![d] = ids']
        /\ todo' = [todo EXCEPT ![d] = {"all", "attr", "doc"}]
        /\ begun' = [begun EXCEPT ![d] = IF @ = Null THEN now ELSE @]
        /\ refreshed' \subseteq refreshed \cup {d}
        /\ now' = now /\ times' = times
    BY <1>2, <2>1 DEF GetDoc
  <2>3. docId \in [Deltas -> 0..ids'] /\ ids' \in 0..ids'
    BY <1>0, <2>1, <2>2, RowsStay
  <2>4. docId' \in [Deltas -> 0..ids']
    BY <2>2, <2>3
  <2>5. begun' \in [Deltas -> (1..now) \cup {Null}]
    BY <1>0, <2>2 DEF Typed, JobsTyped
  <2>6. todo' \in [Deltas -> SUBSET {"get", "all", "attr", "doc"}]
    BY <2>2 DEF Typed, JobsTyped
  <2>7. ASSUME NEW e \in Deltas
        PROVE  /\ begun'[e] # Null => docId'[e] # 0
               /\ "attr" \in todo'[e] => "doc" \in todo'[e]
               /\ todo'[e] \cap {"all", "attr", "doc"} # {} => begun'[e] # Null
    <3>1. CASE e = d
      BY <1>0, <2>1, <2>2, <3>1 DEF Typed, JobsTyped
    <3>2. CASE e # d
      BY <2>2, <3>2 DEF Typed, JobsTyped
    <3> QED
      BY <3>1, <3>2
  <2> QED
    BY <2>2, <2>4, <2>5, <2>6, <2>7 DEF Typed, JobsTyped
<1>3. ASSUME NEW d \in Deltas, NEW what \in {"all", "attr", "doc"},
             Did(d, what), what = "doc" => "attr" \notin todo[d],
             ids' = ids, now' = now, docId' = docId, begun' = begun,
             times' \in [Deltas -> Nat], refreshed' \subseteq Deltas
      PROVE  JobsTyped'
  BY <1>3 DEF Did, Typed, JobsTyped
<1>4. ASSUME NEW d \in Deltas,
             RecordAll(d) \/ RecordRecent(d) \/ UpdateDoc(d) \/ DestroyDoc(d)
      PROVE  JobsTyped'
  <2>1. times' \in [Deltas -> Nat] /\ refreshed' \subseteq Deltas
    BY <1>4 DEF RecordAll, RecordRecent, UpdateDoc, DestroyDoc,
                Typed, JobsTyped
  <2> QED
    BY <1>3, <1>4, <2>1 DEF RecordAll, RecordRecent, UpdateDoc, DestroyDoc
<1>5. ASSUME NEW d \in Deltas, Resend(d) PROVE JobsTyped'
  BY <1>5 DEF Resend, dbVars, Typed, JobsTyped
<1>6. ASSUME NEW before, ArchiveAttrs(before) PROVE JobsTyped'
  BY <1>6 DEF ArchiveAttrs, jobVars, Typed, JobsTyped
<1>7. CASE ArchiveDocs \/ SetArchived \/ ArchiveDies
  BY <1>7 DEF ArchiveDocs, SetArchived, ArchiveDies, dbVars, jobVars,
              Typed, JobsTyped
<1>8. CASE UNCHANGED vars
  BY <1>8 DEF vars, dbVars, jobVars, Typed, JobsTyped
<1> QED
  BY <1>1, <1>2, <1>4, <1>5, <1>6, <1>7, <1>8 DEF Next, ProcessStep

LEMMA TypedStep == ASSUME Typed, [Next]_vars PROVE Typed'
BY TimesStep, DbStep, JobsStep DEF Typed

(* The tables and the jobs keep their types (doc-recs.js, attr-recs.js);   *)
(* the stored time is that of an archive, and no archive is ahead of time. *)
THEOREM TypeCorrect == Spec => []TypeOK
BY InitTyped, TypedStep, TypedOK, PTL DEF Spec

-----------------------------------------------------------------------------
(* An archive removes, at most, the document once and each attribute once; *)
(* and a document's row is created again only after its removal.           *)
Runs == Archives - archives
Gone == IF doc = Null THEN 1 ELSE 0
Going == IF archive.pc = "docs" THEN 1 ELSE 0
Missing(d) == IF InRecent(d) THEN 0 ELSE 1

IdsBound == ids + Gone + Going <= 1 + Runs
TimesBound ==
    \A d \in Deltas :
      /\ docId[d] = 0 => times[d] = 0
      /\ docId[d] # 0 => times[d] + Missing(d) <= docId[d] + Runs
RecordBound == IdsBound /\ TimesBound

LEMMA BoundNumbers ==
    ASSUME Typed
    PROVE  /\ Runs \in Nat /\ Gone \in {0, 1} /\ Going \in {0, 1}
           /\ \A d \in Deltas : Missing(d) \in {0, 1} /\ docId[d] \in Nat
                                /\ times[d] \in Nat /\ docId[d] <= ids
           /\ ids \in Nat /\ archives \in Nat
BY ArchiveFeedAssumption
   DEF Typed, TimesTyped, DbTyped, JobsTyped, Runs, Gone, Going, Missing

LEMMA InitRecordBound == ASSUME Init PROVE RecordBound
BY ArchiveFeedAssumption
   DEF Init, RecordBound, IdsBound, TimesBound, Runs, Gone, Going, Idle

LEMMA IdsBoundStep ==
    ASSUME Typed, RecordBound, [Next]_vars PROVE IdsBound'
<1> USE ArchiveFeedAssumption, BoundNumbers DEF RecordBound, IdsBound
<1>1. CASE Tick \/ UNCHANGED vars
  BY <1>1 DEF Tick, vars, dbVars, archiveVars, Runs, Gone, Going
<1>2. ASSUME NEW d \in Deltas, GetDoc(d) PROVE IdsBound'
  <2>1. doc' # Null
    BY <1>2, NewDocTyped DEF GetDoc
  <2> QED
    BY <1>2, <2>1 DEF GetDoc, archiveVars, Runs, Gone, Going
<1>3. ASSUME NEW d \in Deltas,
             RecordAll(d) \/ RecordRecent(d) \/ DestroyDoc(d) \/ Resend(d)
                          \/ UpdateDoc(d)
      PROVE  IdsBound'
  <2>1. doc # Null => doc' # Null
    <3>1. doc # Null => /\ Updated(doc, d) \in DocRow
                        /\ [doc EXCEPT !.updated = d.up] \in DocRow
                        /\ [doc EXCEPT !.destroyed = d.up] \in DocRow
      BY RowsTyped
    <3>2. doc' \in {doc, Updated(doc, d), [doc EXCEPT !.updated = d.up],
                    [doc EXCEPT !.destroyed = d.up]}
      BY <1>3 DEF RecordAll, RecordRecent, DestroyDoc, Resend, UpdateDoc,
                  dbVars
    <3> QED
      BY <3>1, <3>2
  <2>2. ids' = ids /\ archive' = archive /\ archives' = archives
    BY <1>3 DEF RecordAll, RecordRecent, DestroyDoc, Resend, UpdateDoc,
                dbVars, archiveVars
  <2> QED
    BY <2>1, <2>2 DEF Runs, Gone, Going
<1>4. ASSUME NEW before, ArchiveAttrs(before) PROVE IdsBound'
  BY <1>4 DEF ArchiveAttrs, Runs, Gone, Going
<1>5. CASE ArchiveDocs
  <2>1. archive'.pc = "set"
    BY <1>5 DEF ArchiveDocs, Typed, TimesTyped
  <2> QED
    BY <1>5, <2>1 DEF ArchiveDocs, Runs, Gone, Going
<1>6. CASE SetArchived \/ ArchiveDies
  BY <1>6 DEF SetArchived, ArchiveDies, dbVars, Idle, Runs, Gone, Going
<1> QED
  BY <1>1, <1>2, <1>3, <1>4, <1>5, <1>6 DEF Next, ProcessStep

LEMMA TimesBoundStep ==
    ASSUME Typed, RecordBound, [Next]_vars PROVE TimesBound'
<1> USE ArchiveFeedAssumption, BoundNumbers
<1>1. ASSUME archives' = archives, docId' = docId, times' = times,
             recent \subseteq recent'
      PROVE  TimesBound'
  BY <1>1 DEF RecordBound, TimesBound, Missing, InRecent, Runs
<1>2. CASE Tick \/ UNCHANGED vars
  BY <1>1, <1>2 DEF Tick, vars, dbVars, jobVars, archiveVars
<1>3. ASSUME NEW d \in Deltas, GetDoc(d) PROVE TimesBound'
  <2>1. /\ docId' = [docId EXCEPT ![d] = ids'] /\ ids' \in Nat \ {0}
        /\ ids <= ids' /\ recent' = recent /\ times' = times
        /\ archives' = archives
    <3>1. ids \in Nat /\ (doc # Null => doc.id = ids /\ ids # 0)
      BY DEF Typed, DbTyped
    <3>2. /\ docId' = [docId EXCEPT ![d] = doc'.id]
          /\ IF doc = Null THEN doc' = NewDoc(d) /\ ids' = ids + 1
                           ELSE doc' = doc /\ ids' = ids
          /\ recent' = recent /\ times' = times /\ archives' = archives
      BY <1>3 DEF GetDoc, archiveVars
    <3>3. CASE doc = Null
      <4>1. doc'.id = ids' /\ ids' = ids + 1
        BY <3>2, <3>3, NewDocTyped
      <4> QED
        BY <3>1, <3>2, <4>1
    <3>4. CASE doc # Null
      <4>1. doc' = doc /\ ids' = ids /\ doc'.id = ids' /\ ids' # 0
        BY <3>1, <3>2, <3>4
      <4> QED
        BY <3>1, <3>2, <4>1
    <3> QED
      BY <3>3, <3>4
  <2>2. ASSUME NEW e \in Deltas
        PROVE  /\ docId'[e] = 0 => times'[e] = 0
               /\ docId'[e] # 0 => times'[e] + Missing(e)' <= docId'[e] + Runs'
    <3>1. CASE docId'[e] = docId[e]
      BY <2>1, <3>1 DEF RecordBound, TimesBound, Missing, InRecent, Runs
    <3>2. CASE docId'[e] # docId[e]
      <4>1. docId'[e] = ids' /\ docId[e] < ids'
        <5>1. docId \in [Deltas -> 0..ids] /\ docId[e] <= ids
          BY DEF Typed, JobsTyped
        <5>2. docId[e] \in Nat
          OBVIOUS
        <5>3. docId'[e] = ids'
          BY <2>1, <3>2, <5>1
        <5> QED
          BY <2>1, <3>2, <5>1, <5>2, <5>3
      <4>2. Missing(e)' \in {0, 1} /\ Missing(e) \in {0, 1}
        BY DEF Missing
      <4>3. times[e] <= docId[e] + Runs
        BY <4>2 DEF RecordBound, TimesBound
      <4> QED
        BY <2>1, <4>1, <4>2, <4>3 DEF Runs
    <3> QED
      BY <3>1, <3>2
  <2> QED
    BY <2>2 DEF TimesBound
<1>4. ASSUME NEW d \in Deltas, RecordRecent(d) PROVE TimesBound'
  <2>1. CASE InRecent(d)
    BY <1>1, <1>4, <2>1 DEF RecordRecent, archiveVars
  <2>2. CASE ~InRecent(d)
    <3>1. /\ recent' = recent \cup
                         {[delta |-> d, doc |-> docId[d], re |-> now]}
          /\ times' = [times EXCEPT ![d] = @ + 1]
          /\ docId' = docId /\ archives' = archives
      BY <1>4, <2>2 DEF RecordRecent, archiveVars
    <3>2. InRecent(d)' /\ (\A e \in Deltas : InRecent(e) => InRecent(e)')
      <4>1. ASSUME NEW e \in Deltas, InRecent(e) PROVE InRecent(e)'
        BY <3>1, <4>1 DEF InRecent
      <4> DEFINE row == [delta |-> d, doc |-> docId[d], re |-> now]
      <4>2. row \in recent' /\ row.delta = d /\ row.doc = docId'[d]
        BY <3>1
      <4> HIDE DEF row
      <4>3. InRecent(d)'
        BY <4>2 DEF InRecent
      <4> QED
        BY <4>1, <4>3
    <3>3. docId[d] # 0
      BY <1>4 DEF RecordRecent, Typed, JobsTyped
    <3>4. times \in [Deltas -> Nat]
      BY DEF Typed, JobsTyped
    <3> QED
      BY <2>2, <3>1, <3>2, <3>3, <3>4 DEF RecordBound, TimesBound, Missing, Runs
  <2> QED
    BY <2>1, <2>2
<1>5. ASSUME NEW d \in Deltas,
             RecordAll(d) \/ DestroyDoc(d) \/ Resend(d) \/ UpdateDoc(d)
      PROVE  TimesBound'
  BY <1>1, <1>5 DEF RecordAll, DestroyDoc, Resend, UpdateDoc, dbVars,
                    archiveVars
<1>6. ASSUME NEW before, ArchiveAttrs(before) PROVE TimesBound'
  <2>1. archives' = archives - 1 /\ docId' = docId /\ times' = times
    BY <1>6 DEF ArchiveAttrs, jobVars
  <2>2. Runs' = Runs + 1
    BY <2>1 DEF Runs
  <2>3. \A e \in Deltas : Missing(e)' <= 1 /\ Missing(e) >= 0
                          /\ Missing(e)' \in {0, 1}
    BY DEF Missing
  <2> QED
    BY <2>1, <2>2, <2>3 DEF RecordBound, TimesBound
<1>7. CASE ArchiveDocs \/ SetArchived \/ ArchiveDies
  BY <1>1, <1>7 DEF ArchiveDocs, SetArchived, ArchiveDies, dbVars, jobVars
<1> QED
  BY <1>2, <1>3, <1>4, <1>5, <1>6, <1>7 DEF Next, ProcessStep

LEMMA RecordBoundOK == ASSUME Typed, RecordBound PROVE LoopBroken
<1> SUFFICES ASSUME NEW d \in Deltas PROVE times[d] <= 1 + Removals
  BY DEF LoopBroken
<1>1. times[d] <= ids + Runs
  <2>1. CASE docId[d] = 0
    BY BoundNumbers, <2>1 DEF RecordBound, TimesBound
  <2>2. CASE docId[d] # 0
    BY BoundNumbers, <2>2 DEF RecordBound, TimesBound
  <2> QED
    BY <2>1, <2>2
<1>2. ids + Going <= 1 + Runs
  BY BoundNumbers DEF RecordBound, IdsBound
<1>3. Removals = 2 * Runs - Going
  BY DEF Removals, Runs, Going
<1> QED
  BY BoundNumbers, <1>1, <1>2, <1>3

(* A delta that comes back is recorded once more only for a removal by     *)
(* archive(): the loop of attr-rec.js:168 is broken, however often it is   *)
(* sent and whatever archive.js removes meanwhile.                         *)
THEOREM RecordingEnds == Spec => []LoopBroken
<1>1. Init => Typed /\ RecordBound
  BY InitTyped, InitRecordBound
<1>2. Typed /\ RecordBound /\ [Next]_vars => (Typed /\ RecordBound)'
  BY TypedStep, IdsBoundStep, TimesBoundStep DEF RecordBound
<1>3. Typed /\ RecordBound => LoopBroken
  BY RecordBoundOK
<1> QED
  BY <1>1, <1>2, <1>3, PTL DEF Spec

-----------------------------------------------------------------------------
(* What the feed rests on.  A row is not older than the processing that    *)
(* recorded it; what is not in ALL yet is still to be recorded there; a    *)
(* delta that moved recorded_at, and began after the latest removal, has   *)
(* the document's row as its own; and its attribute is in RECENT.          *)
RowsLate == \A r \in recent : begun[r.delta] # Null /\ r.re >= begun[r.delta]
InAll ==
    \A d \in Deltas :
      /\ all[d] # Null => begun[d] # Null /\ all[d] >= begun[d]
      /\ begun[d] # Null /\ all[d] = Null => "all" \in todo[d]
Fresh(d) == begun[d] # Null /\ begun[d] >= cut
DocKept ==
    \A d \in refreshed :
      /\ begun[d] # Null
      /\ Fresh(d) => doc # Null /\ doc.re >= begun[d] /\ docId[d] = doc.id
RowKept ==
    \A d \in Deltas :
      Fresh(d) /\ todo[d] \cap {"attr", "get"} = {} => InRecent(d)
Kept == RowsLate /\ InAll /\ DocKept /\ RowKept

LEMMA KeptNumbers ==
    ASSUME Typed
    PROVE  /\ now \in Nat /\ cut \in Nat /\ archived \in Nat
           /\ cut <= now /\ archived <= cut /\ now # Null
           /\ \A d \in Deltas : /\ begun[d] # Null => /\ begun[d] \in Nat
                                                      /\ begun[d] <= now
                                /\ all[d] # Null => all[d] \in Nat
           /\ \A r \in recent : r.delta \in Deltas /\ r.re \in Nat
           /\ doc # Null => doc.re \in Nat /\ doc.re <= now
BY ArchiveFeedAssumption
   DEF Typed, TimesTyped, DbTyped, JobsTyped, Times

LEMMA InitKept == ASSUME Init PROVE Kept
BY DEF Init, Kept, RowsLate, InAll, DocKept, RowKept, Fresh

LEMMA KeptOK == ASSUME Typed, Kept PROVE FeedComplete
<1> SUFFICES ASSUME NEW t \in 1..now, ~Hole(t),
                    NEW d \in refreshed, Processed(d, t)
             PROVE  d \in Feed(t)
  BY DEF FeedComplete
<1>0. d \in Deltas /\ t \in Nat
  BY KeptNumbers DEF Typed, JobsTyped
<1>1. begun[d] # Null /\ begun[d] >= t /\ todo[d] = {} /\ begun[d] \in Nat
  BY <1>0, KeptNumbers DEF Processed
<1>2. CASE t > archived
  <2>1. t >= cut
    BY <1>0, <1>2, KeptNumbers DEF Hole
  <2>2. Fresh(d)
    BY <1>0, <1>1, <2>1, KeptNumbers DEF Fresh
  <2>3. doc # Null /\ docId[d] = doc.id
    BY <2>2 DEF Kept, DocKept
  <2>4. PICK r \in recent : r.delta = d /\ r.doc = docId[d]
    BY <1>0, <1>1, <2>2 DEF Kept, RowKept, InRecent
  <2>5. r.re >= t
    <3>1. r.re >= begun[d] /\ r.re \in Nat
      BY <2>4, KeptNumbers DEF Kept, RowsLate
    <3> QED
      BY <1>0, <1>1, <3>1
  <2> QED
    BY <1>2, <2>3, <2>4, <2>5 DEF Feed, FromRecent
<1>3. CASE ~(t > archived)
  <2>1. all[d] # Null
    BY <1>0, <1>1 DEF Kept, InAll
  <2>2. all[d] >= t
    <3>1. all[d] >= begun[d] /\ all[d] \in Nat
      BY <1>0, <2>1, KeptNumbers DEF Kept, InAll
    <3> QED
      BY <1>0, <1>1, <3>1
  <2> QED
    BY <1>0, <1>3, <2>1, <2>2 DEF Feed, FromAll
<1> QED
  BY <1>2, <1>3

LEMMA RowsLateStep == ASSUME Typed, Kept, [Next]_vars PROVE RowsLate'
<1> USE KeptNumbers DEF Kept, RowsLate
<1>1. ASSUME recent' \subseteq recent, begun' = begun PROVE RowsLate'
  BY <1>1
<1>2. CASE Tick \/ UNCHANGED vars
  BY <1>1, <1>2 DEF Tick, vars, dbVars, jobVars
<1>3. ASSUME NEW d \in Deltas, GetDoc(d) PROVE RowsLate'
  <2>1. begun \in [Deltas -> (1..now) \cup {Null}]
    BY DEF Typed, JobsTyped
  <2> QED
    BY <1>3, <2>1 DEF GetDoc
<1>4. ASSUME NEW d \in Deltas, RecordRecent(d) PROVE RowsLate'
  <2> DEFINE row == [delta |-> d, doc |-> docId[d], re |-> now]
  <2>1. begun[d] # Null /\ row.delta = d /\ row.re = now
    BY <1>4 DEF RecordRecent, Typed, JobsTyped
  <2>2. recent' \subseteq recent \cup {row} /\ begun' = begun
    BY <1>4 DEF RecordRecent
  <2> HIDE DEF row
  <2> QED
    BY <2>1, <2>2
<1>5. ASSUME NEW d \in Deltas,
             RecordAll(d) \/ UpdateDoc(d) \/ DestroyDoc(d) \/ Resend(d)
      PROVE  RowsLate'
  BY <1>1, <1>5 DEF RecordAll, UpdateDoc, DestroyDoc, Resend, dbVars
<1>6. ASSUME NEW before, ArchiveAttrs(before) PROVE RowsLate'
  BY <1>1, <1>6 DEF ArchiveAttrs, jobVars
<1>7. CASE ArchiveDocs \/ SetArchived \/ ArchiveDies
  BY <1>1, <1>7 DEF ArchiveDocs, SetArchived, ArchiveDies, dbVars, jobVars
<1> QED
  BY <1>2, <1>3, <1>4, <1>5, <1>6, <1>7 DEF Next, ProcessStep

LEMMA InAllStep == ASSUME Typed, Kept, [Next]_vars PROVE InAll'
<1> USE KeptNumbers DEF Kept, InAll
<1>0. /\ begun \in [Deltas -> (1..now) \cup {Null}]
      /\ all \in [Deltas -> Times \cup {Null}]
      /\ todo \in [Deltas -> SUBSET {"get", "all", "attr", "doc"}]
  BY DEF Typed, JobsTyped, DbTyped
<1>1. ASSUME all' = all, begun' = begun,
             \A d \in Deltas : "all" \in todo[d] => "all" \in todo'[d]
      PROVE  InAll'
  BY <1>1
<1>2. CASE Tick \/ UNCHANGED vars
  BY <1>1, <1>2 DEF Tick, vars, dbVars, jobVars
<1>3. ASSUME NEW d \in Deltas, GetDoc(d) PROVE InAll'
  BY <1>0, <1>3 DEF GetDoc
<1>4. ASSUME NEW d \in Deltas, RecordAll(d) PROVE InAll'
  <2>1. begun[d] # Null
    BY <1>4 DEF RecordAll, Typed, JobsTyped
  <2> QED
    BY <1>0, <1>4, <2>1, ArchiveFeedAssumption DEF RecordAll, Did
<1>5. ASSUME NEW d \in Deltas,
             RecordRecent(d) \/ UpdateDoc(d) \/ DestroyDoc(d) \/ Resend(d)
      PROVE  InAll'
  <2>1. \A e \in Deltas : "all" \in todo[e] => "all" \in todo'[e]
    BY <1>0, <1>5 DEF RecordRecent, UpdateDoc, DestroyDoc, Resend, Did
  <2> QED
    BY <1>1, <1>5, <2>1 DEF RecordRecent, UpdateDoc, DestroyDoc, Resend,
                            dbVars
<1>6. ASSUME NEW before, ArchiveAttrs(before) PROVE InAll'
  BY <1>1, <1>6 DEF ArchiveAttrs, jobVars
<1>7. CASE ArchiveDocs \/ SetArchived \/ ArchiveDies
  BY <1>1, <1>7 DEF ArchiveDocs, SetArchived, ArchiveDies, dbVars, jobVars
<1> QED
  BY <1>2, <1>3, <1>4, <1>5, <1>6, <1>7 DEF Next, ProcessStep

LEMMA DocKeptStep == ASSUME Typed, Kept, [Next]_vars PROVE DocKept'
<1> USE KeptNumbers DEF Kept, DocKept, Fresh
<1>0. /\ begun \in [Deltas -> (1..now) \cup {Null}]
      /\ docId \in [Deltas -> 0..ids]
      /\ refreshed \subseteq Deltas
  BY ArchiveFeedAssumption DEF Typed, JobsTyped
<1>1. ASSUME refreshed' = refreshed, begun' = begun, docId' = docId,
             cut' = cut,
             doc # Null => /\ doc' # Null /\ doc'.re = doc.re
                           /\ doc'.id = doc.id
      PROVE  DocKept'
  BY <1>1
<1>2. CASE Tick \/ UNCHANGED vars
  BY <1>1, <1>2 DEF Tick, vars, dbVars, jobVars, archiveVars
<1>3. ASSUME NEW d \in Deltas, GetDoc(d) PROVE DocKept'
  <2>1. /\ docId' = [docId EXCEPT ![d] = doc'.id] /\ cut' = cut
        /\ begun' = [begun EXCEPT ![d] = IF @ = Null THEN now ELSE @]
        /\ IF doc = Null THEN doc' = NewDoc(d)
                              /\ refreshed' = refreshed \cup {d}
                         ELSE doc' = doc /\ refreshed' = refreshed
    BY <1>3 DEF GetDoc, archiveVars
  <2>2. CASE doc = Null
    <3>1. doc' # Null /\ doc'.re = now
      BY <2>1, <2>2, NewDocTyped
    <3> QED
      BY <1>0, <2>1, <2>2, <3>1
  <2>3. CASE doc # Null
    BY <1>0, <2>1, <2>3
  <2> QED
    BY <2>2, <2>3
<1>4. ASSUME NEW d \in Deltas, UpdateDoc(d) PROVE DocKept'
  <2>1. /\ docId' = docId /\ cut' = cut /\ begun' = begun /\ begun[d] # Null
    BY <1>4 DEF UpdateDoc, archiveVars, Typed, JobsTyped
  <2>2. CASE doc # Null /\ doc.id = docId[d] /\ IsLater(doc, d)
    <3>1. doc' = Updated(doc, d) /\ refreshed' = refreshed \cup {d}
      BY <1>4, <2>2 DEF UpdateDoc
    <3>2. doc' # Null /\ doc'.re = now /\ doc'.id = doc.id
      BY <2>2, <3>1, RowsTyped, ArchiveFeedAssumption
         DEF Updated, Typed, DbTyped, DocRow
    <3> QED
      BY <1>0, <2>1, <2>2, <3>1, <3>2
  <2>3. CASE ~(doc # Null /\ doc.id = docId[d] /\ IsLater(doc, d))
    <3>1. refreshed' = refreshed
      BY <1>4, <2>3 DEF UpdateDoc
    <3>2. doc' \in {doc, [doc EXCEPT !.updated = d.up]}
      BY <1>4, <2>3 DEF UpdateDoc
    <3>3. doc # Null => doc' # Null /\ doc'.re = doc.re /\ doc'.id = doc.id
      BY <3>2, RowsTyped, ArchiveFeedAssumption DEF Typed, DbTyped, DocRow
    <3> QED
      BY <1>1, <2>1, <3>1, <3>3
  <2> QED
    BY <2>2, <2>3
<1>5. ASSUME NEW d \in Deltas,
             RecordAll(d) \/ RecordRecent(d) \/ DestroyDoc(d) \/ Resend(d)
      PROVE  DocKept'
  <2>1. doc' \in {doc, [doc EXCEPT !.destroyed = d.up]}
    BY <1>5 DEF RecordAll, RecordRecent, DestroyDoc, Resend, dbVars
  <2>2. doc # Null => doc' # Null /\ doc'.re = doc.re /\ doc'.id = doc.id
    BY <2>1, RowsTyped, ArchiveFeedAssumption DEF Typed, DbTyped, DocRow
  <2> QED
    BY <1>1, <1>5, <2>2 DEF RecordAll, RecordRecent, DestroyDoc, Resend,
                            archiveVars
<1>6. ASSUME NEW before \in 1..MaxTime, ArchiveAttrs(before) PROVE DocKept'
  <2>1. cut' \in Nat /\ cut <= cut'
    BY <1>6 DEF ArchiveAttrs
  <2> QED
    BY <1>0, <1>6, <2>1 DEF ArchiveAttrs, jobVars
<1>7. CASE ArchiveDocs
  <2>1. /\ refreshed' = refreshed /\ begun' = begun /\ docId' = docId
        /\ cut' = cut
        /\ doc' = IF doc # Null /\ doc.re < archive.before THEN Null ELSE doc
    BY <1>7 DEF ArchiveDocs, jobVars
  <2>2. archive.before \in Nat /\ archive.before <= cut
    BY DEF Typed, TimesTyped
  <2> QED
    BY <1>0, <2>1, <2>2
<1>8. CASE SetArchived \/ ArchiveDies
  BY <1>1, <1>8 DEF SetArchived, ArchiveDies, dbVars, jobVars
<1> QED
  BY <1>2, <1>3, <1>4, <1>5, <1>6, <1>7, <1>8 DEF Next, ProcessStep

LEMMA RowKeptStep == ASSUME Typed, Kept, [Next]_vars PROVE RowKept'
<1> USE KeptNumbers DEF Kept, RowKept, Fresh
<1>0. /\ begun \in [Deltas -> (1..now) \cup {Null}]
      /\ docId \in [Deltas -> 0..ids]
      /\ todo \in [Deltas -> SUBSET {"get", "all", "attr", "doc"}]
  BY DEF Typed, JobsTyped
<1>1. ASSUME recent \subseteq recent', begun' = begun, docId' = docId,
             cut' = cut,
             \A d \in Deltas : todo[d] \cap {"attr", "get"}
                                 \subseteq todo'[d]
      PROVE  RowKept'
  BY <1>1 DEF InRecent
<1>2. CASE Tick \/ UNCHANGED vars
  BY <1>1, <1>2 DEF Tick, vars, dbVars, jobVars, archiveVars
<1>3. ASSUME NEW d \in Deltas, GetDoc(d) PROVE RowKept'
  BY <1>0, <1>3 DEF GetDoc, archiveVars, InRecent
<1>4. ASSUME NEW d \in Deltas, RecordRecent(d) PROVE RowKept'
  <2> DEFINE row == [delta |-> d, doc |-> docId[d], re |-> now]
  <2>1. row.delta = d /\ row.doc = docId[d]
    OBVIOUS
  <2>2. /\ recent' = recent \/ recent' = recent \cup {row}
        /\ InRecent(d) \/ row \in recent'
        /\ docId' = docId /\ begun' = begun /\ cut' = cut
        /\ todo' = [todo EXCEPT ![d] = @ \ {"attr"}]
    BY <1>4 DEF RecordRecent, Did, archiveVars
  <2> HIDE DEF row
  <2>3. InRecent(d)' /\ (\A e \in Deltas : InRecent(e) => InRecent(e)')
    BY <2>1, <2>2 DEF InRecent
  <2> QED
    BY <1>0, <2>2, <2>3
<1>5. ASSUME NEW d \in Deltas,
             RecordAll(d) \/ UpdateDoc(d) \/ DestroyDoc(d) \/ Resend(d)
      PROVE  RowKept'
  <2>1. \A e \in Deltas : todo[e] \cap {"attr", "get"} \subseteq todo'[e]
    BY <1>0, <1>5 DEF RecordAll, UpdateDoc, DestroyDoc, Resend, Did
  <2> QED
    BY <1>1, <1>5, <2>1 DEF RecordAll, UpdateDoc, DestroyDoc, Resend,
                            dbVars, archiveVars
<1>6. ASSUME NEW before \in 1..MaxTime, ArchiveAttrs(before) PROVE RowKept'
  <2>1. /\ cut' \in Nat /\ cut <= cut' /\ before <= cut'
        /\ begun' = begun /\ docId' = docId /\ todo' = todo
        /\ recent' = {r \in recent : r.re >= before}
    BY <1>6 DEF ArchiveAttrs, jobVars
  <2>2. ASSUME NEW d \in Deltas, Fresh(d)', todo[d] \cap {"attr", "get"} = {}
        PROVE  InRecent(d)'
    <3>1. Fresh(d) /\ begun[d] >= cut' /\ begun[d] \in Nat
      BY <2>1, <2>2
    <3>2. PICK r \in recent : r.delta = d /\ r.doc = docId[d]
      BY <2>2, <3>1 DEF InRecent
    <3>3. r.re >= begun[d] /\ r.re \in Nat
      BY <3>2 DEF RowsLate
    <3>4. r \in recent'
      BY <2>1, <3>1, <3>3
    <3> QED
      BY <2>1, <3>2, <3>4 DEF InRecent
  <2> QED
    BY <2>1, <2>2
<1>7. CASE ArchiveDocs \/ SetArchived \/ ArchiveDies
  BY <1>1, <1>7 DEF ArchiveDocs, SetArchived, ArchiveDies, dbVars, jobVars
<1> QED
  BY <1>2, <1>3, <1>4, <1>5, <1>6, <1>7 DEF Next, ProcessStep

(* The history a server is given has the deltas that moved the document's  *)
(* recorded_at (changes.js:64-85), whatever archive.js removes before or   *)
(* in the meantime, and in whatever order deltas are recorded and resent.  *)
THEOREM HistoryComplete == Spec => []FeedComplete
<1>1. Init => Typed /\ Kept
  BY InitTyped, InitKept
<1>2. Typed /\ Kept /\ [Next]_vars => (Typed /\ Kept)'
  BY TypedStep, RowsLateStep, InAllStep, DocKeptStep, RowKeptStep DEF Kept
<1>3. Typed /\ Kept => FeedComplete
  BY KeptOK
<1> QED
  BY <1>1, <1>2, <1>3, PTL DEF Spec

=============================================================================
