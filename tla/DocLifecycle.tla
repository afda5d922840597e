---------------------------- MODULE DocLifecycle ----------------------------
(***************************************************************************)
(* One document in the LATEST partition: its row (doc-recs.js), the rows   *)
(* of its attributes (attr-rec.js), and the chains of promises Attr.create *)
(* (attr.js) runs on them, one per delta and all at the same time.         *)
(*                                                                         *)
(* Deleting a document does not remove anything: it records a tombstone    *)
(* and a destroyed_at.  A change that is later than the last deletion      *)
(* restores the document: every attribute is recorded once more, at the    *)
(* time of that change and with sequence number -1.  Deletion, update and  *)
(* restore are sequences of SQL statements that interleave with those of   *)
(* other deltas; an action is one statement, and what the code computes    *)
(* from its result before the next one.                                    *)
(*                                                                         *)
(* The insert-or-update of an attribute row is one action here: AttrStore  *)
(* models it statement by statement.  All deltas have a quorum (without    *)
(* one Attr.create leaves LATEST alone) and are permitted; setOptions      *)
(* (policies, users, roles) is not part of this module.                    *)
(***************************************************************************)
EXTENDS Tsv, FiniteSets

CONSTANTS Names,      \* the attributes of the document
          Tomb,       \* the NULL name: the record that deletes the document
          Deltas,     \* what is processed: [name, val, up, seq]
          InitDoc,    \* the document's row at the start, or NoRow
          InitRows,   \* InitRows[n]: the attribute's row at the start
          NoRow,
          Chains      \* bound: deltas that are processed at the same time

Columns == Names \cup {Tomb}
Deletions == {d \in Deltas : d.name = Tomb}
Edits     == {d \in Deltas : d.name # Tomb}

(* The columns of doc-recs.js and of attr-recs.js.                         *)
Time    == Nat \cup {Null}
DocRow  == [updated : Time, destroyed : Time, last : Time]
AttrRow == [name : Columns, val : Values \cup {Null}, up : Nat, seq : Int]

(* Comparison in SQL: unknown, hence no match, when a side is NULL.        *)
Lt(a, b) == a # Null /\ b # Null /\ a < b
Le(a, b) == a # Null /\ b # Null /\ a <= b

(* What processing leaves behind when it comes to rest, and so what it may *)
(* start from (DocLifecycleProofs!RestsAgain): the times of the document   *)
(* agree with each other and with those of its attributes.                 *)
TimesAgree(row) ==
    /\ row.last = Null => row.destroyed = Null
    /\ row.last # Null => \/ row.destroyed = row.last
                          \/ row.destroyed = Null /\ Lt(row.last, row.updated)
    /\ row.destroyed = Null \/ row.updated = Null
         \/ row.updated <= row.destroyed
AtRest(row, attrs) ==
    IF row = NoRow THEN \A n \in Names : attrs[n] = NoRow
    ELSE /\ TimesAgree(row)
         /\ \A n \in Names : attrs[n] # NoRow => Le(attrs[n].up, row.updated)
         /\ row.updated # Null =>
              \E n \in Names : attrs[n] # NoRow /\ attrs[n].up = row.updated

ASSUME DocLifecycleAssumption ==
    /\ Tomb \notin Names
    /\ Deltas \subseteq [name : Columns, val : Values \cup {Null},
                         up : Nat, seq : Nat]
    /\ \A d \in Deletions : d.val = Null
    /\ NoRow \notin DocRow /\ NoRow \notin AttrRow
    /\ InitDoc \in DocRow \cup {NoRow}
    /\ InitRows \in [Columns -> AttrRow \cup {NoRow}]
    /\ \A n \in Columns : InitRows[n] # NoRow => InitRows[n].name = n
    /\ AtRest(InitDoc, InitRows)
    /\ Chains \in Nat \ {0}

VARIABLES doc,        \* the row of the document: updated_at, destroyed_at,
                      \* last_destroyed_at, any of them Null; or NoRow
          rows,       \* rows[n]: the row of attribute n, or NoRow
          pc,         \* pc[d]: the next statement of the chain of delta d
          at,         \* at[d]: the time its restore uses
          restores    \* chains that restore one attribute for a delta:
                      \* [owner, name, val, up, pc]

vars == <<doc, rows, pc, at, restores>>

-----------------------------------------------------------------------------
Init == /\ doc = InitDoc
        /\ rows = InitRows
        /\ pc = [d \in Deltas |-> "queued"]
        /\ at = [d \in Deltas |-> Null]
        /\ restores = {}

Go(d, next) == pc' = [pc EXCEPT ![d] = next]

(* Process._createDoc: the row a first delta creates.  A deletion moves    *)
(* its time to destroyed_at and leaves updated_at NULL.                    *)
NewDoc(d) == IF d.name = Tomb
             THEN [updated |-> Null, destroyed |-> d.up, last |-> d.up]
             ELSE [updated |-> d.up, destroyed |-> Null, last |-> Null]

(* The deltas whose processing has begun, and those in the middle of it.   *)
Processed == {d \in Deltas : pc[d] # "queued"}
Running   == {d \in Processed : pc[d] \notin {"done", "error"}}

(* DocRecs.getOrCreate; the unique uuid makes losing the race a lookup.    *)
GetOrCreateDoc(d) ==
    /\ pc[d] = "queued" /\ Cardinality(Running) < Chains
    /\ doc' = IF doc = NoRow THEN NewDoc(d) ELSE doc
    /\ Go(d, "attr")
    /\ UNCHANGED <<rows, at, restores>>

(* AttrRec.replace of a record.                                            *)
Put(row, rec) == IF row = NoRow \/ Replaces(rec, row) THEN rec ELSE row

CreateAttr(d) ==
    /\ pc[d] = "attr"
    /\ rows' = [rows EXCEPT ![d.name] = Put(@, d)]
    /\ Go(d, IF d.name = Tomb THEN "destroy" ELSE "update")
    /\ UNCHANGED <<doc, at, restores>>

-----------------------------------------------------------------------------
(* Mutants of Undelete: an update as old as the deletion clears it too ...  *)
UndeleteAtTie(row, t) ==
    IF /\ Lt(row.updated, t) \/ row.updated = Null
       /\ row.destroyed = Null \/ Le(row.destroyed, t)
    THEN [row EXCEPT !.updated = t, !.destroyed = Null]
    ELSE row

(* ... or the time of the last deletion is cleared as well.                *)
UndeleteLast(row, t) ==
    IF /\ Lt(row.updated, t) \/ row.updated = Null
       /\ row.destroyed = Null \/ Lt(row.destroyed, t)
    THEN [row EXCEPT !.updated = t, !.destroyed = Null, !.last = Null]
    ELSE row

(* DocRecs.update, first statement: a later update clears a deletion that  *)
(* is strictly earlier ("use < so that deletions take priority").          *)
Undelete(row, t) ==
    IF /\ Lt(row.updated, t) \/ row.updated = Null
       /\ row.destroyed = Null \/ Lt(row.destroyed, t)
    THEN [row EXCEPT !.updated = t, !.destroyed = Null]
    ELSE row

(* Second statement: the time of the last update, deleted or not.          *)
Touch(row, t) == IF Le(row.updated, t) \/ row.updated = Null
                 THEN [row EXCEPT !.updated = t]
                 ELSE row

UpdateDoc1(d) ==
    /\ pc[d] = "update"
    /\ doc' = Undelete(doc, d.up)
    /\ Go(d, "touch")
    /\ UNCHANGED <<rows, at, restores>>

UpdateDoc2(d) ==
    /\ pc[d] = "touch"
    /\ doc' = Touch(doc, d.up)
    /\ Go(d, "check")
    /\ UNCHANGED <<rows, at, restores>>

(* Mutant of RestoreIfDestroyedBefore: destroyed_at is read instead of     *)
(* last_destroyed_at, though the update has just cleared it.               *)
RestoreIfStillDestroyed(d) ==
    /\ pc[d] = "check"
    /\ IF Lt(doc.destroyed, d.up)
       THEN at' = [at EXCEPT ![d] = d.up] /\ Go(d, "read")
       ELSE UNCHANGED at /\ Go(d, "done")
    /\ UNCHANGED <<doc, rows, restores>>

(* Attr.restoreIfDestroyedBefore: was the document ever deleted before     *)
(* this change?  last_destroyed_at is read because destroyed_at may have   *)
(* been cleared by then.                                                   *)
RestoreIfDestroyedBefore(d) ==
    /\ pc[d] = "check"
    /\ IF Lt(doc.last, d.up)
       THEN at' = [at EXCEPT ![d] = d.up] /\ Go(d, "read")
       ELSE UNCHANGED at /\ Go(d, "done")
    /\ UNCHANGED <<doc, rows, restores>>

-----------------------------------------------------------------------------
(* Mutant of Destroyable: the last update is not looked at.                *)
DestroyableUpdated(row, t) == Le(row.destroyed, t) \/ row.destroyed = Null

(* DocRecs.setDestroyedAt: only if the document was not updated since.     *)
Destroyable(row, t) == /\ Le(row.updated, t)
                       /\ Le(row.destroyed, t) \/ row.destroyed = Null

Destroy(d) ==
    /\ pc[d] = "destroy"
    /\ IF Destroyable(doc, d.up)
       THEN /\ doc' = [doc EXCEPT !.destroyed = d.up, !.last = d.up]
            /\ Go(d, "done")
       ELSE /\ UNCHANGED doc
            /\ Go(d, "since")
    /\ UNCHANGED <<rows, at, restores>>

(* Docs._restoreIfChangeSince: a row that is later than the deletion.  The *)
(* query has no ORDER BY, so it is any of them.                            *)
RowsSince(t) == {n \in Names : rows[n] # NoRow /\ rows[n].up > t}

(* Mutant of RestoreIfChangeSince: the time of the row is not passed on.   *)
RestoreWithoutTime(d) ==
    /\ pc[d] = "since"
    /\ RowsSince(d.up) # {}
    /\ Go(d, "read")
    /\ UNCHANGED <<doc, rows, at, restores>>

RestoreIfChangeSince(d) ==
    /\ pc[d] = "since"
    /\ \E n \in RowsSince(d.up) :
         at' = [at EXCEPT ![d] = rows[n].up] /\ Go(d, "read")
    /\ UNCHANGED <<doc, rows, restores>>

NoChangeSince(d) ==
    /\ pc[d] = "since"
    /\ RowsSince(d.up) = {}
    /\ Go(d, "done")
    /\ UNCHANGED <<doc, rows, at, restores>>

-----------------------------------------------------------------------------
(* Docs._restore: the attributes up to the time of the restore ...         *)
RowsUpTo(t) == {n \in Names : rows[n] # NoRow /\ rows[n].up <= t}

(* Mutant of RestoreSeq: restored values are ordinary changes.             *)
OrdinarySeq == 0

(* ... start one chain each, which records the value that was read at the  *)
(* time of the restore and with this sequence number.                      *)
RestoreSeq == -1

Restore(d) ==
    /\ pc[d] = "read"
    /\ RowsUpTo(at[d]) # {}
    /\ restores' = restores \cup
         {[owner |-> d, name |-> n, val |-> rows[n].val, up |-> at[d],
           pc |-> "attr"] : n \in RowsUpTo(at[d])}
    /\ Go(d, "restoring")
    /\ UNCHANGED <<doc, rows, at>>

(* AttrRecs.getDoc answers null for no rows, and attrs.forEach throws a    *)
(* TypeError: the chain, and with it process(), is rejected.               *)
RestoreFails(d) ==
    /\ pc[d] = "read"
    /\ RowsUpTo(at[d]) = {}
    /\ Go(d, "error")
    /\ UNCHANGED <<doc, rows, at, restores>>

Advance(r, next) ==
    restores' = (restores \ {r}) \cup {[r EXCEPT !.pc = next]}

(* Attr.create with the restore flag: the record, the two statements of    *)
(* DocRecs.update, and no further restore.                                 *)
Restored(r) == [name |-> r.name, val |-> r.val, up |-> r.up,
                seq |-> RestoreSeq]

RestoreAttr(r) ==
    /\ r.pc = "attr"
    /\ rows' = [rows EXCEPT ![r.name] = Put(@, Restored(r))]
    /\ Advance(r, "update")
    /\ UNCHANGED <<doc, pc, at>>

RestoreDoc1(r) ==
    /\ r.pc = "update"
    /\ doc' = Undelete(doc, r.up)
    /\ Advance(r, "touch")
    /\ UNCHANGED <<rows, pc, at>>

(* Mutant of RestoreDoc2: the restore flag is lost on the way, so that the *)
(* restored value restores the document again.                             *)
RestoreAgain(r) ==
    /\ r.pc = "touch"
    /\ doc' = Touch(doc, r.up)
    /\ restores' = (restores \ {r}) \cup
         (IF Lt(doc.last, r.up) THEN {[r EXCEPT !.pc = "attr"]} ELSE {})
    /\ UNCHANGED <<rows, pc, at>>

RestoreDoc2(r) ==
    /\ r.pc = "touch"
    /\ doc' = Touch(doc, r.up)
    /\ restores' = restores \ {r}
    /\ UNCHANGED <<rows, pc, at>>

(* Promise.all over the chains of the restore.                             *)
RestoreDone(d) ==
    /\ pc[d] = "restoring"
    /\ \A r \in restores : r.owner # d
    /\ Go(d, "done")
    /\ UNCHANGED <<doc, rows, at, restores>>

-----------------------------------------------------------------------------
StepDelta(d) ==
    \/ GetOrCreateDoc(d) \/ CreateAttr(d)
    \/ UpdateDoc1(d) \/ UpdateDoc2(d) \/ RestoreIfDestroyedBefore(d)
    \/ Destroy(d) \/ RestoreIfChangeSince(d) \/ NoChangeSince(d)
    \/ Restore(d) \/ RestoreFails(d) \/ RestoreDone(d)

StepRestore(r) == RestoreAttr(r) \/ RestoreDoc1(r) \/ RestoreDoc2(r)

Next == \/ \E d \in Deltas : StepDelta(d)
        \/ \E r \in restores : StepRestore(r)

Spec == Init /\ [][Next]_vars

(* Node runs every chain whose statement the database has answered, and    *)
(* the database answers every statement: no chain waits for ever.          *)
Fairness == /\ \A d \in Deltas : WF_vars(StepDelta(d))
            /\ WF_vars(\E r \in restores : StepRestore(r))

FairSpec == Spec /\ Fairness

-----------------------------------------------------------------------------
(* The columns of doc-recs.js and attr-recs.js, and where a chain can be.  *)
TypeOK ==
    /\ doc \in DocRow \cup {NoRow}
    /\ rows \in [Columns -> AttrRow \cup {NoRow}]
    /\ pc \in [Deltas -> {"queued", "attr", "update", "touch", "check",
                          "destroy", "since", "read", "restoring", "done",
                          "error"}]
    /\ at \in [Deltas -> Time]
    /\ restores \subseteq [owner : Deltas, name : Names,
                           val : Values \cup {Null}, up : Nat,
                           pc : {"attr", "update", "touch"}]
    /\ \A d \in Deltas : /\ pc[d] # "queued" => doc # NoRow
                         /\ pc[d] \in {"read", "restoring"} => at[d] # Null
    /\ restores # {} => doc # NoRow

(* Between two rounds of processing: what has been taken from the queue    *)
(* has come to an end.                                                     *)
Quiet == doc # NoRow /\ Running = {}

EditTimes == {d.up : d \in Processed \cap Edits} \cup
             (IF InitDoc = NoRow THEN {} ELSE {InitDoc.updated} \ {Null})
DeletionTimes == {d.up : d \in Processed \cap Deletions} \cup
                 (IF InitDoc = NoRow THEN {} ELSE {InitDoc.last} \ {Null})
EditedLast == \E u \in EditTimes : \A t \in DeletionTimes : t < u

(* A destroyed document was not updated after it was destroyed: the two    *)
(* statements of DocRecs.update and setDestroyedAt keep the two columns in *)
(* agreement in every interleaving (doc-recs.js:137-203).                  *)
DestroyedAfterUpdate ==
    doc # NoRow /\ doc.destroyed # Null /\ doc.updated # Null
       => doc.updated <= doc.destroyed

(* "Use < for destroyed_at so that deletions take priority"                *)
(* (doc-recs.js:149-151): whenever processing comes to rest the document   *)
(* is live exactly when its last edit is strictly later than its last      *)
(* deletion, whatever was processed before or at the same time.            *)
DeletionsTakePriority ==
    Quiet => (doc.destroyed = Null <=> EditedLast)

(* restoreIfDestroyedBefore trusts last_destroyed_at to be the last        *)
(* deletion (attr.js:123-140); it never moves back, although the column    *)
(* itself is not in the WHERE clause of setDestroyedAt.                    *)
LastDestroyedNeverDecreases ==
    [][doc # NoRow /\ doc.last # Null => Le(doc.last, doc'.last)]_vars

(* "After doc updated, check when doc was previously deleted and if the    *)
(* update was after the deletion date then auto restore" (NOTES.md,        *)
(* Restore): when an edit is the last word, every attribute the document   *)
(* had has been recorded again, later than every deletion - whether the    *)
(* edit or the deletion is processed first, or both at once.               *)
AutoRestored ==
    Quiet /\ EditedLast =>
      \A n \in Names : InitRows[n] # NoRow =>
         \A t \in DeletionTimes : rows[n].up > t

(* "Set seq num to -1 for restored attrs so that any restoring changes     *)
(* take precedence" (attrs.js:33-34): a restore never shows in place of an *)
(* edit of the same time, only another edit of that time or the row that   *)
(* was there does.                                                         *)
RestoringChangesWin ==
    \A d \in Edits :
       pc[d] \notin {"queued", "attr"} /\ rows[d.name].up = d.up
         => \E e \in Edits \cup {InitRows[d.name]} :
              e # NoRow /\ e.name = d.name /\ e.up = d.up /\ e.seq >= 0
              /\ e.val = rows[d.name].val

(* The restore flag "prevents infinite recursion" (attr.js:40,             *)
(* docs.js:67): every delta comes to an end.                               *)
EveryDeltaEnds == <>(\A d \in Deltas : pc[d] \in {"done", "error"})

(* Restoring is no reason to fail: no chain is rejected with an error.     *)
(* This does not hold: see OneAttr in MCDocLifecycle.                      *)
NoChainFails == \A d \in Deltas : pc[d] # "error"
=============================================================================
