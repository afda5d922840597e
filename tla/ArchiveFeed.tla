---------------------------- MODULE ArchiveFeed -----------------------------
(***************************************************************************)
(* The history of a document as one server hands it to another.  ALL keeps *)
(* every delta for ever, RECENT those since the last archive; the feed is  *)
(* read from RECENT when the other server has asked after the last         *)
(* archive, from ALL otherwise (scripts/partitioner/sql/changes.js).       *)
(* Archiving (archive.js) is three statements: the attributes recorded     *)
(* before a time are removed from RECENT, then the documents, then the     *)
(* time is stored.  Deltas are recorded and feeds are read meanwhile.      *)
(*                                                                         *)
(* Everything is permitted.  An action is one statement or a check and the *)
(* insertion it guards (AttrStore takes those two apart); the time a row   *)
(* carries is that of its insertion (Sync takes those two apart).          *)
(***************************************************************************)
EXTENDS Integers, FiniteSets

CONSTANTS Deltas,     \* the deltas of the document: [up, del], with del
                      \* true for the one that deletes the document
          Null,       \* no row, no time
          MaxTime,    \* bound: the last millisecond of the model
          Archives,   \* bound: how often archive() is called
          Resends     \* bound: deltas other servers send once more

(* A row of documents in RECENT.                                           *)
DocRow == [id : Nat, re : Nat, updated : Nat \cup {Null},
           destroyed : Nat \cup {Null}]

ASSUME ArchiveFeedAssumption ==
    /\ Deltas \subseteq [up : Nat, del : BOOLEAN]
    /\ Null \notin Nat /\ Null \notin DocRow
    /\ MaxTime \in Nat \ {0} /\ Archives \in Nat /\ Resends \in Nat

VARIABLES all,        \* all[d]: the recorded_at of d in ALL, or Null
          recent,     \* the rows of attributes in RECENT: [delta, doc, re]
          doc,        \* the document's row in RECENT, or Null:
                      \* [id, re, updated, destroyed]
          ids,        \* the ids RECENT has given so far
          archived,   \* the global of that name
          archive,    \* where archive() is, and its argument
          todo,       \* todo[d]: what is left of the processing of d
          docId,      \* docId[d]: the cached id of the document in RECENT
          now, archives, resends,
          begun,      \* history: when the processing of d began
          refreshed,  \* history: the deltas that moved recorded_at of doc
          cut,        \* history: the latest time archive() was called with
          times       \* history: how often d was recorded in RECENT

dbVars == <<all, recent, doc, ids, archived>>
jobVars == <<todo, docId, begun, refreshed, times>>
archiveVars == <<archive, archives, cut>>
vars == <<dbVars, archiveVars, jobVars, now, resends>>

Idle == [pc |-> "idle", before |-> 0]

Init == /\ all = [d \in Deltas |-> Null]
        /\ recent = {} /\ doc = Null /\ ids = 0
        /\ archived = 0 /\ archive = Idle
        /\ todo = [d \in Deltas |-> {"get"}]
        /\ docId = [d \in Deltas |-> 0]
        /\ now = 1 /\ archives = Archives /\ resends = Resends
        /\ begun = [d \in Deltas |-> Null]
        /\ refreshed = {} /\ cut = 0
        /\ times = [d \in Deltas |-> 0]

Tick == /\ now < MaxTime
        /\ now' = now + 1
        /\ UNCHANGED <<dbVars, archiveVars, jobVars, resends>>

-----------------------------------------------------------------------------
(* Mutant of NewDoc: the id of the row before it is given once more.       *)
NewDocOldId(d) == [id |-> ids, re |-> now,
                   updated |-> IF d.del THEN Null ELSE d.up,
                   destroyed |-> IF d.del THEN d.up ELSE Null]

(* The row a first delta creates: recorded_at is the database's time, a    *)
(* deletion leaves updated_at NULL.                                        *)
NewDoc(d) == [id |-> ids + 1, re |-> now,
              updated |-> IF d.del THEN Null ELSE d.up,
              destroyed |-> IF d.del THEN d.up ELSE Null]

(* _getOrCreateDoc: the id of the row is cached for the whole processing.  *)
GetDoc(d) ==
    /\ "get" \in todo[d]
    /\ IF doc = Null
       THEN doc' = NewDoc(d) /\ ids' = ids + 1
       ELSE UNCHANGED <<doc, ids>>
    /\ docId' = [docId EXCEPT ![d] = doc'.id]
    /\ todo' = [todo EXCEPT ![d] = {"all", "attr", "doc"}]
    /\ begun' = [begun EXCEPT ![d] = IF @ = Null THEN now ELSE @]
    /\ refreshed' = IF doc = Null THEN refreshed \cup {d} ELSE refreshed
    /\ UNCHANGED <<all, recent, archived, archiveVars, now, resends, times>>

Did(d, what) == todo' = [todo EXCEPT ![d] = @ \ {what}]

RecordAll(d) ==
    /\ "all" \in todo[d]
    /\ all' = [all EXCEPT ![d] = IF @ = Null THEN now ELSE @]
    /\ Did(d, "all")
    /\ UNCHANGED <<recent, doc, ids, archived, archiveVars, docId, now,
                   resends, begun, refreshed, times>>

(* Mutant of InRecent: the record is created without looking.              *)
NeverInRecent(d) == FALSE

(* createIfMissing, in RECENT.                                             *)
InRecent(d) == \E r \in recent : r.delta = d /\ r.doc = docId[d]

RecordRecent(d) ==
    /\ "attr" \in todo[d]
    /\ IF InRecent(d)
       THEN UNCHANGED <<recent, times>>
       ELSE /\ recent' = recent \cup
                           {[delta |-> d, doc |-> docId[d], re |-> now]}
            /\ times' = [times EXCEPT ![d] = @ + 1]
    /\ Did(d, "attr")
    /\ UNCHANGED <<all, doc, ids, archived, archiveVars, docId, now,
                   resends, begun, refreshed>>

(* Mutant of Updated: an update leaves recorded_at alone.                  *)
UpdatedOnly(row, d) == [row EXCEPT !.updated = d.up, !.destroyed = Null]

(* DocRecs.update: an update that is later than those before also moves    *)
(* recorded_at.                                                            *)
Updated(row, d) == [row EXCEPT !.updated = d.up, !.destroyed = Null,
                               !.re = now]

IsLater(row, d) == /\ row.updated = Null \/ row.updated < d.up
                   /\ row.destroyed = Null \/ row.destroyed < d.up
IsLatest(row, d) == row.updated = Null \/ row.updated <= d.up

UpdateDoc(d) ==
    /\ "doc" \in todo[d] /\ "attr" \notin todo[d]
    /\ ~d.del
    /\ IF doc # Null /\ doc.id = docId[d]
       THEN /\ doc' = CASE IsLater(doc, d) -> Updated(doc, d)
                        [] ~IsLater(doc, d) /\ IsLatest(doc, d) ->
                             [doc EXCEPT !.updated = d.up]
                        [] OTHER -> doc
            /\ refreshed' = IF IsLater(doc, d) THEN refreshed \cup {d}
                            ELSE refreshed
       ELSE UNCHANGED <<doc, refreshed>>
    /\ Did(d, "doc")
    /\ UNCHANGED <<all, recent, ids, archived, archiveVars, docId, now,
                   resends, begun, times>>

(* DocRecs.setDestroyedAt leaves recorded_at alone.                        *)
DestroyDoc(d) ==
    /\ "doc" \in todo[d] /\ "attr" \notin todo[d]
    /\ d.del
    /\ doc' = IF /\ doc # Null /\ doc.id = docId[d]
                 /\ doc.updated # Null /\ doc.updated <= d.up
                 /\ doc.destroyed = Null \/ doc.destroyed <= d.up
              THEN [doc EXCEPT !.destroyed = d.up]
              ELSE doc
    /\ Did(d, "doc")
    /\ UNCHANGED <<all, recent, ids, archived, archiveVars, docId, now,
                   resends, begun, refreshed, times>>

(* Another server, which has got d from here, sends it back.               *)
Resend(d) ==
    /\ resends > 0 /\ todo[d] = {}
    /\ todo' = [todo EXCEPT ![d] = {"get"}]
    /\ resends' = resends - 1
    /\ UNCHANGED <<dbVars, archiveVars, docId, now, begun, refreshed, times>>

-----------------------------------------------------------------------------
(* archive(before): the first statement.  That one archive runs at a time  *)
(* and that their times, which are not in the future, go forward is up to  *)
(* the caller ("Get current time", NOTES.md:21).                           *)
ArchiveAttrs(before) ==
    /\ archives > 0 /\ archive.pc = "idle"
    /\ archived < before /\ before <= now
    /\ recent' = {r \in recent : r.re >= before}
    /\ archive' = [pc |-> "docs", before |-> before]
    /\ archives' = archives - 1
    /\ cut' = IF cut < before THEN before ELSE cut
    /\ UNCHANGED <<all, doc, ids, archived, jobVars, now, resends>>

ArchiveDocs ==
    /\ archive.pc = "docs"
    /\ doc' = IF doc # Null /\ doc.re < archive.before THEN Null ELSE doc
    /\ archive' = [archive EXCEPT !.pc = "set"]
    /\ UNCHANGED <<all, recent, ids, archived, jobVars, now, archives, cut,
                   resends>>

(* globals.set: the third.                                                 *)
SetArchived ==
    /\ archive.pc = "set"
    /\ archived' = archive.before
    /\ archive' = Idle
    /\ UNCHANGED <<all, recent, doc, ids, jobVars, now, archives, cut,
                   resends>>

(* The process dies in the middle of archive().                            *)
ArchiveDies ==
    /\ archive.pc # "idle"
    /\ archive' = Idle
    /\ UNCHANGED <<dbVars, jobVars, now, archives, cut, resends>>

-----------------------------------------------------------------------------
(* Changes._pageOfChanges with history: what a server gets that has asked  *)
(* last at time t.  The query joins attributes with documents, so that an  *)
(* attribute whose document is gone is not in the feed.                    *)
FromRecent(t) == {r.delta : r \in {s \in recent : /\ s.re >= t
                                                  /\ doc # Null
                                                  /\ s.doc = doc.id}}
FromAll(t) == {d \in Deltas : all[d] # Null /\ all[d] >= t}
Feed(t) == IF t > archived THEN FromRecent(t) ELSE FromAll(t)

ProcessStep(d) == \/ GetDoc(d) \/ RecordAll(d) \/ RecordRecent(d)
                  \/ UpdateDoc(d) \/ DestroyDoc(d)
Next == \/ Tick
        \/ \E d \in Deltas : ProcessStep(d) \/ Resend(d)
        \/ \E before \in 1..MaxTime : ArchiveAttrs(before)
        \/ ArchiveDocs \/ SetArchived \/ ArchiveDies

Spec == Init /\ [][Next]_vars

-----------------------------------------------------------------------------
Times == 0..MaxTime
TypeOK ==
    /\ all \in [Deltas -> Times \cup {Null}]
    /\ recent \subseteq [delta : Deltas, doc : 1..ids, re : 1..now]
    /\ doc # Null => doc \in DocRow /\ doc.id \in 1..ids /\ doc.re \in 1..now
    /\ archived <= cut /\ cut <= now
    /\ archive.pc \in {"idle", "docs", "set"} /\ archive.before \in 0..cut
    /\ todo \in [Deltas -> SUBSET {"get", "all", "attr", "doc"}]
    /\ \A d \in Deltas :
         /\ docId[d] \in 0..ids
         /\ begun[d] # Null => docId[d] \in 1..ids
         /\ "attr" \in todo[d] => "doc" \in todo[d] /\ begun[d] # Null
    /\ refreshed \subseteq Deltas
    /\ archives \in 0..Archives /\ resends \in 0..Resends

(* The times for which RECENT has been emptied but the stored time does    *)
(* not say so: while archive() runs, and for good if it dies.              *)
Hole(t) == archived < t /\ t < cut

(* A server that has asked last at time t is given every delta whose       *)
(* processing began at t or later and is over, from RECENT or from ALL as  *)
(* the archived time says, whatever was archived before or is archived     *)
(* meanwhile (changes.js:64-85, archive.js:10-23): the deltas that have    *)
(* moved the document's recorded_at keep its row, and so themselves, in    *)
(* the feed.                                                               *)
Processed(d, t) == begun[d] # Null /\ begun[d] >= t /\ todo[d] = {}
FeedComplete ==
    \A t \in 1..now : ~Hole(t) =>
       \A d \in refreshed : Processed(d, t) => d \in Feed(t)

(* The same of all deltas: "old docs that haven't been updated in a while  *)
(* can be safely archived" (doc-recs.js:139-141).  This does not hold: the *)
(* rows of deltas that did not move the document's recorded_at may stay    *)
(* without their document.                                                 *)
SafelyArchived ==
    \A t \in 1..now : ~Hole(t) =>
       \A d \in Deltas : Processed(d, t) => d \in Feed(t)

(* "To prevent an infinite recording loop" (attr-rec.js:168): a delta that *)
(* comes back is recorded, and handed out, again only if an archive has    *)
(* removed it or its document in between.  One archive may do both, one    *)
(* after the other, with the delta coming back each time.                  *)
Removals == 2 * (Archives - archives) - (IF archive.pc = "docs" THEN 1 ELSE 0)
LoopBroken == \A d \in Deltas : times[d] <= 1 + Removals
=============================================================================
