-------------------------------- MODULE Sync --------------------------------
(***************************************************************************)
(* Clients that share a document through a server.  DB.sync of the client  *)
(* (scripts/client/db.js:192-211) queues the client's changes, notes the   *)
(* time, asks for what was recorded since the time noted by the sync       *)
(* before, and applies it.  Server processes take deltas from the queue    *)
(* and write LATEST; the time a record carries (recorded_at) is taken in   *)
(* JavaScript before its SQL statement runs (attr-rec.js:50-68).  All of   *)
(* these run concurrently: each action is one call or one statement.       *)
(*                                                                         *)
(* The clients are those of ClientState.  The document is not deleted here *)
(* (ClientDoc and DocLifecycle do that), everything is permitted and all   *)
(* deltas have a quorum.  Clients and server share one clock.              *)
(***************************************************************************)
EXTENDS ClientState, FiniteSets

CONSTANTS Clients,
          Workers,     \* concurrent chains that process one delta each
          Limit,       \* the most changes one call returns (_MAX_LIMIT)
          MaxTime,     \* bound: the last millisecond of the model
          Edits,       \* bound: edits by all users together
          Failures     \* bound: syncs and deltas that are cut short, and
                       \* clients that are closed

ASSUME SyncAssumption ==
    /\ Limit \in Nat \ {0} /\ MaxTime \in Nat \ {0}
    /\ Edits \in Nat /\ Failures \in Nat
    /\ NoRow \notin [val : Vals, up : Nat, seq : Nat, re : Nat, at : Nat]

VARIABLES client,     \* client[c]: the document in the memory of client c
          store,      \* store[c]: the document in its store
          since,      \* since[c]: the persisted time of the last sync
          sync,       \* sync[c]: where DB.sync is, the time it has noted and
                      \* the changes it has not applied yet
          queue,      \* the deltas in the queue
          worker,     \* worker[w]: where the worker is, its delta and the
                      \* recorded_at it will write
          srv,        \* srv[n]: the row of n in LATEST and, as history, the
                      \* time it was committed (at)
          now, edits, failures,
          made        \* history: every change a user made

Times == 1..MaxTime
Seqs  == 0..(Edits - 1)

vars == <<client, store, since, sync, queue, worker, srv, now, edits, failures, made>>
clientVars == <<client, store, since, sync>>
serverVars == <<queue, worker, srv>>

Idle == [pc |-> "idle", newSince |-> Null, pulled |-> {}]
Free == [pc |-> "idle", delta |-> NoRow, re |-> Null]

Init == /\ client = [c \in Clients |-> EmptyDoc]
        /\ store = client
        /\ since = [c \in Clients |-> Null]
        /\ sync = [c \in Clients |-> Idle]
        /\ queue = {}
        /\ worker = [w \in Workers |-> Free]
        /\ srv = [n \in Names |-> NoRow]
        /\ now = 1 /\ edits = Edits /\ failures = Failures
        /\ made = {}

Tick == /\ now < MaxTime
        /\ now' = now + 1
        /\ UNCHANGED <<clientVars, serverVars, edits, failures, made>>

(* The user sets an attribute, or unsets it, and it is saved.              *)
Edit(c, n, v) ==
    /\ edits > 0
    /\ client' = [client EXCEPT ![c] = SetLocal(@, n, v, now)]
    /\ store' = [store EXCEPT ![c] = client'[c]]
    /\ made' = made \cup (client'[c].changes \ client[c].changes)
    /\ edits' = edits - 1
    /\ UNCHANGED <<since, sync, serverVars, now, failures>>

-----------------------------------------------------------------------------
(* Doc._localChanges.  DB.sync passes self._retryAfter, which is undefined *)
(* (the field is _retryAfterSecs), so the retry window is 0 and every      *)
(* unconfirmed change is sent by every sync.                               *)
LocalChanges(cd) == cd.changes

SendChanges(c) ==
    /\ sync[c].pc = "idle"
    /\ queue' = queue \cup LocalChanges(client[c])
    /\ sync' = [sync EXCEPT ![c].pc = "sent"]
    /\ UNCHANGED <<client, store, since, worker, srv, now, edits, failures, made>>

(* newSince = new Date(), after the queueing and before the query.         *)
NoteTime(c) ==
    /\ sync[c].pc = "sent"
    /\ sync' = [sync EXCEPT ![c] = [pc |-> "noted", newSince |-> now,
                                     pulled |-> {}]]
    /\ UNCHANGED <<client, store, since, serverVars, now, edits, failures, made>>

(* Mutant of Recent: the time of the last sync is excluded.                *)
RecentAfter(t) == {n \in Names : srv[n] # NoRow /\ (t = Null \/ srv[n].re > t)}

(* Changes.changes: the rows recorded at or after since, at most Limit of  *)
(* them.  There is no ORDER BY, and the feed does not carry seq.  Of the   *)
(* marker "more" that follows a full page DB.sync makes nothing.           *)
Recent(t) == {n \in Names : srv[n] # NoRow /\ (t = Null \/ srv[n].re >= t)}
Pages(t) == {N \in SUBSET Recent(t) :
               \/ N = Recent(t) /\ Cardinality(N) <= Limit
               \/ Cardinality(N) = Limit}
FeedRow(n) == [name |-> n, val |-> srv[n].val, up |-> srv[n].up]

Pull(c) ==
    /\ sync[c].pc = "noted"
    /\ \E N \in Pages(since[c]) :
         sync' = [sync EXCEPT ![c] = [pc |-> "pulled", newSince |-> @.newSince,
                                      pulled |-> {FeedRow(n) : n \in N}]]
    /\ UNCHANGED <<client, store, since, serverVars, now, edits, failures, made>>

Apply(c, ch) ==
    /\ sync[c].pc = "pulled"
    /\ client' = [client EXCEPT ![c] = Received(@, ch)]
    /\ store' = [store EXCEPT ![c] = Saved(client[c], @, ch)]
    /\ sync' = [sync EXCEPT ![c].pulled = @ \ {ch}]
    /\ UNCHANGED <<since, serverVars, now, edits, failures, made>>

Finish(c) ==
    /\ sync[c].pc = "pulled" /\ sync[c].pulled = {}
    /\ since' = [since EXCEPT ![c] = sync[c].newSince]
    /\ sync' = [sync EXCEPT ![c] = Idle]
    /\ UNCHANGED <<client, store, serverVars, now, edits, failures, made>>

(* The sync is cut short by the network: what was queued stays queued,     *)
(* since is not advanced.                                                  *)
Abort(c) ==
    /\ failures > 0 /\ sync[c].pc # "idle"
    /\ sync' = [sync EXCEPT ![c] = Idle]
    /\ failures' = failures - 1
    /\ UNCHANGED <<client, store, since, serverVars, now, edits, made>>

(* The application is closed, at any time, and opened again: the document  *)
(* and since are those of the stores, a sync that was under way is gone    *)
(* (_initStore of Adapter, DB, Collection and Doc).                        *)
Restart(c) ==
    /\ failures > 0
    /\ client' = [client EXCEPT ![c] = store[c]]
    /\ sync' = [sync EXCEPT ![c] = Idle]
    /\ failures' = failures - 1
    /\ UNCHANGED <<store, since, serverVars, now, edits, made>>

-----------------------------------------------------------------------------
(* A worker takes a delta of the batch it has read and computes the row,   *)
(* recorded_at included.                                                   *)
Stamp(w, d) ==
    /\ worker[w].pc = "idle"
    /\ worker' = [worker EXCEPT ![w] = [pc |-> "write", delta |-> d,
                                        re |-> now]]
    /\ UNCHANGED <<clientVars, queue, srv, now, edits, failures, made>>

(* AttrRec.replace: insert or qualified update (see AttrStore).            *)
Put(row, d, re) ==
    IF row = NoRow \/ Replaces(d, row)
    THEN [val |-> d.val, up |-> d.up, seq |-> d.seq, re |-> re, at |-> now]
    ELSE row

Write(w) ==
    /\ worker[w].pc = "write"
    /\ srv' = [srv EXCEPT ![worker[w].delta.name] =
                 Put(@, worker[w].delta, worker[w].re)]
    /\ worker' = [worker EXCEPT ![w].pc = "dequeue"]
    /\ UNCHANGED <<clientVars, queue, now, edits, failures, made>>

Dequeue(w) ==
    /\ worker[w].pc = "dequeue"
    /\ queue' = queue \ {worker[w].delta}
    /\ worker' = [worker EXCEPT ![w] = Free]
    /\ UNCHANGED <<clientVars, srv, now, edits, failures, made>>

(* The process dies between two statements; the delta is still queued.     *)
Crash(w) ==
    /\ failures > 0 /\ worker[w].pc # "idle"
    /\ worker' = [worker EXCEPT ![w] = Free]
    /\ failures' = failures - 1
    /\ UNCHANGED <<clientVars, queue, srv, now, edits, made>>

-----------------------------------------------------------------------------
SyncStep(c) == \/ SendChanges(c) \/ NoteTime(c) \/ Pull(c)
               \/ \E ch \in sync[c].pulled : Apply(c, ch)
               \/ Finish(c)
WorkStep(w) == \/ \E d \in queue : Stamp(w, d)
               \/ Write(w) \/ Dequeue(w)

Next == \/ Tick
        \/ \E c \in Clients, n \in Names, v \in Values \cup {Null} :
              Edit(c, n, v)
        \/ \E c \in Clients : SyncStep(c) \/ Abort(c) \/ Restart(c)
        \/ \E w \in Workers : WorkStep(w) \/ Crash(w)

Spec == Init /\ [][Next]_vars

(* Clients sync again and again and the servers process again and again    *)
(* (test/e2e does both in a loop); users need not edit, nothing has to     *)
(* fail, and a queued delta is not overlooked for ever.                    *)
Fairness ==
    /\ \A c \in Clients : WF_vars(SyncStep(c))
    /\ \A w \in Workers : WF_vars(Write(w)) /\ WF_vars(Dequeue(w))
    /\ \A w \in Workers, n \in Names, v \in Values \cup {Null},
          t \in Times, s \in Seqs :
         LET d == [name |-> n, val |-> v, up |-> t, seq |-> s]
         IN  SF_vars(d \in queue /\ Stamp(w, d))
    /\ WF_vars(Tick)

FairSpec == Spec /\ Fairness

-----------------------------------------------------------------------------
Stamps == Times \cup {Null}
Deltas == [name : Names, val : Vals, up : Times, seq : Seqs]
Feed  == [name : Names, val : Vals, up : Times]

(* Document, within the bounds.                                            *)
Bounded == [latest    : [Names -> [val : Vals, up : Times, seq : Seqs]
                                  \cup {NoRow}],
            changes   : SUBSET Deltas,
            destroyed : {Null},
            updated   : Stamps]

TypeOK ==
    /\ \A c \in Clients :
         /\ client[c] \in Bounded /\ store[c] \in Bounded
         /\ since[c] \in Stamps
         /\ sync[c].pc \in {"idle", "sent", "noted", "pulled"}
         /\ sync[c].newSince \in Stamps
         /\ sync[c].newSince = Null <=> sync[c].pc \in {"idle", "sent"}
         /\ sync[c].pulled \subseteq Feed
    /\ queue \subseteq Deltas /\ made \subseteq Deltas
    /\ \A w \in Workers :
         \/ worker[w] = Free
         \/ worker[w] \in [pc : {"write", "dequeue"}, delta : Deltas, re : Times]
    /\ srv \in [Names -> [val : Vals, up : Times, seq : Seqs,
                          re : Times, at : Times] \cup {NoRow}]
    /\ now \in Times /\ edits \in 0..Edits /\ failures \in 0..Failures

Covered(d) == srv[d.name] # NoRow /\ TsvLeq(d, srv[d.name])

(* No edit is lost: until the server has it, or a later one, the client    *)
(* that made it keeps it, whatever is cut short and however late the row   *)
(* of another client comes back (Doc._record, client/doc.js:184-216;       *)
(* "retry and keep retrying", NOTES.md:267-270).                           *)
NoEditLost ==
    \A d \in made : Covered(d) \/ \E c \in Clients : d \in client[c].changes

(* What client c knows of n is as recent as the row of the server.         *)
UpToDate(c, n) == /\ client[c].latest[n] # NoRow
                  /\ client[c].latest[n].up >= srv[n].up

(* A client that will not ask for a row again (it was recorded before the  *)
(* time the client persisted) has applied it, if the row was committed in  *)
(* the millisecond it was stamped with: newSince is taken before the query *)
(* and recorded_at >= since is inclusive (db.js:192-211,                   *)
(* changes-query.js:140-143).                                              *)
Skipped(c, n) == /\ srv[n] # NoRow /\ since[c] # Null
                 /\ srv[n].re < since[c]
                 /\ ~UpToDate(c, n)
OnTime(n) == srv[n].at = srv[n].re
OnTimeNotSkipped ==
    \A c \in Clients, n \in Names : Skipped(c, n) => ~OnTime(n)

(* The same of every row: "pull all changes from LATEST with recorded_at   *)
(* after or on last syncd" (changes.js:58-63) is meant to be all there is. *)
NothingSkipped == \A c \in Clients, n \in Names : ~Skipped(c, n)

(* Once the users rest, the server has every edit or a later one, however  *)
(* many syncs and processes were cut short before (NOTES.md:267-270).      *)
EditsReachServer == <>[](\A d \in made : Covered(d))

(* The client of the winning edit is told so: though the row may have been *)
(* committed too late to be pulled, the change is sent again, an equal     *)
(* record replaces the row (<= in attr-rec.js:141-147) and so gets a new   *)
(* recorded_at.  Not for an unset: a stored NULL is never replaced by its  *)
(* equal.                                                                  *)
Wins(d) == /\ d.seq = 0 /\ d.val # Null
           /\ \A e \in made : e.name = d.name => TsvLeq(e, d)
WinnersConfirmed ==
    \A c \in Clients :
       []<>(\A d \in client[c].changes : ~Wins(d))
=============================================================================
