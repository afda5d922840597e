----------------------------- MODULE SyncProofs -----------------------------
(***************************************************************************)
(* Machine-checked theorems about Sync, for any clients, workers,          *)
(* attributes, values, edits, failures and milliseconds.                   *)
(***************************************************************************)
EXTENDS Sync, FiniteSetTheorems, TLAPS

(***************************************************************************)
(* What the operators of ClientState do to a document, for any attributes  *)
(* and values.  ClientDocProofs has the same lemmas.                       *)
(***************************************************************************)

LEMMA Constants ==
    /\ Tomb \notin Names /\ NoRow \notin Shown /\ Null \notin Nat
    /\ \A v \in Vals : Sent(v) \in Vals
    /\ \A ch \in Arrived : /\ ch.name \in Columns /\ ch.val \in Vals
                           /\ ch.up \in Nat
                           /\ ch.name # Tomb => ch.name \in Names
BY ClientStateAssumption, TsvAssumption DEF Sent, Vals, Columns, Arrived

LEMMA RowTyped ==
    ASSUME NEW d \in Document, NEW n \in Names, NEW v \in Vals, NEW t \in Nat
    PROVE  /\ RowOf(d, n, v, t) \in Shown
           /\ RowOf(d, n, v, t) # NoRow
           /\ ToSend(d, n, v, t) \in Change
<1>1. d.latest[n] \in Shown \cup {NoRow}
  BY DEF Document
<1>2. NextSeq(d, n, t) \in Nat
  BY <1>1 DEF NextSeq, Shown
<1>3. RowOf(d, n, v, t) \in Shown
  BY <1>2 DEF Shown, RowOf
<1>4. ToSend(d, n, v, t) \in Change
  BY <1>2, Constants DEF Change, Columns, ToSend
<1> QED
  BY <1>3, <1>4, Constants

(* One attribute is changed to what is shown from then on; nothing else    *)
(* that is shown moves.                                                    *)
LEMMA ChangedShows ==
    ASSUME NEW d \in Document, NEW n \in Names, NEW v \in Vals, NEW t \in Nat,
           NEW C \in SUBSET Change
    PROVE  /\ Changed(d, n, v, t, C) \in Document
           /\ Changed(d, n, v, t, C).changes = C
           /\ Changed(d, n, v, t, C).latest
                = [d.latest EXCEPT ![n] = RowOf(d, n, v, t)]
<1> DEFINE L == [d.latest EXCEPT ![n] = RowOf(d, n, v, t)]
<1>1. /\ d.latest \in [Names -> Shown \cup {NoRow}]
      /\ d.destroyed \in Nat \cup {Null} /\ d.updated \in Nat \cup {Null}
  BY DEF Document
<1>2. Revived(d, t) \in Nat \cup {Null}
  BY <1>1 DEF Revived
<1>3. L \in [Names -> Shown \cup {NoRow}]
  BY <1>1, RowTyped
<1> QED
  BY <1>1, <1>2, <1>3 DEF Document, Changed

(* What arrives forgets changes, and touches nothing that is shown.        *)
LEMMA RecordedShows ==
    ASSUME NEW d \in Document, NEW ch \in Arrived
    PROVE  /\ Recorded(d, ch) \in Document
           /\ Recorded(d, ch).latest = d.latest
           /\ Recorded(d, ch).changes
                = {c \in d.changes : ~Confirms(ch, c)}
<1> DEFINE C == {c \in d.changes : ~Confirms(ch, c)}
           D == IF ch.name = Tomb /\ (d.updated = Null \/ ch.up >= d.updated)
                THEN ch.up ELSE d.destroyed
<1>1. Recorded(d, ch) = [latest |-> d.latest, changes |-> C,
                         destroyed |-> D, updated |-> d.updated]
  BY DEF Recorded
<1>2. C \subseteq Change /\ D \in Nat \cup {Null}
  BY Constants DEF Document
<1> HIDE DEF C, D
<1>3. Recorded(d, ch) \in Document
  BY <1>1, <1>2 DEF Document
<1> QED
  BY <1>1, <1>3 DEF C

LEMMA MovedShows ==
    ASSUME NEW d \in Document, NEW ch, ch.up \in Nat
    PROVE  /\ Moved(d, ch) \in Document
           /\ Moved(d, ch).latest = d.latest
           /\ Moved(d, ch).changes = d.changes
<1> DEFINE e == [d EXCEPT !.updated = ch.up]
<1>1. d = [latest |-> d.latest, changes |-> d.changes,
           destroyed |-> d.destroyed, updated |-> d.updated]
  BY DEF Document
<1>2. e = [latest |-> d.latest, changes |-> d.changes,
           destroyed |-> d.destroyed, updated |-> ch.up]
  BY <1>1
<1>3. Moved(d, ch) = d \/ Moved(d, ch) = e
  BY DEF Moved
<1> HIDE DEF e
<1>4. e \in Document
  BY <1>2 DEF Document
<1> QED
  BY <1>2, <1>3, <1>4

(* News put one attribute, or none, to the time of the change.             *)
LEMMA AppliedShows ==
    ASSUME NEW d \in Document, NEW ch \in Arrived
    PROVE  /\ Applied(d, ch) \in Document
           /\ Applied(d, ch).changes = d.changes
           /\ ch.name = Tomb => Applied(d, ch).latest = d.latest
           /\ ch.name # Tomb =>
                \E row \in Shown :
                   /\ row # NoRow /\ row.up = ch.up
                   /\ Applied(d, ch).latest = [d.latest EXCEPT ![ch.name] = row]
<1>1. CASE ch.name = Tomb
  <2>1. d = [latest |-> d.latest, changes |-> d.changes,
             destroyed |-> d.destroyed, updated |-> d.updated]
    BY DEF Document
  <2>2. Applied(d, ch) = [latest |-> d.latest, changes |-> d.changes,
                          destroyed |-> ch.up, updated |-> d.updated]
    BY <1>1, <2>1 DEF Applied
  <2> QED
    BY <1>1, <2>2, Constants DEF Document
<1>2. CASE ch.name # Tomb
  <2> DEFINE e == Changed(d, ch.name, ch.val, ch.up, d.changes)
             row == RowOf(d, ch.name, ch.val, ch.up)
  <2>1. /\ e \in Document /\ row \in Shown /\ row # NoRow
        /\ e.latest = [d.latest EXCEPT ![ch.name] = row]
        /\ e.changes = d.changes
    <3>1. d.changes \in SUBSET Change
      BY DEF Document
    <3> QED
      BY <1>2, <3>1, Constants, RowTyped, ChangedShows
  <2>2. /\ Moved(e, ch) \in Document
        /\ Moved(e, ch).latest = e.latest
        /\ Moved(e, ch).changes = e.changes
    BY <1>2, <2>1, Constants, MovedShows
  <2>3. Applied(d, ch) = Moved(e, ch)
    BY <1>2 DEF Applied
  <2> QED
    BY <1>2, <2>1, <2>2, <2>3 DEF RowOf
<1> QED
  BY <1>1, <1>2

(* What the argument needs to know of the types; the bounds of TypeOK do   *)
(* not matter.                                                             *)
SrvRow == [val : Vals, up : Nat, seq : Nat, re : Nat, at : Nat]
Edited == [name : Names, val : Vals, up : Nat, seq : Nat]
Pulled == [name : Names, val : Vals, up : Nat]
Busy   == [pc : {"write", "dequeue"}, delta : Edited, re : Nat]

Typed ==
    /\ client \in [Clients -> Document] /\ store \in [Clients -> Document]
    /\ \A c \in Clients : client[c].changes \cup store[c].changes
                            \subseteq Edited
    /\ sync \in [Clients -> [pc : {"idle", "sent", "noted", "pulled"},
                             newSince : Nat \cup {Null},
                             pulled : SUBSET Pulled]]
    /\ queue \subseteq Edited /\ made \subseteq Edited
    /\ worker \in [Workers -> Busy \cup {Free}]
    /\ srv \in [Names -> SrvRow \cup {NoRow}]
    /\ now \in Nat

(* The row of the server is at least as late as what a sync has pulled.    *)
PulledIsCovered ==
    \A c \in Clients : \A ch \in sync[c].pulled :
       /\ srv[ch.name] # NoRow
       /\ \E s \in Nat : TsvLeq([val |-> ch.val, up |-> ch.up, seq |-> s],
                                srv[ch.name])

(* An edit that the server does not have is in the memory and in the store *)
(* of a client: the store lags behind only in what has been confirmed.     *)
StoreLags == \A c \in Clients : client[c].changes \subseteq store[c].changes

IInv == Typed /\ PulledIsCovered /\ StoreLags /\ NoEditLost

-----------------------------------------------------------------------------
(* Tsv is a preorder on rows, and a row is replaced by later ones only     *)
(* (attr-rec.js:130-152).                                                  *)
LEMMA TextType == \A v \in Vals : Text(v) \in Int
BY TsvAssumption DEF Vals, Text

LEMMA TsvTransitive ==
    ASSUME NEW a, NEW b, NEW c,
           a.val \in Vals, b.val \in Vals, c.val \in Vals,
           a.up \in Nat, b.up \in Nat, c.up \in Nat,
           a.seq \in Nat, b.seq \in Nat, c.seq \in Nat,
           TsvLeq(a, b), TsvLeq(b, c)
    PROVE  TsvLeq(a, c)
BY TextType DEF TsvLeq

LEMMA PutAdvances ==
    ASSUME NEW row \in SrvRow, NEW d \in Edited, NEW re \in Nat, now \in Nat
    PROVE  TsvLeq(row, Put(row, d, re)) /\ Put(row, d, re) \in SrvRow
<1>1. /\ row.val \in Vals /\ row.up \in Nat /\ row.seq \in Nat
      /\ d.val \in Vals /\ d.up \in Nat /\ d.seq \in Nat
  BY DEF SrvRow, Edited
<1>2. Text(row.val) \in Int /\ Text(d.val) \in Int
  BY <1>1, TextType
<1>3. CASE Replaces(d, row)
  <2>1. Put(row, d, re) = [val |-> d.val, up |-> d.up, seq |-> d.seq,
                           re |-> re, at |-> now]
    BY <1>3 DEF Put
  <2>2. TsvLeq(row, d)
    BY <1>1, <1>2, <1>3 DEF Replaces, TsvLeq, Text
  <2> QED
    BY <1>1, <2>1, <2>2 DEF TsvLeq, SrvRow
<1>4. CASE ~Replaces(d, row)
  <2>1. Put(row, d, re) = row
    BY <1>4, SyncAssumption DEF Put, SrvRow
  <2> QED
    BY <1>1, <1>2, <2>1 DEF TsvLeq
<1> QED
  BY <1>3, <1>4

-----------------------------------------------------------------------------
LEMMA EditKeeps ==
    ASSUME Typed, NEW c \in Clients, NEW n \in Names, NEW v \in Vals,
           Edit(c, n, v)
    PROVE  /\ client'[c] \in Document
           /\ client' = [client EXCEPT ![c] = client'[c]]
           /\ store' = [store EXCEPT ![c] = client'[c]]
           /\ client'[c].changes
                = client[c].changes \cup {ToSend(client[c], n, v, now)}
           /\ ToSend(client[c], n, v, now) \in Edited
<1> DEFINE chg == ToSend(client[c], n, v, now)
<1>1. /\ client[c] \in Document /\ now \in Nat
      /\ client[c].changes \subseteq Change
  BY DEF Typed, Document
<1>2. chg \in Change
  BY <1>1, RowTyped
<1>3. chg.name = n /\ chg \in [name : Columns, val : Vals, up : Nat, seq : Nat]
  BY <1>2 DEF ToSend, Change
<1>4. client'[c] = Changed(client[c], n, v, now, client[c].changes \cup {chg})
  BY DEF Edit, Typed, SetLocal
<1> HIDE DEF chg
<1> DEFINE C == client[c].changes \cup {chg}
<1>5. C \in SUBSET Change
  BY <1>1, <1>2
<1>6. chg \in Edited
  BY <1>3 DEF Edited
<1> HIDE DEF C
<1>7. client'[c] \in Document /\ client'[c].changes = C
  <2>1. client'[c] = Changed(client[c], n, v, now, C)
    BY <1>4 DEF C
  <2>2. /\ Changed(client[c], n, v, now, C) \in Document
        /\ Changed(client[c], n, v, now, C).changes = C
    <3>1. Changed(client[c], n, v, now, C) \in Document
      BY <1>1, <1>5, ChangedShows
    <3>2. Changed(client[c], n, v, now, C).changes = C
      BY DEF Changed
    <3> QED
      BY <3>1, <3>2
  <2> QED
    BY <2>1, <2>2
<1> QED
  BY <1>6, <1>7 DEF Edit, Typed, chg, C

LEMMA ApplyKeeps ==
    ASSUME Typed, NEW c \in Clients, NEW ch \in sync[c].pulled, Apply(c, ch)
    PROVE  /\ ch \in Pulled
           /\ client'[c] \in Document /\ store'[c] \in Document
           /\ client' = [client EXCEPT ![c] = client'[c]]
           /\ store' = [store EXCEPT ![c] = store'[c]]
           /\ client'[c].changes
                = {d \in client[c].changes : ~Confirms(ch, d)}
           /\ store'[c].changes \in {client[c].changes, store[c].changes}
<1> DEFINE new == IF IsNews(client[c], ch) THEN Applied(client[c], ch)
                  ELSE client[c]
<1>1. client[c] \in Document /\ store[c] \in Document /\ ch \in Pulled
  BY DEF Typed
<1>2. ch \in Arrived
  BY <1>1 DEF Pulled, Arrived, Columns
<1>3. new \in Document /\ new.changes = client[c].changes
  BY <1>1, <1>2, AppliedShows
<1>4. /\ client'[c] = Recorded(new, ch)
      /\ store'[c] = IF IsNews(client[c], ch) THEN new ELSE store[c]
      /\ client' = [client EXCEPT ![c] = client'[c]]
      /\ store' = [store EXCEPT ![c] = store'[c]]
  BY DEF Apply, Received, Saved, Typed
<1> HIDE DEF new
<1> QED
  BY <1>1, <1>2, <1>3, <1>4, RecordedShows

LEMMA WriteAdvances ==
    ASSUME Typed, NEW b \in Busy, NEW n \in Names
    PROVE  /\ Put(srv[n], b.delta, b.re) \in SrvRow
           /\ srv[n] # NoRow => TsvLeq(srv[n], Put(srv[n], b.delta, b.re))
<1>1. b.delta \in Edited /\ b.re \in Nat /\ now \in Nat
  BY DEF Busy, Typed
<1>2. CASE srv[n] # NoRow
  BY <1>1, <1>2, PutAdvances DEF Typed
<1>3. CASE srv[n] = NoRow
  BY <1>1, <1>3 DEF Put, SrvRow, Edited
<1> QED
  BY <1>2, <1>3

LEMMA TypedStep ==
    ASSUME Typed, [Next]_vars PROVE Typed'
<1> USE DEF Typed
<1>1. ASSUME NEW c \in Clients, NEW n \in Names, NEW v \in Vals, Edit(c, n, v)
      PROVE  Typed'
  <2> DEFINE e == client'[c]
             chg == ToSend(client[c], n, v, now)
  <2>1. /\ e \in Document /\ chg \in Edited
        /\ e.changes = client[c].changes \cup {chg}
        /\ client' = [client EXCEPT ![c] = e]
        /\ store' = [store EXCEPT ![c] = e]
    BY <1>1, EditKeeps
  <2>2. /\ made' = made \cup (e.changes \ client[c].changes)
        /\ UNCHANGED <<sync, queue, worker, srv, now>>
    BY <1>1 DEF Edit, serverVars
  <2> HIDE DEF e, chg
  <2>3. e.changes \subseteq Edited
    BY <2>1
  <2>4. \A b \in Clients : client'[b].changes \cup store'[b].changes
                            \subseteq Edited
    BY <2>1, <2>3
  <2> QED
    BY <2>1, <2>2, <2>3, <2>4
<1>2. ASSUME NEW c \in Clients, NEW ch \in sync[c].pulled, Apply(c, ch)
      PROVE  Typed'
  <2> DEFINE e == client'[c]
             k == store'[c]
  <2>1. /\ e \in Document /\ k \in Document
        /\ client' = [client EXCEPT ![c] = e]
        /\ store' = [store EXCEPT ![c] = k]
        /\ e.changes \subseteq client[c].changes
        /\ k.changes \in {client[c].changes, store[c].changes}
    BY <1>2, ApplyKeeps
  <2>2. /\ sync' = [sync EXCEPT ![c].pulled = @ \ {ch}]
        /\ UNCHANGED <<queue, worker, srv, now, made>>
    BY <1>2 DEF Apply, serverVars
  <2> HIDE DEF e, k
  <2>3. \A b \in Clients : client'[b].changes \cup store'[b].changes
                            \subseteq Edited
    BY <2>1
  <2> QED
    BY <2>1, <2>2, <2>3
<1>3. ASSUME NEW c \in Clients, SendChanges(c) PROVE Typed'
  BY <1>3 DEF SendChanges, LocalChanges
<1>4. ASSUME NEW c \in Clients, NoteTime(c) PROVE Typed'
  BY <1>4 DEF NoteTime, serverVars
<1>5. ASSUME NEW c \in Clients, Pull(c) PROVE Typed'
  <2>1. PICK N \in Pages(since[c]) :
          sync' = [sync EXCEPT ![c] = [pc |-> "pulled", newSince |-> @.newSince,
                                       pulled |-> {FeedRow(n) : n \in N}]]
    BY <1>5 DEF Pull
  <2> DEFINE P == {FeedRow(n) : n \in N}
  <2>2. P \in SUBSET Pulled
    BY DEF Pages, Recent, FeedRow, Pulled, SrvRow
  <2>3. UNCHANGED <<client, store, queue, worker, srv, now, made>>
    BY <1>5 DEF Pull, serverVars
  <2> HIDE DEF P
  <2> QED
    BY <2>1, <2>2, <2>3 DEF P
<1>6. ASSUME NEW c \in Clients, Finish(c) PROVE Typed'
  BY <1>6 DEF Finish, serverVars, Idle
<1>7. ASSUME NEW c \in Clients, Abort(c) PROVE Typed'
  BY <1>7 DEF Abort, serverVars, Idle
<1>8. ASSUME NEW c \in Clients, Restart(c) PROVE Typed'
  BY <1>8 DEF Restart, serverVars, Idle
<1>9. ASSUME NEW w \in Workers, NEW d \in queue, Stamp(w, d) PROVE Typed'
  BY <1>9 DEF Stamp, clientVars, Busy
<1>10. ASSUME NEW w \in Workers, Write(w) PROVE Typed'
  <2> DEFINE n == worker[w].delta.name
             row == Put(srv[n], worker[w].delta, worker[w].re)
  <2>1. worker[w] \in Busy /\ n \in Names
    BY <1>10 DEF Write, Busy, Edited, Free
  <2>2. row \in SrvRow
    BY <2>1, WriteAdvances
  <2>3. /\ srv' = [srv EXCEPT ![n] = row]
        /\ worker' = [worker EXCEPT ![w].pc = "dequeue"]
        /\ UNCHANGED <<client, store, sync, queue, now, made>>
    BY <1>10 DEF Write, clientVars
  <2> HIDE DEF row, n
  <2> QED
    BY <2>1, <2>2, <2>3 DEF Busy
<1>11. ASSUME NEW w \in Workers, Dequeue(w) PROVE Typed'
  BY <1>11 DEF Dequeue, clientVars
<1>12. ASSUME NEW w \in Workers, Crash(w) PROVE Typed'
  BY <1>12 DEF Crash, clientVars
<1>13. CASE Tick
  BY <1>13 DEF Tick, clientVars, serverVars
<1>14. CASE UNCHANGED vars
  BY <1>14 DEF vars
<1> QED
  BY <1>1, <1>2, <1>3, <1>4, <1>5, <1>6, <1>7, <1>8, <1>9, <1>10, <1>11, <1>12,
     <1>13, <1>14 DEF Next, SyncStep, WorkStep, Vals

-----------------------------------------------------------------------------
(* A change that is forgotten is covered: its confirmation has been pulled *)
(* from a row with its value and time, and that row only advances.         *)
LEMMA ConfirmedIsCovered ==
    ASSUME Typed, PulledIsCovered, NEW c \in Clients,
           NEW ch \in sync[c].pulled, NEW d \in Edited, Confirms(ch, d)
    PROVE  Covered(d)
<1>1. /\ d.name = ch.name /\ d.val = ch.val /\ d.up = ch.up /\ d.seq = 0
      /\ d.val \in Vals /\ d.up \in Nat /\ d.name \in Names
  BY DEF Confirms, Edited
<1>2. srv[d.name] # NoRow /\ srv[d.name] \in SrvRow
  BY <1>1 DEF PulledIsCovered, Typed
<1>3. PICK s \in Nat : TsvLeq([val |-> ch.val, up |-> ch.up, seq |-> s],
                              srv[d.name])
  BY <1>1 DEF PulledIsCovered
<1> DEFINE b == [val |-> ch.val, up |-> ch.up, seq |-> s]
<1>4. TsvLeq(d, b)
  BY <1>1, TextType DEF TsvLeq
<1>5. b.val \in Vals /\ b.up \in Nat /\ b.seq \in Nat
  BY <1>1
<1>6. srv[d.name].val \in Vals /\ srv[d.name].up \in Nat
      /\ srv[d.name].seq \in Nat
  BY <1>2 DEF SrvRow
<1>7. TsvLeq(b, srv[d.name])
  BY <1>3
<1> HIDE DEF b
<1>8. TsvLeq(d, srv[d.name])
  BY <1>1, <1>4, <1>5, <1>6, <1>7, TsvTransitive
<1> QED
  BY <1>2, <1>8 DEF Covered

(* What is covered stays covered, whatever a step does.                    *)
SrvAdvances == \A n \in Names : srv[n] # NoRow =>
                  srv'[n] # NoRow /\ TsvLeq(srv[n], srv'[n])

LEMMA SrvStep ==
    ASSUME Typed, [Next]_vars PROVE SrvAdvances
<1>1. ASSUME NEW w \in Workers, Write(w) PROVE SrvAdvances
  <2> DEFINE n == worker[w].delta.name
             row == Put(srv[n], worker[w].delta, worker[w].re)
  <2>1. worker[w] \in Busy /\ n \in Names
    BY <1>1 DEF Write, Busy, Edited, Free, Typed
  <2>2. /\ row \in SrvRow
        /\ srv[n] # NoRow => TsvLeq(srv[n], row)
    BY <2>1, WriteAdvances
  <2>3. srv' = [srv EXCEPT ![n] = row]
    BY <1>1 DEF Write
  <2> HIDE DEF row, n
  <2>4. row # NoRow
    BY <2>2, SyncAssumption DEF SrvRow
  <2>5. ASSUME NEW m \in Names, srv[m] # NoRow PROVE TsvLeq(srv[m], srv[m])
    BY <2>5, TextType DEF Typed, SrvRow, TsvLeq
  <2> QED
    BY <2>1, <2>2, <2>3, <2>4, <2>5 DEF SrvAdvances, Typed
<1>2. CASE srv' = srv
  <2>1. ASSUME NEW m \in Names, srv[m] # NoRow PROVE TsvLeq(srv[m], srv[m])
    BY <2>1, TextType DEF Typed, SrvRow, TsvLeq
  <2> QED
    BY <1>2, <2>1 DEF SrvAdvances
<1> QED
  BY <1>1, <1>2 DEF Next, SyncStep, WorkStep, Tick, Edit, SendChanges, NoteTime,
     Pull, Apply, Finish, Abort, Restart, Stamp, Dequeue, Crash, vars,
     clientVars, serverVars

LEMMA StaysCovered ==
    ASSUME Typed, Typed', SrvAdvances,
           NEW n \in Names, NEW a, a.val \in Vals, a.up \in Nat, a.seq \in Nat,
           srv[n] # NoRow, TsvLeq(a, srv[n])
    PROVE  srv'[n] # NoRow /\ TsvLeq(a, srv'[n])
<1>1. srv'[n] # NoRow /\ TsvLeq(srv[n], srv'[n])
  BY DEF SrvAdvances
<1>2. /\ srv[n].val \in Vals /\ srv[n].up \in Nat /\ srv[n].seq \in Nat
      /\ srv'[n].val \in Vals /\ srv'[n].up \in Nat /\ srv'[n].seq \in Nat
  BY <1>1 DEF Typed, SrvRow
<1> QED
  BY <1>1, <1>2, TsvTransitive

-----------------------------------------------------------------------------
LEMMA PulledStep ==
    ASSUME Typed, Typed', PulledIsCovered, [Next]_vars PROVE PulledIsCovered'
<1>1. SrvAdvances
  BY SrvStep
<1>2. ASSUME NEW c \in Clients, NEW ch \in sync[c].pulled
      PROVE  /\ srv'[ch.name] # NoRow
             /\ \E s \in Nat : TsvLeq([val |-> ch.val, up |-> ch.up, seq |-> s],
                                     srv'[ch.name])
  <2>1. PICK s \in Nat : TsvLeq([val |-> ch.val, up |-> ch.up, seq |-> s],
                                srv[ch.name])
    BY <1>2 DEF PulledIsCovered
  <2> DEFINE b == [val |-> ch.val, up |-> ch.up, seq |-> s]
  <2>2. ch.name \in Names /\ b.val \in Vals /\ b.up \in Nat /\ b.seq \in Nat
    BY <1>2 DEF Typed, Pulled
  <2>3. srv[ch.name] # NoRow /\ TsvLeq(b, srv[ch.name])
    BY <1>2, <2>1 DEF PulledIsCovered
  <2> HIDE DEF b
  <2>4. srv'[ch.name] # NoRow /\ TsvLeq(b, srv'[ch.name])
    BY <1>1, <2>2, <2>3, StaysCovered
  <2> QED
    BY <2>4 DEF b
<1>3. ASSUME NEW c \in Clients, Pull(c), NEW b \in Clients,
             NEW ch \in sync'[b].pulled
      PROVE  /\ srv'[ch.name] # NoRow
             /\ \E s \in Nat : TsvLeq([val |-> ch.val, up |-> ch.up, seq |-> s],
                                     srv'[ch.name])
  <2>1. CASE b # c
    BY <1>2, <1>3, <2>1 DEF Pull, Typed
  <2>2. CASE b = c
    <3>1. PICK n \in Names : srv[n] # NoRow /\ ch = FeedRow(n)
      BY <1>3, <2>2 DEF Pull, Pages, Recent, Typed
    <3>2. srv' = srv /\ srv[n] \in SrvRow
      BY <1>3, <3>1 DEF Pull, serverVars, Typed
    <3>3. ch.name = n /\ ch.val = srv[n].val /\ ch.up = srv[n].up
      BY <3>1 DEF FeedRow
    <3>4. TsvLeq([val |-> ch.val, up |-> ch.up, seq |-> srv[n].seq], srv[n])
      BY <3>2, <3>3, TextType DEF SrvRow, TsvLeq
    <3> QED
      BY <3>1, <3>2, <3>3, <3>4 DEF SrvRow
  <2> QED
    BY <2>1, <2>2
<1>4. ASSUME \A c \in Clients : ~Pull(c)
      PROVE  \A c \in Clients : sync'[c].pulled \subseteq sync[c].pulled
  <2> DEFINE Less == \A c \in Clients : sync'[c].pulled \subseteq sync[c].pulled
  <2>1. ASSUME NEW c \in Clients, SendChanges(c) PROVE Less
    BY <2>1 DEF SendChanges, Typed
  <2>2. ASSUME NEW c \in Clients, NoteTime(c) PROVE Less
    BY <2>2 DEF NoteTime, Typed
  <2>3. ASSUME NEW c \in Clients, NEW ch \in sync[c].pulled, Apply(c, ch)
        PROVE  Less
    BY <2>3 DEF Apply, Typed
  <2>4. ASSUME NEW c \in Clients, Finish(c) \/ Abort(c) \/ Restart(c)
        PROVE  Less
    BY <2>4 DEF Finish, Abort, Restart, Idle, Typed
  <2>5. CASE sync' = sync
    BY <2>5
  <2> QED
    BY <1>4, <2>1, <2>2, <2>3, <2>4, <2>5 DEF Next, SyncStep, WorkStep, Tick,
       Edit, Stamp, Write, Dequeue, Crash, vars, clientVars
<1>5. CASE \E c \in Clients : Pull(c)
  BY <1>3, <1>5 DEF PulledIsCovered
<1>6. CASE \A c \in Clients : ~Pull(c)
  BY <1>2, <1>4, <1>6 DEF PulledIsCovered
<1> QED
  BY <1>5, <1>6

LEMMA LagStep ==
    ASSUME Typed, StoreLags, [Next]_vars PROVE StoreLags'
<1> USE DEF StoreLags
<1>1. ASSUME NEW c \in Clients, NEW n \in Names, NEW v \in Vals, Edit(c, n, v)
      PROVE  StoreLags'
  BY <1>1, EditKeeps DEF Typed
<1>2. ASSUME NEW c \in Clients, NEW ch \in sync[c].pulled, Apply(c, ch)
      PROVE  StoreLags'
  BY <1>2, ApplyKeeps DEF Typed
<1>3. ASSUME NEW c \in Clients, Restart(c) PROVE StoreLags'
  BY <1>3 DEF Restart, Typed
<1>4. CASE UNCHANGED <<client, store>>
  BY <1>4
<1> QED
  BY <1>1, <1>2, <1>3, <1>4 DEF Next, SyncStep, WorkStep, Tick, SendChanges,
     NoteTime, Pull, Finish, Abort, Stamp, Write, Dequeue, Crash, vars,
     clientVars, Vals

LEMMA LostStep ==
    ASSUME IInv, Typed', [Next]_vars PROVE NoEditLost'
<1> USE DEF IInv
<1> DEFINE Kept(d) == \E c \in Clients : d \in client[c].changes
<1>1. ASSUME NEW d \in Edited, Covered(d) PROVE Covered(d)'
  <2>1. /\ d.name \in Names /\ d.val \in Vals /\ d.up \in Nat /\ d.seq \in Nat
        /\ srv[d.name] # NoRow /\ TsvLeq(d, srv[d.name])
    BY <1>1 DEF Edited, Covered
  <2> QED
    BY <2>1, SrvStep, StaysCovered DEF Covered
<1>2. ASSUME NEW c \in Clients, NEW n \in Names, NEW v \in Vals, Edit(c, n, v)
      PROVE  NoEditLost'
  <2>1. client[c].changes \subseteq client'[c].changes
    BY <1>2, EditKeeps
  <2>2. /\ client' = [client EXCEPT ![c] = client'[c]]
        /\ made' = made \cup (client'[c].changes \ client[c].changes)
        /\ srv' = srv
    BY <1>2, EditKeeps DEF Edit, serverVars
  <2>3. ASSUME NEW d, Kept(d) PROVE Kept(d)'
    BY <2>1, <2>2, <2>3 DEF Typed
  <2>4. ASSUME NEW d \in made PROVE Covered(d)' \/ Kept(d)'
    BY <2>2, <2>3, <2>4 DEF NoEditLost, Covered
  <2> QED
    BY <2>2, <2>4 DEF NoEditLost
<1>3. ASSUME NEW c \in Clients, NEW ch \in sync[c].pulled, Apply(c, ch)
      PROVE  NoEditLost'
  <2>1. /\ client' = [client EXCEPT ![c] = client'[c]]
        /\ client'[c].changes = {d \in client[c].changes : ~Confirms(ch, d)}
        /\ made' = made
    BY <1>3, ApplyKeeps DEF Apply
  <2>2. ASSUME NEW d \in made, d \in client[c].changes, Confirms(ch, d)
        PROVE  Covered(d)'
    BY <1>1, <1>3, <2>2, ConfirmedIsCovered DEF Typed
  <2>3. ASSUME NEW d \in made PROVE Covered(d)' \/ Kept(d)'
    <3>1. CASE Covered(d)
      BY <1>1, <3>1 DEF Typed
    <3>2. CASE \E b \in Clients : d \in client[b].changes
      BY <2>1, <2>2, <2>3, <3>2 DEF Typed
    <3> QED
      BY <3>1, <3>2 DEF NoEditLost
  <2> QED
    BY <2>1, <2>3 DEF NoEditLost
<1>4. ASSUME NEW c \in Clients, Restart(c) PROVE NoEditLost'
  <2>1. client' = [client EXCEPT ![c] = store[c]] /\ made' = made /\ srv' = srv
    BY <1>4 DEF Restart, serverVars
  <2>2. \A b \in Clients : client[b].changes \subseteq client'[b].changes
    BY <2>1 DEF StoreLags, Typed
  <2> QED
    BY <2>1, <2>2 DEF NoEditLost, Covered
<1>5. CASE UNCHANGED <<client, made>>
  BY <1>1, <1>5 DEF NoEditLost, Typed
<1> QED
  BY <1>2, <1>3, <1>4, <1>5 DEF Next, SyncStep, WorkStep, Tick, SendChanges,
     NoteTime, Pull, Finish, Abort, Stamp, Write, Dequeue, Crash, vars,
     clientVars, Vals

(* No edit is lost (client/doc.js:184-216, NOTES.md:267-270): as long as   *)
(* the server has neither the edit nor a later one, a client keeps it,     *)
(* whatever is cut short, closed or crashed and in whatever order rows     *)
(* come back.                                                              *)
THEOREM NoEditIsLost == Spec => []NoEditLost
<1>1. Init => IInv
  <2>1. Init => Typed
    BY ClientStateAssumption DEF Init, Typed, Document, EmptyDoc, Idle, Free
  <2> QED
    BY <2>1 DEF Init, IInv, PulledIsCovered, Idle, StoreLags, NoEditLost
<1>2. IInv /\ [Next]_vars => IInv'
  BY TypedStep, PulledStep, LagStep, LostStep DEF IInv
<1>3. IInv => NoEditLost
  BY DEF IInv
<1> QED
  BY <1>1, <1>2, <1>3, PTL DEF Spec

-----------------------------------------------------------------------------
(* Type correctness.  Times are never ahead of the clock, and a sequence   *)
(* number is less than the number of edits made so far: Past and Drawn are *)
(* the times and the numbers there can be, and they grow.                  *)
Past == 1..now
Drawn == 0..(Edits - edits - 1)

DeltasIn(TT, SS) == [name : Names, val : Vals, up : TT, seq : SS]
FeedIn(TT)       == [name : Names, val : Vals, up : TT]
DocsIn(TT, SS)   == [latest    : [Names -> [val : Vals, up : TT, seq : SS]
                                            \cup {NoRow}],
                     changes   : SUBSET DeltasIn(TT, SS),
                     destroyed : {Null},
                     updated   : TT \cup {Null}]
SyncsIn(TT)      == [pc : {"idle", "sent", "noted", "pulled"},
                     newSince : TT \cup {Null}, pulled : SUBSET FeedIn(TT)]
BusyIn(TT, SS)   == [pc : {"write", "dequeue"}, delta : DeltasIn(TT, SS),
                     re : TT]
SrvIn(TT, SS)    == [val : Vals, up : TT, seq : SS, re : TT, at : TT]

ClientsIn(TT, SS) ==
    /\ client \in [Clients -> DocsIn(TT, SS)]
    /\ store \in [Clients -> DocsIn(TT, SS)]
    /\ since \in [Clients -> TT \cup {Null}]
    /\ sync \in [Clients -> SyncsIn(TT)]

ServerIn(TT, SS) ==
    /\ queue \subseteq DeltasIn(TT, SS)
    /\ made \subseteq DeltasIn(TT, SS)
    /\ worker \in [Workers -> BusyIn(TT, SS) \cup {Free}]
    /\ srv \in [Names -> SrvIn(TT, SS) \cup {NoRow}]

Counters == now \in Times /\ edits \in 0..Edits /\ failures \in 0..Failures

(* Where a sync is, and what it has pulled: nothing before the first edit. *)
Phases == \A c \in Clients :
             /\ sync[c].newSince = Null <=> sync[c].pc \in {"idle", "sent"}
             /\ sync[c].pulled # {} => edits < Edits

Within == /\ Counters /\ Phases
          /\ ClientsIn(Past, Drawn) /\ ServerIn(Past, Drawn)

LEMMA Bounds ==
    ASSUME Counters
    PROVE  /\ now \in Nat /\ now >= 1 /\ now <= MaxTime
           /\ edits \in Nat /\ edits <= Edits /\ Edits \in Nat
           /\ Past \subseteq Times /\ Drawn \subseteq Seqs /\ now \in Past
           /\ Past \subseteq Nat /\ Drawn \subseteq Nat /\ Null \notin Past
           /\ MaxTime \in Nat /\ NoRow \notin [val : Vals, up : Past, seq : Drawn]
           /\ NoRow \notin SrvIn(Past, Drawn)
<1>1. /\ now \in Nat /\ now >= 1 /\ now <= MaxTime /\ MaxTime \in Nat
      /\ edits \in Nat /\ edits <= Edits /\ Edits \in Nat
  BY SyncAssumption DEF Counters, Times
<1>2. /\ Past \subseteq Times /\ Drawn \subseteq Seqs /\ now \in Past
      /\ Past \subseteq Nat /\ Drawn \subseteq Nat
  BY <1>1 DEF Past, Drawn, Times, Seqs
<1>3. Null \notin Past /\ NoRow \notin [val : Vals, up : Past, seq : Drawn]
  BY <1>2, Constants DEF Shown
<1>4. SrvIn(Past, Drawn) \subseteq [val : Vals, up : Nat, seq : Nat, re : Nat,
                             at : Nat]
  BY <1>2 DEF SrvIn
<1> QED
  BY <1>1, <1>2, <1>3, <1>4, SyncAssumption

LEMMA Larger ==
    ASSUME NEW TT, NEW SS, NEW T2, NEW S2, TT \subseteq T2, SS \subseteq S2
    PROVE  /\ DeltasIn(TT, SS) \subseteq DeltasIn(T2, S2)
           /\ FeedIn(TT) \subseteq FeedIn(T2)
           /\ DocsIn(TT, SS) \subseteq DocsIn(T2, S2)
           /\ SyncsIn(TT) \subseteq SyncsIn(T2)
           /\ BusyIn(TT, SS) \subseteq BusyIn(T2, S2)
           /\ SrvIn(TT, SS) \subseteq SrvIn(T2, S2)
<1>1. DeltasIn(TT, SS) \subseteq DeltasIn(T2, S2)
  BY DEF DeltasIn
<1>2. FeedIn(TT) \subseteq FeedIn(T2)
  BY DEF FeedIn
<1>3. DocsIn(TT, SS) \subseteq DocsIn(T2, S2)
  BY <1>1 DEF DocsIn
<1>4. SyncsIn(TT) \subseteq SyncsIn(T2)
  BY <1>2 DEF SyncsIn
<1>5. BusyIn(TT, SS) \subseteq BusyIn(T2, S2)
  BY <1>1 DEF BusyIn
<1>6. SrvIn(TT, SS) \subseteq SrvIn(T2, S2)
  BY DEF SrvIn
<1> QED
  BY <1>1, <1>2, <1>3, <1>4, <1>5, <1>6

LEMMA AllLarger ==
    ASSUME NEW TT, NEW SS, NEW T2, NEW S2, TT \subseteq T2, SS \subseteq S2,
           ClientsIn(TT, SS), ServerIn(TT, SS)
    PROVE  ClientsIn(T2, S2) /\ ServerIn(T2, S2)
<1>1. /\ DeltasIn(TT, SS) \subseteq DeltasIn(T2, S2)
      /\ DocsIn(TT, SS) \subseteq DocsIn(T2, S2)
      /\ SyncsIn(TT) \subseteq SyncsIn(T2)
      /\ BusyIn(TT, SS) \subseteq BusyIn(T2, S2)
      /\ SrvIn(TT, SS) \subseteq SrvIn(T2, S2)
  BY Larger
<1>2. ClientsIn(T2, S2)
  BY <1>1 DEF ClientsIn
<1>3. ServerIn(T2, S2)
  BY <1>1 DEF ServerIn
<1> QED
  BY <1>2, <1>3

LEMMA WithinOK == ASSUME Within PROVE TypeOK
<1>1. ClientsIn(Times, Seqs) /\ ServerIn(Times, Seqs)
  BY Bounds, AllLarger DEF Within
<1>2. /\ DocsIn(Times, Seqs) = Bounded /\ DeltasIn(Times, Seqs) = Deltas
      /\ FeedIn(Times) = Feed /\ Stamps = Times \cup {Null}
  BY DEF DocsIn, Bounded, DeltasIn, Deltas, FeedIn, Feed, Stamps
<1>3. \A c \in Clients :
         /\ client[c] \in Bounded /\ store[c] \in Bounded
         /\ since[c] \in Stamps
         /\ sync[c].pc \in {"idle", "sent", "noted", "pulled"}
         /\ sync[c].newSince \in Stamps
         /\ (sync[c].newSince = Null <=> sync[c].pc \in {"idle", "sent"})
         /\ sync[c].pulled \subseteq Feed
  BY <1>1, <1>2 DEF Within, Phases, ClientsIn, SyncsIn
<1>4. /\ queue \subseteq Deltas /\ made \subseteq Deltas
      /\ \A w \in Workers :
           \/ worker[w] = Free
           \/ worker[w] \in [pc : {"write", "dequeue"}, delta : Deltas,
                             re : Times]
      /\ srv \in [Names -> [val : Vals, up : Times, seq : Seqs,
                            re : Times, at : Times] \cup {NoRow}]
  BY <1>1, <1>2 DEF ServerIn, BusyIn, SrvIn
<1> QED
  BY <1>3, <1>4 DEF Within, Counters, TypeOK

LEMMA InitWithin == ASSUME Init PROVE Within
<1>1. Counters
  BY SyncAssumption DEF Init, Counters, Times
<1>2. EmptyDoc \in DocsIn(Past, Drawn) /\ Idle \in SyncsIn(Past)
  BY DEF EmptyDoc, DocsIn, Idle, SyncsIn
<1>3. ClientsIn(Past, Drawn) /\ ServerIn(Past, Drawn)
  BY <1>2 DEF Init, ClientsIn, ServerIn
<1>4. Phases
  BY DEF Init, Phases, Idle
<1> QED
  BY <1>1, <1>3, <1>4 DEF Within

-----------------------------------------------------------------------------
LEMMA CountersStep ==
    ASSUME Counters, [Next]_vars
    PROVE  Counters' /\ Past \subseteq Past' /\ Drawn \subseteq Drawn'
<1>0. /\ now \in Nat /\ now >= 1 /\ now <= MaxTime /\ MaxTime \in Nat
      /\ edits \in Nat /\ edits <= Edits /\ Edits \in Nat
      /\ failures \in Nat /\ failures <= Failures /\ Failures \in Nat
  BY Bounds, SyncAssumption DEF Counters
<1>1. /\ now' = now \/ (now < MaxTime /\ now' = now + 1)
      /\ edits' = edits \/ (edits > 0 /\ edits' = edits - 1)
      /\ failures' = failures \/ (failures > 0 /\ failures' = failures - 1)
  BY DEF Next, SyncStep, WorkStep, Tick, Edit, SendChanges, NoteTime, Pull,
         Apply, Finish, Abort, Restart, Stamp, Write, Dequeue, Crash, vars
<1>2. Counters'
  BY <1>0, <1>1 DEF Counters, Times
<1>3. now' \in Nat /\ now <= now' /\ edits' \in Nat /\ edits' <= edits
  BY <1>0, <1>1
<1>4. Past \subseteq Past'
  BY <1>0, <1>3 DEF Past
<1>5. Drawn \subseteq Drawn'
  <2>1. \A a, b \in Nat : b <= a => 0..(Edits - a - 1) \subseteq 0..(Edits - b - 1)
    BY <1>0
  <2>2. Drawn = 0..(Edits - edits - 1) /\ Drawn' = 0..(Edits - edits' - 1)
    BY DEF Drawn
  <2> QED
    BY <1>0, <1>3, <2>1, <2>2
<1> QED
  BY <1>2, <1>4, <1>5

(* The user's edit is of the time of the clock; its sequence number is at  *)
(* most one more than any before.                                          *)
LEMMA EditWithin ==
    ASSUME Within, NEW c \in Clients, NEW n \in Names, NEW v \in Vals,
           Edit(c, n, v), Drawn \subseteq Drawn'
    PROVE  /\ client'[c] \in DocsIn(Past, Drawn')
           /\ ToSend(client[c], n, v, now) \in DeltasIn(Past, Drawn')
           /\ client'[c] = SetLocal(client[c], n, v, now)
           /\ client'[c].changes \subseteq
                client[c].changes \cup {ToSend(client[c], n, v, now)}
<1> DEFINE cd == client[c]
           row == RowOf(cd, n, v, now)
           chg == ToSend(cd, n, v, now)
<1>0. /\ now \in Past /\ edits \in Nat /\ edits <= Edits /\ Edits \in Nat
      /\ edits > 0 /\ Drawn' = 0..(Edits - (edits - 1) - 1)
      /\ NoRow \notin [val : Vals, up : Past, seq : Drawn]
  BY Bounds DEF Within, Edit, Drawn
<1>1. cd \in DocsIn(Past, Drawn)
  BY DEF Within, ClientsIn
<1>2. NextSeq(cd, n, now) \in Drawn'
  <2>1. cd.latest[n] \in [val : Vals, up : Past, seq : Drawn] \cup {NoRow}
    BY <1>1 DEF DocsIn
  <2>2. Drawn = 0..(Edits - edits - 1)
    BY DEF Drawn
  <2>3. 0 \in Drawn' /\ \A s \in Drawn : s + 1 \in Drawn'
    <3>1. edits \in Nat /\ edits <= Edits /\ Edits \in Nat /\ edits > 0
      BY <1>0
    <3>2. Drawn' = 0..(Edits - (edits - 1) - 1)
      BY <1>0
    <3>3. 0 \in Drawn'
      BY <3>1, <3>2
    <3>4. \A s \in Drawn : s \in Nat /\ s <= Edits - edits - 1
      BY <2>2, <3>1
    <3>5. ASSUME NEW s \in Drawn PROVE s + 1 \in 0..(Edits - (edits - 1) - 1)
      BY <3>1, <3>4
    <3> QED
      BY <3>2, <3>3, <3>5
  <2> QED
    BY <2>1, <2>3 DEF NextSeq
<1>3. row \in [val : Vals, up : Past, seq : Drawn']
  BY <1>0, <1>2 DEF RowOf
<1>4. chg \in DeltasIn(Past, Drawn')
  BY <1>0, <1>2, Constants DEF ToSend, DeltasIn
<1>5. client'[c] = SetLocal(cd, n, v, now)
  BY DEF Edit, Within, ClientsIn
<1> HIDE DEF row, chg
<1>6. cd \in DocsIn(Past, Drawn')
  BY <1>1, Larger
<1>7. [cd.latest EXCEPT ![n] = row]
        \in [Names -> [val : Vals, up : Past, seq : Drawn'] \cup {NoRow}]
  BY <1>3, <1>6 DEF DocsIn
<1>8. /\ cd.changes \cup {chg} \in SUBSET DeltasIn(Past, Drawn')
      /\ Revived(cd, now) \in {Null} /\ cd.updated \in Past \cup {Null}
  BY <1>4, <1>6 DEF DocsIn, Revived
<1>9. SetLocal(cd, n, v, now)
        = [latest |-> [cd.latest EXCEPT ![n] = row],
           changes |-> cd.changes \cup {chg},
           destroyed |-> Revived(cd, now), updated |-> cd.updated]
  BY DEF SetLocal, Changed, row, chg
<1>10. SetLocal(cd, n, v, now) \in DocsIn(Past, Drawn')
  BY <1>7, <1>8, <1>9 DEF DocsIn
<1>11. client'[c].changes = cd.changes \cup {chg}
  BY <1>5, <1>9
<1> QED
  BY <1>4, <1>5, <1>10, <1>11 DEF chg

(* What arrives has sequence number 0.                                     *)
LEMMA ReceivedWithin ==
    ASSUME NEW TT, NEW SS, 0 \in SS, NEW cd \in DocsIn(TT, SS),
           NEW ch \in FeedIn(TT), TT \subseteq Nat, SS \subseteq Nat
    PROVE  /\ IsNews(cd, ch) => Applied(cd, ch) \in DocsIn(TT, SS)
           /\ Received(cd, ch) \in DocsIn(TT, SS)
<1> DEFINE row == RowOf(cd, ch.name, ch.val, ch.up)
           e == Changed(cd, ch.name, ch.val, ch.up, cd.changes)
           L == [cd.latest EXCEPT ![ch.name] = row]
<1>1. ch.name \in Names /\ ch.name # Tomb /\ ch.val \in Vals /\ ch.up \in TT
  BY ClientStateAssumption DEF FeedIn
<1>2. /\ cd.latest \in [Names -> [val : Vals, up : TT, seq : SS]
                                  \cup {NoRow}]
      /\ cd.changes \in SUBSET DeltasIn(TT, SS)
      /\ cd.destroyed = Null /\ cd.updated \in TT \cup {Null}
  BY DEF DocsIn
<1>3. ASSUME IsNews(cd, ch) PROVE Applied(cd, ch) \in DocsIn(TT, SS)
  <2>1. NextSeq(cd, ch.name, ch.up) = 0
    <3>1. CASE cd.latest[ch.name] = NoRow
      BY <3>1 DEF NextSeq
    <3>2. CASE cd.latest[ch.name] # NoRow
      <4>1. ch.up > cd.latest[ch.name].up
        BY <1>1, <1>3, <3>2 DEF IsNews
      <4>2. cd.latest[ch.name].up \in Nat /\ ch.up \in Nat
        BY <1>1, <1>2, <3>2
      <4>3. cd.latest[ch.name].up # ch.up
        BY <4>1, <4>2
      <4> QED
        BY <4>3 DEF NextSeq
    <3> QED
      BY <3>1, <3>2
  <2>2. row \in [val : Vals, up : TT, seq : SS]
    BY <1>1, <2>1 DEF RowOf
  <2> HIDE DEF row
  <2>3. L \in [Names -> [val : Vals, up : TT, seq : SS] \cup {NoRow}]
    BY <1>1, <1>2, <2>2
  <2>4. e = [latest |-> L, changes |-> cd.changes, destroyed |-> Null,
             updated |-> cd.updated]
    BY <1>2 DEF Changed, Revived, row
  <2> HIDE DEF L, e
  <2>5. e \in DocsIn(TT, SS)
    BY <1>2, <2>3, <2>4 DEF DocsIn
  <2>6. [e EXCEPT !.updated = ch.up]
          = [latest |-> L, changes |-> cd.changes, destroyed |-> Null,
             updated |-> ch.up]
    BY <2>4
  <2>7. [e EXCEPT !.updated = ch.up] \in DocsIn(TT, SS)
    BY <1>1, <1>2, <2>3, <2>6 DEF DocsIn
  <2>8. Applied(cd, ch) \in {e, [e EXCEPT !.updated = ch.up]}
    BY <1>1 DEF Applied, Moved, e
  <2> QED
    BY <2>5, <2>7, <2>8
<1> DEFINE new == IF IsNews(cd, ch) THEN Applied(cd, ch) ELSE cd
<1>4. new \in DocsIn(TT, SS)
  BY <1>3
<1>5. Received(cd, ch) = Recorded(new, ch)
  BY DEF Received
<1> HIDE DEF new
<1> DEFINE C == {d \in new.changes : ~Confirms(ch, d)}
<1>6. Recorded(new, ch) = [latest |-> new.latest, changes |-> C,
                           destroyed |-> new.destroyed,
                           updated |-> new.updated]
  BY <1>1 DEF Recorded
<1>7. C \in SUBSET DeltasIn(TT, SS)
  BY <1>4 DEF DocsIn
<1> HIDE DEF C
<1>8. Recorded(new, ch) \in DocsIn(TT, SS)
  BY <1>4, <1>6, <1>7 DEF DocsIn
<1> QED
  BY <1>3, <1>5, <1>8

LEMMA PutWithin ==
    ASSUME Within, NEW b \in BusyIn(Past, Drawn), NEW row \in SrvIn(Past, Drawn) \cup {NoRow}
    PROVE  Put(row, b.delta, b.re) \in SrvIn(Past, Drawn)
BY Bounds DEF Within, BusyIn, DeltasIn, SrvIn, Put

-----------------------------------------------------------------------------
(* Every step keeps the documents, the syncs and the tables within bounds. *)
LEMMA WithinStep == ASSUME Within, [Next]_vars PROVE Within'
<1>0. /\ Counters /\ Phases /\ ClientsIn(Past, Drawn) /\ ServerIn(Past, Drawn)
      /\ Counters' /\ Past \subseteq Past' /\ Drawn \subseteq Drawn'
      /\ ClientsIn(Past', Drawn') /\ ServerIn(Past', Drawn')
  BY CountersStep, AllLarger DEF Within
<1>a. /\ now \in Past /\ now \in Past' /\ Null \notin Past /\ Past \subseteq Nat
      /\ edits \in Nat /\ edits <= Edits /\ Edits \in Nat
  BY <1>0, Bounds
<1>b. \A c \in Clients : /\ client[c] \in DocsIn(Past', Drawn')
                         /\ store[c] \in DocsIn(Past', Drawn')
                         /\ sync[c] \in SyncsIn(Past')
                         /\ Idle \in SyncsIn(Past')
  BY <1>0 DEF ClientsIn, Idle, SyncsIn
<1> USE DEF clientVars, serverVars
<1>1. ASSUME NEW c \in Clients, NEW n \in Names, NEW v \in Vals, Edit(c, n, v)
      PROVE  Within'
  <2> DEFINE e == client'[c]
             chg == ToSend(client[c], n, v, now)
  <2>1. e \in DocsIn(Past', Drawn') /\ chg \in DeltasIn(Past', Drawn')
        /\ e.changes \subseteq client[c].changes \cup {chg}
    <3>1. e \in DocsIn(Past, Drawn') /\ chg \in DeltasIn(Past, Drawn')
          /\ e.changes \subseteq client[c].changes \cup {chg}
      BY <1>0, <1>1, EditWithin
    <3> QED
      BY <1>0, <3>1, Larger
  <2>2. /\ client' = [client EXCEPT ![c] = e]
        /\ store' = [store EXCEPT ![c] = e]
        /\ made' = made \cup (e.changes \ client[c].changes)
        /\ UNCHANGED <<since, sync, queue, worker, srv>>
        /\ edits' = edits - 1
    BY <1>1 DEF Edit, Within, ClientsIn
  <2> HIDE DEF e, chg
  <2>3. ClientsIn(Past, Drawn)' /\ ServerIn(Past, Drawn)'
    BY <1>0, <2>1, <2>2 DEF ClientsIn, ServerIn
  <2>4. Phases'
    BY <1>0, <1>a, <2>2 DEF Phases
  <2> QED
    BY <1>0, <2>3, <2>4 DEF Within
<1>2. ASSUME NEW c \in Clients, NEW ch \in sync[c].pulled, Apply(c, ch)
      PROVE  Within'
  <2>1. UNCHANGED <<since, queue, worker, srv, now, edits, made>>
    BY <1>2 DEF Apply
  <2>2. ch \in FeedIn(Past) /\ edits < Edits
    BY <1>0 DEF ClientsIn, SyncsIn, Phases
  <2>3. 0 \in Drawn
    BY <1>a, <2>2 DEF Drawn
  <2>4. /\ IsNews(client[c], ch) => Applied(client[c], ch) \in DocsIn(Past, Drawn)
        /\ Received(client[c], ch) \in DocsIn(Past, Drawn)
    <3>1. Past \subseteq Nat /\ Drawn \subseteq Nat /\ client[c] \in DocsIn(Past, Drawn)
      BY <1>0, Bounds DEF ClientsIn
    <3> QED
      BY <2>2, <2>3, <3>1, ReceivedWithin
  <2>5. Saved(client[c], store[c], ch) \in DocsIn(Past, Drawn)
    BY <1>0, <2>4 DEF Saved, ClientsIn
  <2> DEFINE e == Received(client[c], ch)
             k == Saved(client[c], store[c], ch)
             s == [sync[c] EXCEPT !.pulled = @ \ {ch}]
  <2>6. /\ client' = [client EXCEPT ![c] = e]
        /\ store' = [store EXCEPT ![c] = k]
        /\ sync' = [sync EXCEPT ![c] = s]
    BY <1>2 DEF Apply
  <2>7. s \in SyncsIn(Past) /\ s.pulled \subseteq sync[c].pulled
        /\ s.pc = sync[c].pc /\ s.newSince = sync[c].newSince
    BY <1>0 DEF ClientsIn, SyncsIn
  <2>8. e \in DocsIn(Past, Drawn) /\ k \in DocsIn(Past, Drawn)
    BY <2>4, <2>5
  <2> HIDE DEF e, k, s
  <2>9. ClientsIn(Past, Drawn)' /\ ServerIn(Past, Drawn)'
    <3>1. Past' = Past /\ Drawn' = Drawn
      BY <2>1 DEF Past, Drawn
    <3> QED
      BY <1>0, <2>1, <2>6, <2>7, <2>8, <3>1 DEF ClientsIn, ServerIn
  <2>10. Phases'
    BY <1>0, <2>1, <2>2, <2>6, <2>7 DEF Phases, ClientsIn
  <2> QED
    BY <1>0, <2>9, <2>10 DEF Within
<1>3. ASSUME NEW c \in Clients,
             NEW s, s \in SyncsIn(Past), sync' = [sync EXCEPT ![c] = s],
             s.newSince = Null <=> s.pc \in {"idle", "sent"},
             s.pulled # {} => edits < Edits,
             client' = client \/ client' = [client EXCEPT ![c] = store[c]],
             since' = since \/ (since' = [since EXCEPT ![c] = sync[c].newSince]),
             queue' = queue \/ queue' = queue \cup client[c].changes,
             UNCHANGED <<store, worker, srv, now, edits, made>>
      PROVE  Within'
  <2>1. Past' = Past /\ Drawn' = Drawn
    BY <1>3 DEF Past, Drawn
  <2>2. ClientsIn(Past, Drawn)'
    <3>1. sync[c].newSince \in Past \cup {Null}
      BY <1>0 DEF ClientsIn, SyncsIn
    <3> QED
      BY <1>0, <1>3, <2>1, <3>1 DEF ClientsIn
  <2>3. ServerIn(Past, Drawn)'
    <3>1. client[c].changes \subseteq DeltasIn(Past, Drawn)
      BY <1>0 DEF ClientsIn, DocsIn
    <3> QED
      BY <1>0, <1>3, <2>1, <3>1 DEF ServerIn
  <2>4. Phases'
    BY <1>0, <1>3 DEF Phases, ClientsIn
  <2> QED
    BY <1>0, <2>2, <2>3, <2>4 DEF Within
<1>4. ASSUME NEW c \in Clients, SendChanges(c) PROVE Within'
  <2> DEFINE s == [sync[c] EXCEPT !.pc = "sent"]
  <2>1. sync[c] \in SyncsIn(Past) /\ sync[c].pc = "idle"
        /\ sync[c].newSince = Null
    BY <1>0, <1>4 DEF ClientsIn, SendChanges, Phases
  <2>2. s \in SyncsIn(Past) /\ s.newSince = Null /\ s.pc = "sent"
        /\ s.pulled = sync[c].pulled
    BY <2>1 DEF SyncsIn
  <2>3. s.pulled # {} => edits < Edits
    BY <1>0, <2>2 DEF Phases
  <2>4. /\ sync' = [sync EXCEPT ![c] = s]
        /\ queue' = queue \cup client[c].changes
        /\ UNCHANGED <<client, since, store, worker, srv, now, edits, made>>
    BY <1>4 DEF SendChanges, LocalChanges
  <2> HIDE DEF s
  <2> QED
    BY <1>3, <2>2, <2>3, <2>4
<1>5. ASSUME NEW c \in Clients, NoteTime(c) PROVE Within'
  <2> DEFINE s == [pc |-> "noted", newSince |-> now, pulled |-> {}]
  <2>1. s \in SyncsIn(Past) /\ s.newSince # Null /\ s.pc = "noted"
        /\ s.pulled = {}
    BY <1>a DEF SyncsIn
  <2>2. /\ sync' = [sync EXCEPT ![c] = s]
        /\ UNCHANGED <<client, since, store, queue, worker, srv, now, edits,
                       made>>
    BY <1>5 DEF NoteTime
  <2> HIDE DEF s
  <2> QED
    BY <1>3, <2>1, <2>2
<1>6. ASSUME NEW c \in Clients, Pull(c) PROVE Within'
  <2>1. PICK N \in Pages(since[c]) :
          sync' = [sync EXCEPT ![c] = [pc |-> "pulled", newSince |-> @.newSince,
                                       pulled |-> {FeedRow(n) : n \in N}]]
    BY <1>6 DEF Pull
  <2> DEFINE P == {FeedRow(n) : n \in N}
             s == [pc |-> "pulled", newSince |-> sync[c].newSince,
                   pulled |-> P]
  <2>2. sync[c].newSince # Null /\ sync[c].newSince \in Past \cup {Null}
    BY <1>0, <1>6 DEF Pull, Phases, ClientsIn, SyncsIn
  <2>3. \A n \in N : n \in Names /\ srv[n] \in SrvIn(Past, Drawn)
    BY <1>0 DEF Pages, Recent, ServerIn
  <2>4. P \subseteq FeedIn(Past)
    BY <2>3 DEF FeedRow, FeedIn, SrvIn
  <2>5. P # {} => edits < Edits
    <3>1. \A n \in N : srv[n].seq \in 0..(Edits - edits - 1)
      BY <2>3 DEF SrvIn, Drawn
    <3>2. (\E n \in N : TRUE) => edits < Edits
      BY <1>a, <3>1
    <3> QED
      BY <3>2
  <2>6. sync' = [sync EXCEPT ![c] = s]
        /\ UNCHANGED <<client, since, store, queue, worker, srv, now, edits,
                       made>>
    BY <1>6, <2>1 DEF Pull
  <2> HIDE DEF P
  <2>7. s \in SyncsIn(Past) /\ s.newSince # Null /\ s.pc = "pulled"
        /\ s.pulled = P
    BY <2>2, <2>4 DEF SyncsIn
  <2> HIDE DEF s
  <2> QED
    BY <1>3, <2>5, <2>6, <2>7
<1>7. ASSUME NEW c \in Clients, Finish(c) \/ Abort(c) \/ Restart(c)
      PROVE  Within'
  <2>1. /\ Idle \in SyncsIn(Past) /\ Idle.newSince = Null /\ Idle.pc = "idle"
        /\ Idle.pulled = {}
    BY DEF Idle, SyncsIn
  <2>2. /\ sync' = [sync EXCEPT ![c] = Idle]
        /\ client' = client \/ client' = [client EXCEPT ![c] = store[c]]
        /\ since' = since \/ since' = [since EXCEPT ![c] = sync[c].newSince]
        /\ UNCHANGED <<queue, store, worker, srv, now, edits, made>>
    BY <1>7 DEF Finish, Abort, Restart
  <2> HIDE DEF Idle
  <2> QED
    BY <1>3, <2>1, <2>2
<1>8. ASSUME ServerIn(Past, Drawn)',
             UNCHANGED <<client, store, since, sync, edits>>
      PROVE  Within'
  <2>1. ClientsIn(Past, Drawn)'
    BY <1>0, <1>8 DEF ClientsIn
  <2>2. Phases'
    BY <1>0, <1>8 DEF Phases
  <2> QED
    BY <1>0, <1>8, <2>1, <2>2 DEF Within
<1>9. ASSUME NEW w \in Workers, NEW d \in queue, Stamp(w, d) PROVE Within'
  <2> DEFINE b == [pc |-> "write", delta |-> d, re |-> now]
  <2>1. b \in BusyIn(Past', Drawn')
    BY <1>0, <1>a DEF ServerIn, BusyIn
  <2>2. worker' = [worker EXCEPT ![w] = b]
        /\ UNCHANGED <<client, store, since, sync, queue, srv, edits, made>>
    BY <1>9 DEF Stamp
  <2> HIDE DEF b
  <2>3. ServerIn(Past, Drawn)'
    BY <1>0, <2>1, <2>2 DEF ServerIn
  <2> QED
    BY <1>8, <2>2, <2>3
<1>10. ASSUME NEW w \in Workers, Write(w) PROVE Within'
  <2> DEFINE n == worker[w].delta.name
             row == Put(srv[n], worker[w].delta, worker[w].re)
             b == [worker[w] EXCEPT !.pc = "dequeue"]
  <2>1. worker[w] \in BusyIn(Past, Drawn) /\ n \in Names
    BY <1>0, <1>10 DEF Write, BusyIn, DeltasIn, Free, ServerIn
  <2>2. row \in SrvIn(Past, Drawn)
    BY <1>0, <2>1, PutWithin DEF ServerIn, Within
  <2>3. b \in BusyIn(Past, Drawn)
    BY <2>1 DEF BusyIn
  <2>4. /\ srv' = [srv EXCEPT ![n] = row]
        /\ worker' = [worker EXCEPT ![w] = b]
        /\ UNCHANGED <<client, store, since, sync, queue, now, edits, made>>
    BY <1>10 DEF Write
  <2> HIDE DEF row, n, b
  <2>5. row \in SrvIn(Past', Drawn') /\ b \in BusyIn(Past', Drawn')
    BY <1>0, <2>2, <2>3, Larger
  <2>6. ServerIn(Past, Drawn)'
    BY <1>0, <2>1, <2>4, <2>5 DEF ServerIn
  <2> QED
    BY <1>8, <2>4, <2>6
<1>11. ASSUME NEW w \in Workers, Dequeue(w) \/ Crash(w) PROVE Within'
  <2>1. /\ worker' = [worker EXCEPT ![w] = Free]
        /\ queue' \subseteq queue
        /\ UNCHANGED <<client, store, since, sync, srv, edits, made>>
    BY <1>11 DEF Dequeue, Crash
  <2> HIDE DEF Free
  <2>2. ServerIn(Past, Drawn)'
    BY <1>0, <2>1 DEF ServerIn
  <2> QED
    BY <1>8, <2>1, <2>2
<1>12. CASE Tick \/ UNCHANGED vars
  <2>1. UNCHANGED <<client, store, since, sync, queue, worker, srv, edits,
                    made>>
    BY <1>12 DEF Tick, vars
  <2>2. ServerIn(Past, Drawn)'
    BY <1>0, <2>1 DEF ServerIn
  <2> QED
    BY <1>8, <2>1, <2>2
<1> HIDE DEF clientVars, serverVars
<1> QED
  BY <1>1, <1>2, <1>4, <1>5, <1>6, <1>7, <1>9, <1>10, <1>11, <1>12
     DEF Next, SyncStep, WorkStep, Vals

(* Documents, syncs, queue and tables are what they should be: no time is  *)
(* ahead of the clock and no sequence number reaches the number of edits   *)
(* (client/doc.js:240-282, client/db.js:192-211, attr-rec.js:50-68).       *)
THEOREM TypeCorrect == Spec => []TypeOK
BY InitWithin, WithinStep, WithinOK, PTL DEF Spec

-----------------------------------------------------------------------------
(* What is about calls that return all there is.                           *)
WholePages == IsFiniteSet(Names) /\ Cardinality(Names) <= Limit

LEMMA PagesAreWhole ==
    ASSUME WholePages, NEW t, NEW N \in Pages(t) PROVE N = Recent(t)
<1>1. N \subseteq Recent(t) /\ Recent(t) \subseteq Names
  BY DEF Pages, Recent
<1>2. CASE Cardinality(N) = Limit
  <2>1. N \in SUBSET Names
    BY <1>1
  <2>2. /\ Cardinality(N) <= Cardinality(Names)
        /\ Cardinality(Names) = Cardinality(N) => Names = N
        /\ IsFiniteSet(N)
    BY <2>1, FS_Subset DEF WholePages
  <2>3. Cardinality(N) \in Nat /\ Cardinality(Names) \in Nat /\ Limit \in Nat
    BY <2>2, FS_CardinalityType, SyncAssumption DEF WholePages
  <2>4. Cardinality(N) = Cardinality(Names)
    BY <1>2, <2>2, <2>3 DEF WholePages
  <2> QED
    BY <1>1, <2>2, <2>4
<1> QED
  BY <1>2 DEF Pages

(* A client closed and opened shows what it has shown.                     *)
SameShown == \A c \in Clients : store[c].latest = client[c].latest

(* The client need not ask for the row, if it was recorded before t and in *)
(* time.                                                                   *)
Caught(c, n, t) == srv[n] # NoRow /\ OnTime(n) /\ srv[n].re < t
                     => UpToDate(c, n)

(* What a client will not ask for again, once it has applied what it has   *)
(* pulled.                                                                 *)
BeforeLast == \A c \in Clients, n \in Names :
                 since[c] # Null => Caught(c, n, since[c])
BeforeThis == \A c \in Clients, n \in Names :
                 sync[c].pc = "pulled" =>
                    \/ Caught(c, n, sync[c].newSince)
                    \/ FeedRow(n) \in sync[c].pulled

LEMMA CaughtMeans ==
    ASSUME Within, BeforeLast PROVE OnTimeNotSkipped
BY DEF BeforeLast, Caught, OnTimeNotSkipped, Skipped, OnTime

(* What a client shows never gets older.                                   *)
ShownGrows == \A c \in Clients, n \in Names :
                 client[c].latest[n] # NoRow =>
                    /\ client'[c].latest[n] # NoRow
                    /\ client'[c].latest[n].up \in Nat
                    /\ client'[c].latest[n].up >= client[c].latest[n].up

LEMMA LatestWithin ==
    ASSUME Within, NEW c \in Clients, NEW n \in Names,
           client[c].latest[n] # NoRow
    PROVE  client[c].latest[n].up \in Nat /\ client[c].latest[n].up <= now
<1>1. client[c].latest[n].up \in Past
  BY DEF Within, ClientsIn, DocsIn
<1>2. now \in Nat
  BY Bounds DEF Within
<1> QED
  BY <1>1, <1>2 DEF Past

LEMMA WithinTypes ==
    ASSUME Within
    PROVE  /\ \A c \in Clients : client[c] \in Document
           /\ FeedIn(Past) \subseteq Pulled
<1>1. Past \subseteq Nat /\ Drawn \subseteq Nat
  BY Bounds DEF Within
<1>2. DocsIn(Past, Drawn) \subseteq Document
  BY <1>1 DEF DocsIn, DeltasIn, Document, Shown, Change, Columns
<1>3. \A c \in Clients : client[c] \in DocsIn(Past, Drawn)
  BY DEF Within, ClientsIn
<1> QED
  BY <1>1, <1>2, <1>3 DEF FeedIn, Pulled

LEMMA ReceivedShows ==
    ASSUME NEW cd \in Document, NEW ch \in Pulled
    PROVE  /\ Received(cd, ch).latest = IF IsNews(cd, ch)
                                        THEN Applied(cd, ch).latest
                                        ELSE cd.latest
           /\ \A n \in Names \ {ch.name} :
                Received(cd, ch).latest[n] = cd.latest[n]
           /\ Received(cd, ch).latest[ch.name] # NoRow
           /\ Received(cd, ch).latest[ch.name].up \in Nat
           /\ Received(cd, ch).latest[ch.name].up >= ch.up
           /\ cd.latest[ch.name] # NoRow =>
                Received(cd, ch).latest[ch.name].up >= cd.latest[ch.name].up
<1>1. ch \in Arrived /\ ch.name \in Names /\ ch.name # Tomb /\ ch.up \in Nat
  BY ClientStateAssumption DEF Pulled, Arrived, Columns
<1>2. cd.latest \in [Names -> Shown \cup {NoRow}]
  BY DEF Document
<1>3. PICK row \in Shown :
        /\ row # NoRow /\ row.up = ch.up
        /\ Applied(cd, ch).latest = [cd.latest EXCEPT ![ch.name] = row]
  BY <1>1, AppliedShows
<1>4. Received(cd, ch).latest = IF IsNews(cd, ch) THEN Applied(cd, ch).latest
                                ELSE cd.latest
  BY DEF Received, Recorded
<1>5. cd.latest[ch.name] # NoRow => cd.latest[ch.name].up \in Nat
  BY <1>1, <1>2 DEF Shown
<1> DEFINE L == Received(cd, ch).latest
<1>6. CASE IsNews(cd, ch)
  <2>1. L = [cd.latest EXCEPT ![ch.name] = row]
    BY <1>3, <1>4, <1>6
  <2>2. cd.latest[ch.name] # NoRow => ch.up > cd.latest[ch.name].up
    BY <1>1, <1>6 DEF IsNews
  <2> HIDE DEF L
  <2>3. L[ch.name] = row /\ \A n \in Names \ {ch.name} : L[n] = cd.latest[n]
    BY <1>1, <1>2, <2>1
  <2>4. L[ch.name].up >= ch.up /\ L[ch.name].up \in Nat
        /\ (cd.latest[ch.name] # NoRow => L[ch.name].up >= cd.latest[ch.name].up)
    BY <1>1, <1>3, <1>5, <2>2, <2>3
  <2> QED
    BY <1>3, <1>4, <2>3, <2>4 DEF L
<1>7. CASE ~IsNews(cd, ch)
  <2>1. L = cd.latest
    BY <1>4, <1>7
  <2>2. cd.latest[ch.name] # NoRow /\ ~(ch.up > cd.latest[ch.name].up)
    BY <1>1, <1>7 DEF IsNews
  <2>3. cd.latest[ch.name].up >= ch.up /\ cd.latest[ch.name].up \in Nat
        /\ cd.latest[ch.name].up >= cd.latest[ch.name].up
    BY <1>1, <1>5, <2>2
  <2> HIDE DEF L
  <2> QED
    BY <1>4, <2>1, <2>2, <2>3 DEF L
<1> QED
  BY <1>6, <1>7

LEMMA ShownStep ==
    ASSUME Within, SameShown, [Next]_vars PROVE SameShown' /\ ShownGrows
<1>1. ASSUME NEW c \in Clients, NEW n \in Names, NEW v \in Vals, Edit(c, n, v)
      PROVE  SameShown' /\ ShownGrows
  <2> DEFINE row == RowOf(client[c], n, v, now)
  <2>1. /\ client' = [client EXCEPT ![c] = client'[c]]
        /\ store' = [store EXCEPT ![c] = client'[c]]
        /\ client'[c] = SetLocal(client[c], n, v, now)
    BY <1>1 DEF Edit, Within, ClientsIn
  <2>2. client'[c].latest = [client[c].latest EXCEPT ![n] = row]
    BY <2>1 DEF SetLocal, Changed
  <2>3. row.up = now /\ row # NoRow /\ now \in Nat
    <3>1. now \in Nat /\ client[c] \in Document
      BY Bounds, WithinTypes DEF Within
    <3>2. row # NoRow
      BY <3>1, RowTyped
    <3> QED
      BY <3>1, <3>2 DEF RowOf
  <2> HIDE DEF row
  <2>4. SameShown'
    BY <2>1 DEF SameShown, Within, ClientsIn
  <2>5. client[c].latest \in [Names -> [val : Vals, up : Past, seq : Drawn]
                                        \cup {NoRow}]
    BY DEF Within, ClientsIn, DocsIn
  <2>6. ASSUME NEW b \in Clients, NEW m \in Names,
               client[b].latest[m] # NoRow
        PROVE  /\ client'[b].latest[m] # NoRow
               /\ client'[b].latest[m].up \in Nat
               /\ client'[b].latest[m].up >= client[b].latest[m].up
    <3>1. client[b].latest[m].up \in Nat /\ client[b].latest[m].up <= now
      BY <2>6, LatestWithin
    <3>2. CASE b = c /\ m = n
      BY <2>2, <2>3, <2>5, <3>1, <3>2
    <3>3. CASE b = c /\ m # n
      BY <2>2, <2>5, <2>6, <3>1, <3>3
    <3>4. CASE b # c
      BY <2>1, <2>6, <3>1, <3>4 DEF Within, ClientsIn
    <3> QED
      BY <3>2, <3>3, <3>4
  <2> QED
    BY <2>4, <2>6 DEF ShownGrows
<1>2. ASSUME NEW c \in Clients, NEW ch \in sync[c].pulled, Apply(c, ch)
      PROVE  SameShown' /\ ShownGrows
  <2>1. ch \in Pulled /\ client[c] \in Document
    BY WithinTypes DEF Within, ClientsIn, SyncsIn
  <2> DEFINE e == Received(client[c], ch)
             k == Saved(client[c], store[c], ch)
  <2>2. client' = [client EXCEPT ![c] = e] /\ store' = [store EXCEPT ![c] = k]
    BY <1>2 DEF Apply
  <2>3. k.latest = e.latest
    BY <2>1, ReceivedShows DEF Saved, SameShown
  <2>4. /\ \A n \in Names \ {ch.name} : e.latest[n] = client[c].latest[n]
        /\ e.latest[ch.name] # NoRow /\ e.latest[ch.name].up \in Nat
        /\ client[c].latest[ch.name] # NoRow =>
             e.latest[ch.name].up >= client[c].latest[ch.name].up
    BY <2>1, ReceivedShows
  <2> HIDE DEF e, k
  <2>5. SameShown'
    BY <2>2, <2>3 DEF SameShown, Within, ClientsIn
  <2>6. ASSUME NEW b \in Clients, NEW m \in Names,
               client[b].latest[m] # NoRow
        PROVE  /\ client'[b].latest[m] # NoRow
               /\ client'[b].latest[m].up \in Nat
               /\ client'[b].latest[m].up >= client[b].latest[m].up
    <3>1. client[b].latest[m].up \in Nat
      BY <2>6, LatestWithin
    <3>2. CASE b = c
      BY <2>2, <2>4, <2>6, <3>1, <3>2 DEF Within, ClientsIn
    <3>3. CASE b # c
      BY <2>2, <2>6, <3>1, <3>3 DEF Within, ClientsIn
    <3> QED
      BY <3>2, <3>3
  <2> QED
    BY <2>5, <2>6 DEF ShownGrows
<1>3. ASSUME \A c \in Clients : client'[c].latest = client[c].latest,
             store' = store
      PROVE  SameShown' /\ ShownGrows
  BY <1>3, LatestWithin DEF SameShown, ShownGrows
<1>4. ASSUME NEW c \in Clients, Restart(c) PROVE SameShown' /\ ShownGrows
  <2>1. \A b \in Clients : client'[b].latest = client[b].latest
    BY <1>4 DEF Restart, SameShown, Within, ClientsIn
  <2> QED
    BY <1>3, <1>4, <2>1 DEF Restart
<1>5. CASE UNCHANGED <<client, store>>
  BY <1>3, <1>5
<1> QED
  BY <1>1, <1>2, <1>4, <1>5 DEF Next, SyncStep, WorkStep, Tick, SendChanges,
     NoteTime, Pull, Finish, Abort, Stamp, Write, Dequeue, Crash, vars,
     clientVars, Vals


(* A row is replaced at the time of the clock, or not at all.              *)
LEMMA RowsStamped ==
    ASSUME Within, [Next]_vars, NEW n \in Names
    PROVE  \/ srv'[n] = srv[n]
           \/ srv'[n] # NoRow /\ srv'[n].at = now
<1>1. ASSUME NEW w \in Workers, Write(w)
      PROVE  srv'[n] = srv[n] \/ (srv'[n] # NoRow /\ srv'[n].at = now)
  <2> DEFINE m == worker[w].delta.name
             row == Put(srv[m], worker[w].delta, worker[w].re)
  <2>1. worker[w] \in BusyIn(Past, Drawn) /\ m \in Names
    BY <1>1 DEF Within, Write, BusyIn, DeltasIn, Free, ServerIn
  <2>2. row \in SrvIn(Past, Drawn) /\ NoRow \notin SrvIn(Past, Drawn)
    BY <2>1, PutWithin, Bounds DEF ServerIn, Within
  <2>3. row = srv[m] \/ row.at = now
    BY DEF Put
  <2>4. srv' = [srv EXCEPT ![m] = row]
    BY <1>1 DEF Write
  <2> HIDE DEF row, m
  <2> QED
    BY <2>1, <2>2, <2>3, <2>4 DEF Within, ServerIn
<1>2. CASE srv' = srv
  BY <1>2
<1> QED
  BY <1>1, <1>2 DEF Next, SyncStep, WorkStep, Tick, Edit, SendChanges, NoteTime,
     Pull, Apply, Finish, Abort, Restart, Stamp, Dequeue, Crash, vars,
     clientVars, serverVars


LEMMA TimesAreNat ==
    ASSUME Within
    PROVE  /\ now \in Nat
           /\ \A c \in Clients :
                /\ since[c] # Null => since[c] \in Nat /\ since[c] <= now
                /\ sync[c].newSince # Null =>
                     sync[c].newSince \in Nat /\ sync[c].newSince <= now
           /\ \A n \in Names : srv[n] # NoRow =>
                srv[n].re \in Nat /\ srv[n].at \in Nat /\ srv[n].up \in Nat
<1>1. now \in Nat
  BY Bounds DEF Within
<1>2. \A t \in Past : t \in Nat /\ t <= now
  BY <1>1 DEF Past
<1>3. \A c \in Clients : since[c] \in Past \cup {Null}
                         /\ sync[c].newSince \in Past \cup {Null}
  BY DEF Within, ClientsIn, SyncsIn
<1>4. \A n \in Names : srv[n] # NoRow =>
         srv[n].re \in Past /\ srv[n].at \in Past /\ srv[n].up \in Past
  BY DEF Within, ServerIn, SrvIn
<1> QED
  BY <1>1, <1>2, <1>3, <1>4

(* What is caught stays caught: the client shows nothing older, and a row  *)
(* that is replaced in time carries the time of the clock.                 *)
LEMMA StaysCaught ==
    ASSUME Within, ShownGrows, [Next]_vars, NEW c \in Clients,
           NEW n \in Names, NEW t \in Nat, t <= now, Caught(c, n, t)
    PROVE  Caught(c, n, t)'
<1>1. SUFFICES ASSUME srv'[n] # NoRow, srv'[n].at = srv'[n].re, srv'[n].re < t
               PROVE  UpToDate(c, n)'
  BY DEF Caught, OnTime
<1>2. now \in Nat
  BY TimesAreNat
<1>3. ~(srv'[n].at = now)
  BY <1>1, <1>2
<1>4. srv'[n] = srv[n]
  BY <1>3, RowsStamped
<1>5. UpToDate(c, n) /\ srv[n] # NoRow
  BY <1>1, <1>4 DEF Caught, OnTime
<1>6. client[c].latest[n] # NoRow /\ client[c].latest[n].up \in Nat
      /\ client[c].latest[n].up >= srv[n].up /\ srv[n].up \in Nat
  BY <1>5, LatestWithin, TimesAreNat DEF UpToDate
<1>7. client'[c].latest[n] # NoRow /\ client'[c].latest[n].up \in Nat
      /\ client'[c].latest[n].up >= client[c].latest[n].up
  BY <1>6 DEF ShownGrows
<1>8. client'[c].latest[n].up >= srv'[n].up
  BY <1>4, <1>6, <1>7
<1> QED
  BY <1>7, <1>8 DEF UpToDate


(* How a sync gets to where it asks no more, and how its time is kept.     *)
LEMMA SyncMoves ==
    ASSUME Within, [Next]_vars, NEW c \in Clients
    PROVE  /\ \/ since'[c] = since[c]
              \/ /\ sync[c].pc = "pulled" /\ sync[c].pulled = {}
                 /\ since'[c] = sync[c].newSince
           /\ sync'[c].pc = "pulled" =>
                \/ sync'[c] = sync[c]
                \/ \E ch \in sync[c].pulled : Apply(c, ch)
                \/ Pull(c)
<1> USE DEF clientVars
<1> DEFINE Moves ==
             /\ \/ since'[c] = since[c]
                \/ /\ sync[c].pc = "pulled" /\ sync[c].pulled = {}
                   /\ since'[c] = sync[c].newSince
             /\ sync'[c].pc = "pulled" =>
                  \/ sync'[c] = sync[c]
                  \/ \E ch \in sync[c].pulled : Apply(c, ch)
                  \/ Pull(c)
<1>0. /\ sync \in [Clients -> SyncsIn(Past)]
      /\ since \in [Clients -> Past \cup {Null}]
  BY DEF Within, ClientsIn
<1>1. ASSUME NEW b \in Clients, SendChanges(b) PROVE Moves
  <2>1. sync'[c] = sync[c] \/ sync'[c].pc = "sent"
    BY <1>0, <1>1 DEF SendChanges, SyncsIn
  <2> QED
    BY <1>1, <2>1 DEF SendChanges
<1>2. ASSUME NEW b \in Clients, NoteTime(b) PROVE Moves
  BY <1>0, <1>2 DEF NoteTime
<1>3. ASSUME NEW b \in Clients, Pull(b) PROVE Moves
  BY <1>0, <1>3 DEF Pull
<1>4. ASSUME NEW b \in Clients, NEW ch \in sync[b].pulled, Apply(b, ch)
      PROVE  Moves
  BY <1>0, <1>4 DEF Apply
<1>5. ASSUME NEW b \in Clients, Finish(b) PROVE Moves
  BY <1>0, <1>5 DEF Finish, Idle
<1>6. ASSUME NEW b \in Clients, Abort(b) \/ Restart(b) PROVE Moves
  BY <1>0, <1>6 DEF Abort, Restart, Idle
<1>7. ASSUME UNCHANGED <<since, sync>> PROVE Moves
  BY <1>7
<1> HIDE DEF Moves
<1>8. ASSUME NEW b \in Clients, SyncStep(b) PROVE Moves
  BY <1>1, <1>2, <1>3, <1>4, <1>5, <1>8 DEF SyncStep
<1>9. ASSUME ~ \E b \in Clients : SyncStep(b) \/ Abort(b) \/ Restart(b)
      PROVE  UNCHANGED <<since, sync>>
  BY <1>9 DEF Next, WorkStep, Tick, Edit, Stamp, Write, Dequeue, Crash, vars
<1>10. Moves
  BY <1>6, <1>7, <1>8, <1>9
<1> QED
  BY <1>10 DEF Moves

LEMMA LastStep ==
    ASSUME Within, ShownGrows, BeforeLast, BeforeThis, [Next]_vars
    PROVE  BeforeLast'
<1>1. ASSUME NEW c \in Clients, NEW n \in Names, NEW t, t = since'[c],
             t # Null
      PROVE  Caught(c, n, t)'
  <2>1. CASE since'[c] = since[c]
    <3>1. t \in Nat /\ t <= now /\ Caught(c, n, t)
      BY <1>1, <2>1, TimesAreNat DEF BeforeLast
    <3> QED
      BY <3>1, StaysCaught
  <2>2. CASE /\ sync[c].pc = "pulled" /\ sync[c].pulled = {}
             /\ since'[c] = sync[c].newSince
    <3>1. t \in Nat /\ t <= now /\ Caught(c, n, t)
      BY <1>1, <2>2, TimesAreNat DEF BeforeThis
    <3> QED
      BY <3>1, StaysCaught
  <2> QED
    BY <2>1, <2>2, SyncMoves
<1> QED
  BY <1>1 DEF BeforeLast, Caught, UpToDate, OnTime

LEMMA ThisStep ==
    ASSUME WholePages, Within, ShownGrows, BeforeLast, BeforeThis, [Next]_vars
    PROVE  BeforeThis'
<1>1. ASSUME NEW c \in Clients, NEW n \in Names, sync'[c].pc = "pulled",
             NEW t, t = sync'[c].newSince
      PROVE  Caught(c, n, t)' \/ FeedRow(n)' \in sync'[c].pulled
  <2>0. \A u \in Nat : (u <= now /\ Caught(c, n, u)) => Caught(c, n, u)'
    BY StaysCaught
  <2>1. CASE sync'[c] = sync[c]
    <3>1. t \in Nat /\ t <= now
      BY <1>1, <2>1, TimesAreNat DEF Within, Phases
    <3>2. CASE srv'[n] = srv[n]
      <4>1. Caught(c, n, t) \/ FeedRow(n) \in sync[c].pulled
        BY <1>1, <2>1 DEF BeforeThis
      <4> QED
        BY <2>0, <2>1, <3>1, <3>2, <4>1 DEF FeedRow
    <3>3. CASE srv'[n].at = now
      BY <3>1, <3>3, TimesAreNat DEF Caught, OnTime
    <3> QED
      BY <3>2, <3>3, RowsStamped
  <2>2. ASSUME NEW ch \in sync[c].pulled, Apply(c, ch)
        PROVE  Caught(c, n, t)' \/ FeedRow(n)' \in sync'[c].pulled
    <3>1. /\ sync[c].pc = "pulled" /\ srv' = srv
          /\ client'[c] = Received(client[c], ch)
          /\ sync'[c].pulled = sync[c].pulled \ {ch}
          /\ sync'[c].newSince = sync[c].newSince
      BY <2>2 DEF Apply, serverVars, Within, ClientsIn, SyncsIn
    <3>2. t \in Nat /\ t <= now
      BY <1>1, <3>1, TimesAreNat DEF Within, Phases
    <3>3. CASE ch = FeedRow(n)
      <4>1. ch \in Pulled /\ client[c] \in Document
        BY WithinTypes DEF Within, ClientsIn, SyncsIn
      <4>2. client'[c].latest[n] # NoRow
            /\ client'[c].latest[n].up >= srv[n].up
        BY <3>1, <3>3, <4>1, ReceivedShows DEF FeedRow
      <4> QED
        BY <3>1, <4>2 DEF Caught, UpToDate
    <3>4. CASE ch # FeedRow(n)
      <4>1. Caught(c, n, t) \/ FeedRow(n) \in sync[c].pulled
        BY <1>1, <3>1 DEF BeforeThis
      <4> QED
        BY <2>0, <3>1, <3>2, <3>4, <4>1 DEF FeedRow
    <3> QED
      BY <3>3, <3>4
  <2>3. CASE Pull(c)
    <3>1. PICK N \in Pages(since[c]) :
            sync' = [sync EXCEPT ![c] =
                       [pc |-> "pulled", newSince |-> @.newSince,
                        pulled |-> {FeedRow(m) : m \in N}]]
      BY <2>3 DEF Pull
    <3>2. N = Recent(since[c])
      BY <3>1, PagesAreWhole
    <3>3. /\ sync'[c].pulled = {FeedRow(m) : m \in Recent(since[c])}
          /\ sync'[c].newSince = sync[c].newSince
      BY <3>1, <3>2 DEF Within, ClientsIn
    <3>4. srv' = srv /\ sync[c].pc = "noted" /\ client' = client
      BY <2>3 DEF Pull, serverVars
    <3>5. CASE n \in Recent(since[c])
      BY <3>3, <3>4, <3>5 DEF FeedRow
    <3>6. CASE n \notin Recent(since[c])
      <4>1. srv[n] = NoRow \/ (since[c] # Null /\ ~(srv[n].re >= since[c]))
        BY <3>6 DEF Recent
      <4>2. CASE srv[n] = NoRow
        BY <3>4, <4>2 DEF Caught
      <4>3. CASE srv[n] # NoRow /\ since[c] # Null /\ ~(srv[n].re >= since[c])
        <5>1. srv[n].re < since[c]
          BY <4>3, TimesAreNat
        <5>2. OnTime(n) => UpToDate(c, n)
          BY <4>3, <5>1 DEF BeforeLast, Caught
        <5> QED
          BY <3>4, <5>2 DEF Caught, OnTime, UpToDate
      <4> QED
        BY <4>1, <4>2, <4>3
    <3> QED
      BY <3>5, <3>6
  <2> QED
    BY <1>1, <2>1, <2>2, <2>3, SyncMoves
<1> QED
  BY <1>1 DEF BeforeThis, Caught, UpToDate, OnTime, FeedRow

(* If a call returns all there is, a client never passes over a row that   *)
(* was committed in the millisecond it is stamped with: it has applied it, *)
(* or will ask for it again (client/db.js:192-211,                         *)
(* changes-query.js:140-143).                                              *)
THEOREM OnTimeIsSeen == WholePages /\ Spec => []OnTimeNotSkipped
<1>1. ASSUME WholePages PROVE Spec => []OnTimeNotSkipped
  <2>1. Init => Within /\ SameShown /\ BeforeLast /\ BeforeThis
    <3>1. Init => SameShown /\ BeforeLast /\ BeforeThis
      BY DEF Init, SameShown, BeforeLast, BeforeThis, Idle
    <3> QED
      BY <3>1, InitWithin
  <2>2. Within /\ SameShown /\ BeforeLast /\ BeforeThis /\ [Next]_vars
          => (Within /\ SameShown /\ BeforeLast /\ BeforeThis)'
    BY <1>1, WithinStep, ShownStep, LastStep, ThisStep
  <2> QED
    BY <2>1, <2>2, CaughtMeans, PTL DEF Spec
<1> QED
  BY <1>1

=============================================================================
