----------------------------- MODULE ClientDoc ------------------------------
(***************************************************************************)
(* One client in front of a server that sends the changes of a feed in any *)
(* order and any number of times, while the user edits                     *)
(* (scripts/client/doc.js, collection.js).                                 *)
(***************************************************************************)
EXTENDS ClientState

CONSTANTS Feed,       \* what the server sends: [name, val, up]
          MaxTime,    \* bound: the last millisecond of the model
          Edits,      \* bound: how many times the user edits
          Restarts    \* bound: how often the client is closed and opened

ASSUME ClientDocAssumption ==
    /\ Feed \subseteq Arrived
    /\ \A ch \in Feed : ch.name = Tomb => ch.val = Null
    /\ MaxTime \in Nat /\ Edits \in Nat /\ Restarts \in Nat

VARIABLES cd,         \* the document in memory
          store,      \* the document in the client's store
          now,        \* the client's clock
          edits,      \* edits left to the user
          restarts,   \* restarts left
          received    \* the changes that have arrived at least once

vars == <<cd, store, now, edits, restarts, received>>

Init == /\ cd = EmptyDoc /\ store = EmptyDoc
        /\ now = 1
        /\ edits = Edits /\ restarts = Restarts
        /\ received = {}

Tick == /\ now < MaxTime
        /\ now' = now + 1
        /\ UNCHANGED <<cd, store, edits, restarts, received>>

(* Each call of the user ends in save(); an edit counts as made when its   *)
(* promise is resolved.                                                    *)
Set(n, v) == /\ edits > 0
             /\ cd' = SetLocal(cd, n, v, now)
             /\ store' = cd'
             /\ edits' = edits - 1
             /\ UNCHANGED <<now, restarts, received>>

Destroy == /\ edits > 0
           /\ cd' = DestroyLocal(cd, now)
           /\ store' = cd'
           /\ edits' = edits - 1
           /\ UNCHANGED <<now, restarts, received>>

(* The clocks agree: nothing arrives from the client's future.             *)
Receive(ch) == /\ ch.up <= now
               /\ cd' = Received(cd, ch)
               /\ store' = Saved(cd, store, ch)
               /\ received' = received \cup {ch}
               /\ UNCHANGED <<now, edits, restarts>>

(* The application is closed, at any time, and opened again: the document  *)
(* is the one in the store.                                                *)
Restart == /\ restarts > 0
           /\ cd' = store
           /\ restarts' = restarts - 1
           /\ UNCHANGED <<store, now, edits, received>>

Next == \/ Tick
        \/ \E n \in Names, v \in Values \cup {Null} : Set(n, v)
        \/ Destroy
        \/ Restart
        \/ \E ch \in Feed : Receive(ch)

Spec == Init /\ [][Next]_vars

-----------------------------------------------------------------------------
TypeOK ==
    /\ cd \in Document /\ store \in Document
    /\ now \in Nat /\ edits \in Nat /\ restarts \in Nat
    /\ received \subseteq Feed

(* What a client shows is never replaced by something older, by the user   *)
(* or by the server, duplicated and reordered feeds included (doc.js:      *)
(* 308-313), as long as the clocks agree.                                  *)
NeverOlder ==
    [][\A n \in Names : cd.latest[n] # NoRow
         => /\ cd'.latest[n] # NoRow
            /\ cd'.latest[n].up >= cd.latest[n].up]_vars

(* Only its own confirmation removes a local change from the list of what  *)
(* is still to be sent (doc.js:193-215): no edit is forgotten because of   *)
(* another one, newer or in the same millisecond.                          *)
OnlyConfirmedForgotten ==
    [][\A c \in cd.changes \ cd'.changes :
          \E ch \in Feed : Receive(ch) /\ ch.name = c.name /\ ch.up = c.up
                                       /\ ch.val = c.val]_vars

(* Two edits of one attribute in one millisecond are two changes, and the  *)
(* later has the greater sequence number, so that the server can order     *)
(* them (doc.js:101-104): the change that says what the client shows is    *)
(* the TSV greatest of those it still has to send for that time.           *)
NotAbove(c, shown) == \/ c.seq < shown.seq
                      \/ c.seq = shown.seq /\ c.val = Sent(shown.val)
ShownIsGreatestSent ==
    \A c \in cd.changes : c.name # Tomb /\ cd.latest[c.name].up = c.up
       => NotAbove(c, cd.latest[c.name])

(* "Update after del?" (doc.js:138), at every moment for a user who did    *)
(* nothing, whatever the feed, in whatever order it has come so far (it    *)
(* has no ORDER BY), repeatedly and over restarts.  A deleted document     *)
(* shows the time of a deletion that has come, and no value that has come  *)
(* is later, unless it has been removed; and a document of which           *)
(* everything that has come is older than every deletion is deleted.  What *)
(* is left open, because the code leaves it to the order of arrival, is a  *)
(* removal after the deletion, a value in its millisecond, and a change    *)
(* between two deletions.                                                  *)
Deletions    == {ch \in received : ch.name = Tomb}
AttrChanges  == received \ Deletions
Removed(ch)  == \E rem \in AttrChanges : /\ rem.name = ch.name
                                         /\ rem.val = Null
                                         /\ rem.up >= ch.up
DeletedIfLater(d) ==
    d.destroyed # Null =>
       /\ \E del \in Deletions : del.up = d.destroyed
       /\ \A ch \in AttrChanges : ch.up > d.destroyed => Removed(ch)

AllOlder(dels, chs) == \A ch \in chs, del \in dels :
                          ch.up < del.up \/ (ch.up = del.up /\ ch.val = Null)
DeletedIfLast(d) ==
    Deletions # {} /\ AllOlder(Deletions, AttrChanges) => d.destroyed # Null

VisibleAsTimesTell ==
    edits = Edits => DeletedIfLater(cd) /\ DeletedIfLast(cd)
=============================================================================
