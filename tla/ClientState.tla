---------------------------- MODULE ClientState -----------------------------
(***************************************************************************)
(* A document in a client (scripts/client/doc.js): what local edits and    *)
(* the changes that arrive from a server do to it.  The client keeps, per  *)
(* attribute, the value it shows and when it was changed, and a list of    *)
(* the changes no server has confirmed yet; deletion only sets a time      *)
(* stamp, as the tombstone is needed to ignore outdated changes.  All of   *)
(* it is in memory and, as of the last save, in a store, from which a      *)
(* client that starts again loads it (_initStore).                         *)
(*                                                                         *)
(* The operators are functions of the document's state: ClientDoc makes a  *)
(* specification of one client from them, Sync one of several clients and  *)
(* a server.                                                               *)
(***************************************************************************)
EXTENDS Tsv

CONSTANTS Names,      \* the attributes
          Tomb,       \* the missing name of a change that deletes the document
          Falsy,      \* the values JavaScript treats as false: 0, "", false
          NoRow       \* the client knows nothing of the attribute

Columns == Names \cup {Tomb}
Vals    == Values \cup {Null}
Shown   == [val : Vals, up : Nat, seq : Nat]
Change  == [name : Columns, val : Vals, up : Nat, seq : Nat]
Arrived == [name : Columns, val : Vals, up : Nat]
Document == [latest    : [Names -> Shown \cup {NoRow}],
             changes   : SUBSET Change,
             destroyed : Nat \cup {Null},
             updated   : Nat \cup {Null}]

ASSUME ClientStateAssumption ==
    /\ Tomb \notin Names
    /\ Falsy \subseteq Values
    /\ NoRow \notin Shown

EmptyDoc == [latest    |-> [n \in Names |-> NoRow],
             changes   |-> {},
             destroyed |-> Null,
             updated   |-> Null]

(* _change stores a value only if it is truthy, and so does _formatChange. *)
Sent(v) == IF v \in Falsy THEN Null ELSE v

(* Mutants of NextSeq: writes of one millisecond are not told apart; the   *)
(* first write of a millisecond has no sequence number.                    *)
SeqAlwaysZero(cd, n, t) == 0
SeqFromSecond(cd, n, t) == IF cd.latest[n] # NoRow /\ cd.latest[n].up = t
                           THEN 1 ELSE Null

(* Back-to-back writes in one millisecond are told apart by a sequence     *)
(* number.                                                                 *)
NextSeq(cd, n, t) == IF cd.latest[n] # NoRow /\ cd.latest[n].up = t
                     THEN cd.latest[n].seq + 1
                     ELSE 0

(* An update after the deletion brings the document back.                  *)
Revived(cd, t) == IF cd.destroyed # Null /\ t > cd.destroyed
                  THEN Null ELSE cd.destroyed

(* Doc._change for an attribute: what it shows from then on, and the       *)
(* change to be sent if it is tracked.                                     *)
RowOf(cd, n, v, t) == [val |-> v, up |-> t, seq |-> NextSeq(cd, n, t)]
ToSend(cd, n, v, t) == [name |-> n, val |-> Sent(v), up |-> t,
                        seq |-> NextSeq(cd, n, t)]

Changed(cd, n, v, t, changes) ==
    [latest    |-> [cd.latest EXCEPT ![n] = RowOf(cd, n, v, t)],
     changes   |-> changes,
     destroyed |-> Revived(cd, t),
     updated   |-> cd.updated]

(* Doc.set and Doc.unset by the user at time t.                            *)
SetLocal(cd, n, v, t) ==
    Changed(cd, n, v, t, cd.changes \cup {ToSend(cd, n, v, t)})

(* Doc.destroy by the user.                                                *)
DestroyLocal(cd, t) ==
    [cd EXCEPT !.destroyed = t,
               !.changes = @ \cup {[name |-> Tomb, val |-> Null,
                                    up |-> t, seq |-> 0]}]

(* Mutants of Confirms: an outdated row of the attribute, or a row of the  *)
(* same time with another value, counts as the confirmation.               *)
ConfirmsAnyTime(ch, c) == c.name = ch.name /\ c.val = ch.val
ConfirmsAnyValue(ch, c) == c.name = ch.name /\ c.up = ch.up

(* Doc._record: a local change is confirmed, and forgotten, when the very  *)
(* same change comes back.  The feed carries no sequence number, which     *)
(* counts as 0.                                                            *)
Confirms(ch, c) == /\ c.name = ch.name
                   /\ c.val = ch.val
                   /\ c.up = ch.up
                   /\ c.seq = 0

Recorded(cd, ch) ==
    [latest    |-> cd.latest,
     changes   |-> {c \in cd.changes : ~Confirms(ch, c)},
     destroyed |-> IF /\ ch.name = Tomb
                      /\ cd.updated = Null \/ ch.up >= cd.updated
                   THEN ch.up ELSE cd.destroyed,
     updated   |-> cd.updated]

(* Mutant of Moved: a change from the server does not count as an update.  *)
NotMoved(cd, ch) == cd

(* Doc._set, for a change that comes from the server, also moves           *)
(* updatedAt; unset does not.                                              *)
Moved(cd, ch) ==
    IF ch.val # Null /\ (cd.updated = Null \/ ch.up > cd.updated)
    THEN [cd EXCEPT !.updated = ch.up]
    ELSE cd

(* Doc._saveChange: is there something to apply?  The cases that compare   *)
(* change.seq with a number never apply: the feed has no seq, and          *)
(* undefined is neither above nor equal.                                   *)
IsNews(cd, ch) ==
    IF ch.name = Tomb THEN cd.updated = Null \/ ch.up > cd.updated
    ELSE cd.latest[ch.name] = NoRow \/ ch.up > cd.latest[ch.name].up

(* The news itself: Doc._set, Doc.unset or Doc.destroy, not tracked.       *)
Applied(cd, ch) ==
    IF ch.name = Tomb THEN [cd EXCEPT !.destroyed = ch.up]
    ELSE Moved(Changed(cd, ch.name, ch.val, ch.up, cd.changes), ch)

Received(cd, ch) ==
    Recorded(IF IsNews(cd, ch) THEN Applied(cd, ch) ELSE cd, ch)

(* Mutant of Saved: only what the user does is saved.                      *)
SavedByUser(cd, kept, ch) == kept

(* What the client's store holds of the document when ch has arrived, if   *)
(* it held kept before.  News are saved before they are recorded, anything *)
(* else is recorded and not saved (doc.js:319-331): the store lags behind  *)
(* until the next save of the document.                                    *)
Saved(cd, kept, ch) == IF IsNews(cd, ch) THEN Applied(cd, ch) ELSE kept
=============================================================================
