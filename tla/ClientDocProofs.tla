-------------------------- MODULE ClientDocProofs ---------------------------
(***************************************************************************)
(* Machine-checked theorems about ClientDoc, for any attributes, values,   *)
(* feed, and number of edits and restarts.                                 *)
(***************************************************************************)
EXTENDS ClientDoc, TLAPS

(***************************************************************************)
(* What the operators of ClientState do to a document, for any attributes  *)
(* and values.  SyncProofs has the same lemmas.                            *)
(***************************************************************************)

LEMMA Constants ==
    /\ Tomb \notin Names /\ NoRow \notin Shown /\ Null \notin Nat
    /\ \A v \in Vals : Sent(v) \in Vals
    /\ \A ch \in Arrived : /\ ch.name \in Columns /\ ch.val \in Vals
                           /\ ch.up \in Nat
                           /\ ch.name # Tomb => ch.name \in Names
BY ClientStateAssumption, TsvAssumption DEF Sent, Vals, Columns, Arrived

LEMMA RowTyped ==
    ASSUME NEW d \in Document, NEW n \in Names, NEW v \in Vals, NEW t \in Nat
    PROVE  /\ RowOf(d, n, v, t) \in Shown
           /\ RowOf(d, n, v, t) # NoRow
           /\ ToSend(d, n, v, t) \in Change
<1>1. d.latest[n] \in Shown \cup {NoRow}
  BY DEF Document
<1>2. NextSeq(d, n, t) \in Nat
  BY <1>1 DEF NextSeq, Shown
<1>3. RowOf(d, n, v, t) \in Shown
  BY <1>2 DEF Shown, RowOf
<1>4. ToSend(d, n, v, t) \in Change
  BY <1>2, Constants DEF Change, Columns, ToSend
<1> QED
  BY <1>3, <1>4, Constants

(* One attribute is changed to what is shown from then on; nothing else    *)
(* that is shown moves.                                                    *)
LEMMA ChangedShows ==
    ASSUME NEW d \in Document, NEW n \in Names, NEW v \in Vals, NEW t \in Nat,
           NEW C \in SUBSET Change
    PROVE  /\ Changed(d, n, v, t, C) \in Document
           /\ Changed(d, n, v, t, C).changes = C
           /\ Changed(d, n, v, t, C).latest
                = [d.latest EXCEPT ![n] = RowOf(d, n, v, t)]
<1> DEFINE L == [d.latest EXCEPT ![n] = RowOf(d, n, v, t)]
<1>1. /\ d.latest \in [Names -> Shown \cup {NoRow}]
      /\ d.destroyed \in Nat \cup {Null} /\ d.updated \in Nat \cup {Null}
  BY DEF Document
<1>2. Revived(d, t) \in Nat \cup {Null}
  BY <1>1 DEF Revived
<1>3. L \in [Names -> Shown \cup {NoRow}]
  BY <1>1, RowTyped
<1> QED
  BY <1>1, <1>2, <1>3 DEF Document, Changed

(* What arrives forgets changes, and touches nothing that is shown.        *)
LEMMA RecordedShows ==
    ASSUME NEW d \in Document, NEW ch \in Arrived
    PROVE  /\ Recorded(d, ch) \in Document
           /\ Recorded(d, ch).latest = d.latest
           /\ Recorded(d, ch).changes
                = {c \in d.changes : ~Confirms(ch, c)}
<1> DEFINE C == {c \in d.changes : ~Confirms(ch, c)}
           D == IF ch.name = Tomb /\ (d.updated = Null \/ ch.up >= d.updated)
                THEN ch.up ELSE d.destroyed
<1>1. Recorded(d, ch) = [latest |-> d.latest, changes |-> C,
                         destroyed |-> D, updated |-> d.updated]
  BY DEF Recorded
<1>2. C \subseteq Change /\ D \in Nat \cup {Null}
  BY Constants DEF Document
<1> HIDE DEF C, D
<1>3. Recorded(d, ch) \in Document
  BY <1>1, <1>2 DEF Document
<1> QED
  BY <1>1, <1>3 DEF C

LEMMA MovedShows ==
    ASSUME NEW d \in Document, NEW ch, ch.up \in Nat
    PROVE  /\ Moved(d, ch) \in Document
           /\ Moved(d, ch).latest = d.latest
           /\ Moved(d, ch).changes = d.changes
<1> DEFINE e == [d EXCEPT !.updated = ch.up]
<1>1. d = [latest |-> d.latest, changes |-> d.changes,
           destroyed |-> d.destroyed, updated |-> d.updated]
  BY DEF Document
<1>2. e = [latest |-> d.latest, changes |-> d.changes,
           destroyed |-> d.destroyed, updated |-> ch.up]
  BY <1>1
<1>3. Moved(d, ch) = d \/ Moved(d, ch) = e
  BY DEF Moved
<1> HIDE DEF e
<1>4. e \in Document
  BY <1>2 DEF Document
<1> QED
  BY <1>2, <1>3, <1>4

(* News put one attribute, or none, to the time of the change.             *)
LEMMA AppliedShows ==
    ASSUME NEW d \in Document, NEW ch \in Arrived
    PROVE  /\ Applied(d, ch) \in Document
           /\ Applied(d, ch).changes = d.changes
           /\ ch.name = Tomb => Applied(d, ch).latest = d.latest
           /\ ch.name # Tomb =>
                \E row \in Shown :
                   /\ row # NoRow /\ row.up = ch.up
                   /\ Applied(d, ch).latest = [d.latest EXCEPT ![ch.name] = row]
<1>1. CASE ch.name = Tomb
  <2>1. d = [latest |-> d.latest, changes |-> d.changes,
             destroyed |-> d.destroyed, updated |-> d.updated]
    BY DEF Document
  <2>2. Applied(d, ch) = [latest |-> d.latest, changes |-> d.changes,
                          destroyed |-> ch.up, updated |-> d.updated]
    BY <1>1, <2>1 DEF Applied
  <2> QED
    BY <1>1, <2>2, Constants DEF Document
<1>2. CASE ch.name # Tomb
  <2> DEFINE e == Changed(d, ch.name, ch.val, ch.up, d.changes)
             row == RowOf(d, ch.name, ch.val, ch.up)
  <2>1. /\ e \in Document /\ row \in Shown /\ row # NoRow
        /\ e.latest = [d.latest EXCEPT ![ch.name] = row]
        /\ e.changes = d.changes
    <3>1. d.changes \in SUBSET Change
      BY DEF Document
    <3> QED
      BY <1>2, <3>1, Constants, RowTyped, ChangedShows
  <2>2. /\ Moved(e, ch) \in Document
        /\ Moved(e, ch).latest = e.latest
        /\ Moved(e, ch).changes = e.changes
    BY <1>2, <2>1, Constants, MovedShows
  <2>3. Applied(d, ch) = Moved(e, ch)
    BY <1>2 DEF Applied
  <2> QED
    BY <1>2, <2>1, <2>2, <2>3 DEF RowOf
<1> QED
  BY <1>1, <1>2

(* What is known of a document, in memory as in the store: nothing it      *)
(* shows is from the future, and of no attribute it has still to send a    *)
(* change that is above what it shows.                                     *)
Known(d) ==
    /\ \A n \in Names : d.latest[n] # NoRow => d.latest[n].up <= now
    /\ \A c \in d.changes : c.name # Tomb =>
         /\ d.latest[c.name] # NoRow
         /\ c.up <= d.latest[c.name].up
         /\ d.latest[c.name].up = c.up => NotAbove(c, d.latest[c.name])

(* The store lags behind only in what has been confirmed.                  *)
StoreLags == /\ store.latest = cd.latest
             /\ cd.changes \subseteq store.changes

IInv == TypeOK /\ Known(cd) /\ Known(store) /\ StoreLags

LEMMA FeedArrives == Feed \subseteq Arrived
BY ClientDocAssumption

LEMMA TypeStep ==
    ASSUME TypeOK, [Next]_vars PROVE TypeOK'
<1>1. ASSUME NEW n \in Names, NEW v \in Vals, Set(n, v) PROVE TypeOK'
  <2>1. cd \in Document /\ now \in Nat /\ cd.changes \subseteq Change
    BY DEF TypeOK, Document
  <2>2. cd.changes \cup {ToSend(cd, n, v, now)} \in SUBSET Change
    <3>1. ToSend(cd, n, v, now) \in Change
      BY <2>1, RowTyped
    <3> QED
      BY <2>1, <3>1
  <2>3. cd' \in Document
    BY <1>1, <2>1, <2>2, ChangedShows DEF Set, SetLocal
  <2> QED
    BY <1>1, <2>3 DEF Set, TypeOK
<1>2. ASSUME Destroy PROVE TypeOK'
  <2> DEFINE ch == [name |-> Tomb, val |-> Null, up |-> now, seq |-> 0]
  <2>1. cd \in Document /\ now \in Nat
    BY DEF TypeOK
  <2>2. ch \in Change
    BY <2>1 DEF Change, Columns, Vals
  <2>3. cd = [latest |-> cd.latest, changes |-> cd.changes,
              destroyed |-> cd.destroyed, updated |-> cd.updated]
    BY <2>1 DEF Document
  <2>4. cd' = [latest |-> cd.latest, changes |-> cd.changes \cup {ch},
               destroyed |-> now, updated |-> cd.updated]
    BY <1>2, <2>3 DEF Destroy, DestroyLocal
  <2>5. cd' \in Document
    BY <2>1, <2>2, <2>4 DEF Document
  <2> QED
    BY <1>2, <2>5 DEF Destroy, TypeOK
<1>3. ASSUME Restart PROVE TypeOK'
  BY <1>3 DEF Restart, TypeOK
<1>4. ASSUME NEW ch \in Feed, Receive(ch) PROVE TypeOK'
  BY <1>4, FeedArrives, AppliedShows, RecordedShows
     DEF Receive, Received, Saved, TypeOK
<1>5. ASSUME Tick PROVE TypeOK'
  BY <1>5 DEF Tick, TypeOK
<1>6. CASE UNCHANGED vars
  BY <1>6 DEF vars, TypeOK
<1> QED
  BY <1>1, <1>2, <1>3, <1>4, <1>5, <1>6 DEF Next, Vals

(* The columns of _createDocStore (doc.js:37-46) keep their types, in      *)
(* memory and in the store.                                                *)
THEOREM TypeCorrect == Spec => []TypeOK
<1>1. Init => TypeOK
  BY ClientDocAssumption DEF Init, TypeOK, EmptyDoc, Document
<1> QED
  BY <1>1, TypeStep, PTL DEF Spec

-----------------------------------------------------------------------------
(* What a step does to what is shown: an attribute is left alone or gets a *)
(* row that is not older.                                                  *)
Advances(old, new) ==
    \A n \in Names : \/ new[n] = old[n]
                     \/ /\ new[n] # NoRow
                        /\ old[n] # NoRow => new[n].up >= old[n].up

LEMMA SetKeeps ==
    ASSUME IInv, NEW n \in Names, NEW v \in Vals, Set(n, v)
    PROVE  /\ Known(cd)' /\ Known(store)' /\ StoreLags'
           /\ Advances(cd.latest, cd'.latest)
           /\ cd.changes \subseteq cd'.changes
<1> DEFINE row == RowOf(cd, n, v, now)
           chg == ToSend(cd, n, v, now)
<1>1. /\ cd \in Document /\ now \in Nat /\ cd.changes \subseteq Change
      /\ cd.latest \in [Names -> Shown \cup {NoRow}]
  BY DEF IInv, TypeOK, Document
<1>2. /\ cd.changes \cup {chg} \in SUBSET Change
      /\ row \in Shown /\ row # NoRow
  <2>1. chg \in Change
    BY <1>1, RowTyped
  <2>2. row \in Shown
    BY <1>1, RowTyped
  <2>3. row # NoRow
    BY <2>2, Constants
  <2> HIDE DEF row, chg
  <2> QED
    BY <1>1, <2>1, <2>2, <2>3
<1>3. /\ cd'.latest = [cd.latest EXCEPT ![n] = row]
      /\ cd'.changes = cd.changes \cup {chg}
      /\ store' = cd' /\ now' = now
  BY <1>1, <1>2, ChangedShows DEF Set, SetLocal
<1>4. /\ row.up = now /\ row.seq = NextSeq(cd, n, now) /\ row.val = v
      /\ chg.name = n /\ chg.up = now /\ chg.seq = NextSeq(cd, n, now)
      /\ chg.val = Sent(v)
  BY DEF RowOf, ToSend
<1> HIDE DEF row, chg
<1>5. \A m \in Names : cd'.latest[m] = IF m = n THEN row ELSE cd.latest[m]
  BY <1>1, <1>3
<1>6. Advances(cd.latest, cd'.latest)
  BY <1>1, <1>2, <1>4, <1>5 DEF Advances, IInv, Known
<1>7. ASSUME NEW m \in Names, cd'.latest[m] # NoRow
      PROVE  cd'.latest[m].up <= now
  BY <1>1, <1>4, <1>5, <1>7 DEF IInv, Known
<1>8. ASSUME NEW c \in cd'.changes, c.name # Tomb
      PROVE  /\ cd'.latest[c.name] # NoRow
             /\ c.up <= cd'.latest[c.name].up
             /\ cd'.latest[c.name].up = c.up => NotAbove(c, cd'.latest[c.name])
  <2>1. CASE c = chg
    BY <1>2, <1>3, <1>4, <1>5, <1>1, <2>1 DEF NotAbove
  <2>2. CASE c \in cd.changes /\ c.name # n
    BY <1>1, <1>5, <1>8, <2>2 DEF IInv, Known, Change, Columns
  <2>3. CASE c \in cd.changes /\ c.name = n
    <3>1. /\ cd.latest[n] # NoRow /\ c.up <= cd.latest[n].up
          /\ cd.latest[n].up = c.up => NotAbove(c, cd.latest[n])
      BY <1>8, <2>3 DEF IInv, Known
    <3>2. /\ cd.latest[n].up <= now /\ cd.latest[n] \in Shown
          /\ c \in Change
      BY <1>1, <2>3, <3>1 DEF IInv, Known
    <3>3. cd.latest[n].up = now => row.seq = cd.latest[n].seq + 1
      BY <1>4, <3>1 DEF NextSeq
    <3> QED
      BY <1>1, <1>2, <1>4, <1>5, <2>3, <3>1, <3>2, <3>3
         DEF NotAbove, Shown, Change
  <2> QED
    BY <1>3, <1>8, <2>1, <2>2, <2>3
<1>9. Known(cd)' /\ Known(store)'
  BY <1>3, <1>7, <1>8 DEF Known
<1> QED
  BY <1>3, <1>6, <1>9 DEF StoreLags

LEMMA DestroyKeeps ==
    ASSUME IInv, Destroy
    PROVE  /\ Known(cd)' /\ Known(store)' /\ StoreLags'
           /\ Advances(cd.latest, cd'.latest)
           /\ cd.changes \subseteq cd'.changes
<1> DEFINE chg == [name |-> Tomb, val |-> Null, up |-> now, seq |-> 0]
<1>1. cd = [latest |-> cd.latest, changes |-> cd.changes,
            destroyed |-> cd.destroyed, updated |-> cd.updated]
  BY DEF IInv, TypeOK, Document
<1>2. cd' = [latest |-> cd.latest, changes |-> cd.changes \cup {chg},
             destroyed |-> now, updated |-> cd.updated]
  BY <1>1 DEF Destroy, DestroyLocal
<1>3. /\ cd'.latest = cd.latest /\ cd'.changes = cd.changes \cup {chg}
      /\ chg.name = Tomb /\ store' = cd' /\ now' = now
  BY <1>2 DEF Destroy
<1> HIDE DEF chg
<1> QED
  BY <1>3 DEF IInv, Known, StoreLags, Advances

LEMMA ReceiveKeeps ==
    ASSUME IInv, NEW ch \in Feed, Receive(ch)
    PROVE  /\ Known(cd)' /\ Known(store)' /\ StoreLags'
           /\ Advances(cd.latest, cd'.latest)
           /\ \A c \in cd.changes \ cd'.changes : Confirms(ch, c)
<1> ch \in Arrived
  BY FeedArrives
<1> DEFINE new == IF IsNews(cd, ch) THEN Applied(cd, ch) ELSE cd
<1>1. /\ cd \in Document /\ ch.up \in Nat /\ ch.up <= now /\ now \in Nat
      /\ cd.latest \in [Names -> Shown \cup {NoRow}]
      /\ cd.changes \subseteq Change
      /\ ch.name # Tomb => ch.name \in Names
  BY Constants DEF IInv, TypeOK, Document, Receive
<1>2. new \in Document /\ new.changes = cd.changes
  BY <1>1, AppliedShows
<1>3. \/ new.latest = cd.latest
      \/ \E row \in Shown :
            /\ row # NoRow /\ row.up = ch.up /\ ch.name \in Names
            /\ cd.latest[ch.name] = NoRow \/ ch.up > cd.latest[ch.name].up
            /\ new.latest = [cd.latest EXCEPT ![ch.name] = row]
  <2>1. CASE ~IsNews(cd, ch) \/ ch.name = Tomb
    BY <1>1, <2>1, AppliedShows
  <2>2. CASE IsNews(cd, ch) /\ ch.name # Tomb
    <3>1. cd.latest[ch.name] = NoRow \/ ch.up > cd.latest[ch.name].up
      BY <2>2 DEF IsNews
    <3>2. new = Applied(cd, ch)
      BY <2>2
    <3> HIDE DEF new
    <3> QED
      BY <1>1, <2>2, <3>1, <3>2, AppliedShows, ZenonT(60)
  <2> QED
    BY <2>1, <2>2
<1>4. /\ cd' = Recorded(new, ch) /\ now' = now
      /\ store' = IF IsNews(cd, ch) THEN new ELSE store
  BY DEF Receive, Received, Saved
<1> HIDE DEF new
<1>5. /\ cd'.latest = new.latest
      /\ cd'.changes = {c \in cd.changes : ~Confirms(ch, c)}
  BY <1>2, <1>4, RecordedShows
<1>6. Advances(cd.latest, cd'.latest)
  <2>1. CASE new.latest = cd.latest
    BY <1>5, <2>1 DEF Advances
  <2>2. ASSUME NEW row \in Shown, row # NoRow, row.up = ch.up,
               ch.name \in Names,
               cd.latest[ch.name] = NoRow \/ ch.up > cd.latest[ch.name].up,
               new.latest = [cd.latest EXCEPT ![ch.name] = row]
        PROVE  Advances(cd.latest, cd'.latest)
    <3>1. \A n \in Names : cd'.latest[n]
                             = IF n = ch.name THEN row ELSE cd.latest[n]
      BY <1>1, <1>5, <2>2
    <3>2. cd.latest[ch.name] # NoRow => cd.latest[ch.name].up \in Nat
      BY <1>1, <2>2 DEF Shown
    <3> QED
      BY <1>1, <2>2, <3>1, <3>2 DEF Advances
  <2> QED
    BY <1>3, <2>1, <2>2
<1>7. \A n \in Names : new.latest[n] # NoRow => new.latest[n].up <= now
  BY <1>1, <1>3 DEF IInv, Known
<1>8. ASSUME NEW c \in cd.changes, c.name # Tomb
      PROVE  /\ new.latest[c.name] # NoRow
             /\ c.up <= new.latest[c.name].up
             /\ new.latest[c.name].up = c.up => NotAbove(c, new.latest[c.name])
  <2>1. /\ cd.latest[c.name] # NoRow /\ c.up <= cd.latest[c.name].up
        /\ cd.latest[c.name].up = c.up => NotAbove(c, cd.latest[c.name])
    BY <1>8 DEF IInv, Known
  <2>2. c.name \in Names /\ c.up \in Nat /\ cd.latest[c.name].up \in Nat
    BY <1>1, <1>8, <2>1 DEF Change, Columns, Shown
  <2>3. CASE new.latest = cd.latest
    BY <2>1, <2>3
  <2>4. CASE new.latest # cd.latest
    <3>1. PICK row \in Shown :
            /\ row # NoRow /\ row.up = ch.up /\ ch.name \in Names
            /\ cd.latest[ch.name] = NoRow \/ ch.up > cd.latest[ch.name].up
            /\ new.latest = [cd.latest EXCEPT ![ch.name] = row]
      BY <1>3, <2>4
    <3>2. CASE c.name = ch.name
      <4>1. new.latest[c.name] = row
        BY <1>1, <2>2, <3>1, <3>2
      <4>2. c.up < row.up /\ row.up \in Nat
        BY <1>1, <2>1, <2>2, <3>1, <3>2
      <4> QED
        BY <2>2, <3>1, <4>1, <4>2
    <3>3. CASE c.name # ch.name
      <4>1. new.latest[c.name] = cd.latest[c.name]
        BY <1>1, <2>2, <3>1, <3>3
      <4> QED
        BY <2>1, <4>1
    <3> QED
      BY <3>2, <3>3
  <2> QED
    BY <2>3, <2>4
<1>9. Known(cd)'
  BY <1>4, <1>5, <1>7, <1>8 DEF Known
<1>10. Known(store)'
  BY <1>2, <1>4, <1>7, <1>8 DEF Known, IInv
<1>11. StoreLags'
  <2>1. CASE IsNews(cd, ch)
    BY <1>2, <1>4, <1>5, <2>1 DEF StoreLags
  <2>2. CASE ~IsNews(cd, ch)
    BY <1>4, <1>5, <2>2 DEF StoreLags, IInv, new
  <2> QED
    BY <2>1, <2>2
<1> QED
  BY <1>5, <1>6, <1>9, <1>10, <1>11

(* A client that starts again shows what it showed: that is what the store *)
(* is for, although it has been saved before the confirmation was noted.   *)
LEMMA RestartKeeps ==
    ASSUME IInv, Restart
    PROVE  /\ Known(cd)' /\ Known(store)' /\ StoreLags'
           /\ Advances(cd.latest, cd'.latest)
           /\ cd.changes \subseteq cd'.changes
BY DEF IInv, Restart, Known, StoreLags, Advances

LEMMA InvStep ==
    ASSUME IInv, [Next]_vars PROVE IInv' /\ Advances(cd.latest, cd'.latest)
<1>1. TypeOK'
  BY TypeStep DEF IInv
<1>2. ASSUME Tick PROVE /\ Known(cd)' /\ Known(store)' /\ StoreLags'
                        /\ Advances(cd.latest, cd'.latest)
  <2>1. cd' = cd /\ store' = store /\ now \in Nat /\ now' = now + 1
    BY <1>2 DEF Tick, IInv, TypeOK
  <2>2. ASSUME NEW d \in Document, NEW n \in Names, d.latest[n] # NoRow
        PROVE  d.latest[n].up \in Nat
    BY <2>2 DEF Document, Shown
  <2>3. cd \in Document /\ store \in Document
    BY DEF IInv, TypeOK
  <2> QED
    BY <2>1, <2>2, <2>3 DEF IInv, Known, StoreLags, Advances
<1>3. CASE UNCHANGED vars
  BY <1>3 DEF vars, IInv, Known, StoreLags, Advances, TypeOK
<1> QED
  BY <1>1, <1>2, <1>3, SetKeeps, DestroyKeeps, RestartKeeps, ReceiveKeeps
     DEF Next, IInv, Vals

LEMMA Invariant == Spec => []IInv
<1>1. Init => IInv
  <2>1. Init => TypeOK
    BY ClientDocAssumption DEF Init, TypeOK, EmptyDoc, Document
  <2> QED
    BY <2>1 DEF Init, IInv, EmptyDoc, Known, StoreLags
<1> QED
  BY <1>1, InvStep, PTL DEF Spec

-----------------------------------------------------------------------------
(* What a client shows is never replaced by something older: not by a feed *)
(* in any order (doc.js:308-313), not by the user, and not by closing and  *)
(* opening the client (doc.js:319-331).                                    *)
THEOREM NothingOlderIsShown == Spec => NeverOlder
<1>1. IInv /\ [Next]_vars
        => \A n \in Names : cd.latest[n] # NoRow
             => /\ cd'.latest[n] # NoRow
                /\ cd'.latest[n].up >= cd.latest[n].up
  <2> SUFFICES ASSUME IInv, [Next]_vars, NEW n \in Names, cd.latest[n] # NoRow
               PROVE  /\ cd'.latest[n] # NoRow
                      /\ cd'.latest[n].up >= cd.latest[n].up
    OBVIOUS
  <2>1. cd.latest[n].up \in Nat
    BY DEF IInv, TypeOK, Document, Shown
  <2> QED
    BY <2>1, InvStep DEF Advances
<1> QED
  BY <1>1, Invariant, PTL DEF Spec, NeverOlder

(* Edits of one millisecond stay in order (doc.js:101-104): no change that *)
(* is still to be sent is above what the client shows.                     *)
THEOREM ShownIsGreatest == Spec => []ShownIsGreatestSent
<1>1. IInv => ShownIsGreatestSent
  BY DEF IInv, Known, ShownIsGreatestSent
<1> QED
  BY <1>1, Invariant, PTL

(* No edit is forgotten but by its own confirmation (doc.js:193-215); what *)
(* a restart brings back is more, not less.                                *)
THEOREM ForgottenIfConfirmed == Spec => OnlyConfirmedForgotten
<1> DEFINE OCF == \A c \in cd.changes \ cd'.changes :
                    \E ch \in Feed : Receive(ch) /\ ch.name = c.name
                                      /\ ch.up = c.up /\ ch.val = c.val
<1>1. IInv /\ [Next]_vars => OCF
  <2>1. ASSUME IInv, NEW ch \in Feed, Receive(ch) PROVE OCF
    BY <2>1, ReceiveKeeps DEF Confirms
  <2>2. ASSUME IInv, [Next]_vars, \A ch \in Feed : ~Receive(ch)
        PROVE  cd.changes \subseteq cd'.changes
    <3>1. CASE Tick \/ UNCHANGED vars
      BY <3>1 DEF Tick, vars
    <3> QED
      BY <2>2, <3>1, SetKeeps, DestroyKeeps, RestartKeeps DEF Next, Vals
  <2> QED
    BY <2>1, <2>2
<1> QED
  BY <1>1, Invariant, PTL DEF Spec, OnlyConfirmedForgotten

-----------------------------------------------------------------------------
(* What a document tells of the changes in seen, those that have come, if  *)
(* the user did nothing: what is shown has come and nothing newer has;     *)
(* updatedAt is the time of a value, and at least that of every value that *)
(* is shown; destroyedAt is the time of a deletion and not before it.      *)
Dels(seen)  == {ch \in seen : ch.name = Tomb}
Attrs(seen) == seen \ Dels(seen)

Sources(d, seen) ==
    /\ d.updated # Null
         => \E ch \in Attrs(seen) : ch.val # Null /\ ch.up = d.updated
    /\ d.destroyed # Null => \E del \in Dels(seen) : del.up = d.destroyed
    /\ \A n \in Names : d.latest[n] # NoRow =>
         \E ch \in Attrs(seen) : /\ ch.name = n /\ ch.up = d.latest[n].up
                                 /\ ch.val = d.latest[n].val

Newest(d, seen) ==
    \A ch \in Attrs(seen) : /\ d.latest[ch.name] # NoRow
                            /\ d.latest[ch.name].up >= ch.up

Times(d) ==
    /\ \A n \in Names : d.latest[n] # NoRow /\ d.latest[n].val # Null
                           => d.updated # Null /\ d.latest[n].up <= d.updated
    /\ d.destroyed # Null /\ d.updated # Null => d.updated <= d.destroyed

Marked(d, seen) ==
    Dels(seen) # {} /\ AllOlder(Dels(seen), Attrs(seen)) => d.destroyed # Null

Tells(d, seen) == Sources(d, seen) /\ Newest(d, seen) /\ Times(d)
                    /\ Marked(d, seen)

(* The document and its copy in the store may tell different deletions: one *)
(* in the millisecond of the last update is not saved.                     *)
Untouched ==
    /\ edits <= Edits
    /\ edits = Edits => /\ Tells(cd, received) /\ Tells(store, received)
                        /\ store.latest = cd.latest
                        /\ store.updated = cd.updated

LEMMA TellsSame ==
    ASSUME NEW d, NEW e, NEW seen, Tells(d, seen),
           d.latest = e.latest, d.updated = e.updated, d.destroyed = e.destroyed
    PROVE  Tells(e, seen)
BY DEF Tells, Sources, Newest, Times, Marked

LEMMA SeenTyped ==
    ASSUME NEW seen \in SUBSET Feed
    PROVE  /\ \A ch \in Attrs(seen) : /\ ch.name \in Names /\ ch.up \in Nat
                                      /\ ch.name # Tomb /\ ch \in seen
                                      /\ ch.val \in Vals /\ ch \in Arrived
           /\ \A del \in Dels(seen) : /\ del.up \in Nat /\ del.name = Tomb
                                      /\ del \in seen /\ del \in Arrived
BY FeedArrives, Constants DEF Attrs, Dels

(* One more change makes it harder for all changes to be older.            *)
LEMMA MoreSeen ==
    ASSUME NEW seen \in SUBSET Feed, NEW ch \in Feed
    PROVE  LET more == seen \cup {ch} IN
           /\ Attrs(seen) \subseteq Attrs(more)
           /\ Dels(seen) \subseteq Dels(more)
           /\ ch.name # Tomb => /\ Dels(more) = Dels(seen)
                                /\ Attrs(more) = Attrs(seen) \cup {ch}
           /\ ch.name = Tomb => /\ Attrs(more) = Attrs(seen)
                                /\ Dels(more) = Dels(seen) \cup {ch}
           /\ AllOlder(Dels(more), Attrs(more))
                => AllOlder(Dels(seen), Attrs(seen))
BY DEF Attrs, Dels, AllOlder

(* The times of a document when an attribute is changed by the feed.       *)
LEMMA AttributeNews ==
    ASSUME NEW d \in Document, NEW ch \in Arrived, ch.name # Tomb
    PROVE  LET e == Applied(d, ch) IN
           /\ e.destroyed = Revived(d, ch.up)
           /\ e.updated = IF ch.val # Null
                             /\ (d.updated = Null \/ ch.up > d.updated)
                          THEN ch.up ELSE d.updated
           /\ \A n \in Names \ {ch.name} : e.latest[n] = d.latest[n]
           /\ e.latest[ch.name].up = ch.up /\ e.latest[ch.name].val = ch.val
           /\ e.latest[ch.name] # NoRow
<1> DEFINE b == Changed(d, ch.name, ch.val, ch.up, d.changes)
           row == RowOf(d, ch.name, ch.val, ch.up)
           L == [d.latest EXCEPT ![ch.name] = row]
<1>1. /\ b.latest = L /\ b.changes = d.changes
      /\ b.destroyed = Revived(d, ch.up) /\ b.updated = d.updated
      /\ b = [latest |-> L, changes |-> d.changes,
              destroyed |-> Revived(d, ch.up), updated |-> d.updated]
  BY DEF Changed
<1>2. /\ row.up = ch.up /\ row.val = ch.val /\ row # NoRow
      /\ ch.name \in Names
  BY Constants, RowTyped DEF RowOf
<1>3. /\ d.latest \in [Names -> Shown \cup {NoRow}]
  BY DEF Document
<1>4. Applied(d, ch) = Moved(b, ch)
  BY DEF Applied
<1> HIDE DEF b, row
<1>5. /\ L[ch.name] = row
      /\ \A n \in Names \ {ch.name} : L[n] = d.latest[n]
  BY <1>2, <1>3
<1> HIDE DEF L
<1>6. CASE ch.val # Null /\ (d.updated = Null \/ ch.up > d.updated)
  <2>1. Moved(b, ch) = [latest |-> L, changes |-> d.changes,
              destroyed |-> Revived(d, ch.up), updated |-> ch.up]
    BY <1>1, <1>6 DEF Moved
  <2> QED
    BY <1>2, <1>4, <1>5, <1>6, <2>1
<1>7. CASE ~(ch.val # Null /\ (d.updated = Null \/ ch.up > d.updated))
  <2>1. Moved(b, ch) = b
    BY <1>1, <1>7 DEF Moved
  <2> QED
    BY <1>1, <1>2, <1>4, <1>5, <1>7, <2>1
<1> QED
  BY <1>6, <1>7

(* One more change of an attribute.                                        *)
LEMMA TellsAttribute ==
    ASSUME NEW d \in Document, NEW seen \in SUBSET Feed,
           NEW ch \in Feed, ch.name # Tomb, Tells(d, seen)
    PROVE  Tells(IF IsNews(d, ch) THEN Applied(d, ch) ELSE d, seen \cup {ch})
<1> DEFINE more == seen \cup {ch}
<1>1. /\ ch \in Arrived /\ ch.up \in Nat /\ ch.name \in Names /\ ch.val \in Vals
  BY FeedArrives, Constants
<1>2. /\ d.latest \in [Names -> Shown \cup {NoRow}]
      /\ d.updated \in Nat \cup {Null} /\ d.destroyed \in Nat \cup {Null}
  BY DEF Document
<1>3. \A n \in Names : d.latest[n] # NoRow => d.latest[n].up \in Nat
  BY <1>2 DEF Shown
<1>0. /\ more \in SUBSET Feed
      /\ Attrs(seen) \subseteq Attrs(more) /\ Dels(more) = Dels(seen)
      /\ Attrs(more) = Attrs(seen) \cup {ch}
      /\ AllOlder(Dels(more), Attrs(more)) => AllOlder(Dels(seen), Attrs(seen))
  BY MoreSeen
<1> HIDE DEF more
<1>4. CASE ~IsNews(d, ch)
  <2>1. d.latest[ch.name] # NoRow /\ d.latest[ch.name].up >= ch.up
    BY <1>1, <1>3, <1>4 DEF IsNews
  <2>2. Newest(d, more)
    BY <1>0, <2>1 DEF Tells, Newest
  <2>3. Sources(d, more) /\ Marked(d, more)
    BY <1>0 DEF Tells, Sources, Marked
  <2> QED
    BY <1>4, <2>2, <2>3 DEF Tells, more
<1>5. CASE IsNews(d, ch)
  <2> DEFINE e == Applied(d, ch)
  <2>1. /\ e.destroyed = Revived(d, ch.up)
        /\ e.updated = IF ch.val # Null
                          /\ (d.updated = Null \/ ch.up > d.updated)
                       THEN ch.up ELSE d.updated
        /\ \A n \in Names \ {ch.name} : e.latest[n] = d.latest[n]
        /\ e.latest[ch.name].up = ch.up /\ e.latest[ch.name].val = ch.val
        /\ e.latest[ch.name] # NoRow
    BY <1>1, AttributeNews
  <2>2. d.latest[ch.name] = NoRow \/ ch.up > d.latest[ch.name].up
    BY <1>1, <1>5 DEF IsNews
  <2> HIDE DEF e
  <2>3. e.destroyed # Null => e.destroyed = d.destroyed /\ ch.up <= d.destroyed
    BY <1>1, <1>2, <2>1, Constants DEF Revived
  <2>4. Sources(e, more)
    <3>1. e.updated # Null
            => \E c \in Attrs(more) : c.val # Null /\ c.up = e.updated
      BY <1>0, <2>1 DEF Tells, Sources
    <3>2. e.destroyed # Null => \E del \in Dels(more) : del.up = e.destroyed
      BY <1>0, <2>3 DEF Tells, Sources
    <3>3. ASSUME NEW n \in Names, e.latest[n] # NoRow
          PROVE  \E c \in Attrs(more) : /\ c.name = n /\ c.up = e.latest[n].up
                                        /\ c.val = e.latest[n].val
      <4>1. CASE n = ch.name
        BY <1>0, <2>1, <4>1
      <4>2. CASE n # ch.name
        BY <1>0, <2>1, <3>3, <4>2 DEF Tells, Sources
      <4> QED
        BY <4>1, <4>2
    <3> QED
      BY <3>1, <3>2, <3>3 DEF Sources
  <2>5. Newest(e, more)
    <3> SUFFICES ASSUME NEW c \in Attrs(more)
                 PROVE  e.latest[c.name] # NoRow /\ e.latest[c.name].up >= c.up
      BY DEF Newest
    <3>1. CASE c = ch
      BY <1>1, <2>1, <3>1
    <3>2. CASE c # ch
      <4>1. /\ c \in Attrs(seen) /\ d.latest[c.name] # NoRow
            /\ d.latest[c.name].up >= c.up /\ c.name \in Names /\ c.up \in Nat
        BY <1>0, <3>2, SeenTyped DEF Tells, Newest
      <4>2. CASE c.name = ch.name
        <5>1. e.latest[c.name].up = ch.up /\ e.latest[c.name] # NoRow
          BY <2>1, <4>2
        <5>2. d.latest[ch.name].up >= c.up /\ d.latest[ch.name].up \in Nat
          BY <1>1, <1>3, <4>1, <4>2
        <5>3. ch.up > d.latest[ch.name].up
          BY <2>2, <4>1, <4>2
        <5> QED
          BY <1>1, <4>1, <5>1, <5>2, <5>3
      <4>3. CASE c.name # ch.name
        BY <2>1, <4>1, <4>3
      <4> QED
        BY <4>2, <4>3
    <3> QED
      BY <3>1, <3>2
  <2>6. Times(e)
    <3>1. ASSUME NEW n \in Names, e.latest[n] # NoRow, e.latest[n].val # Null
          PROVE  e.updated # Null /\ e.latest[n].up <= e.updated
      <4>1. CASE n = ch.name
        BY <1>1, <1>2, <2>1, <3>1, <4>1, Constants
      <4>2. CASE n # ch.name
        <5>1. /\ e.latest[n] = d.latest[n] /\ d.updated # Null
              /\ d.latest[n].up <= d.updated /\ d.latest[n].up \in Nat
          BY <1>3, <2>1, <3>1, <4>2 DEF Tells, Times
        <5> QED
          BY <1>1, <1>2, <2>1, <5>1, Constants
      <4> QED
        BY <4>1, <4>2
    <3>2. ASSUME e.destroyed # Null, e.updated # Null
          PROVE  e.updated <= e.destroyed
      <4>1. e.destroyed = d.destroyed /\ ch.up <= d.destroyed
        BY <2>3, <3>2
      <4>2. e.updated = ch.up \/ e.updated = d.updated
        BY <2>1
      <4> QED
        BY <3>2, <4>1, <4>2 DEF Tells, Times
    <3> QED
      BY <3>1, <3>2 DEF Times
  <2>7. Marked(e, more)
    <3> SUFFICES ASSUME Dels(more) # {}, AllOlder(Dels(more), Attrs(more))
                 PROVE  e.destroyed # Null
      BY DEF Marked
    <3>1. d.destroyed # Null
      BY <1>0 DEF Tells, Marked
    <3>2. PICK del \in Dels(more) : del.up = d.destroyed
      BY <1>0, <3>1 DEF Tells, Sources
    <3>3. ch \in Attrs(more) /\ del.up \in Nat
      BY <1>0, SeenTyped
    <3>4. ~(ch.up > d.destroyed)
      BY <1>1, <3>2, <3>3 DEF AllOlder
    <3> QED
      BY <2>1, <3>1, <3>4 DEF Revived
  <2> QED
    BY <1>5, <2>4, <2>5, <2>6, <2>7 DEF Tells, e, more
<1> QED
  BY <1>4, <1>5

(* One more deletion.  A document that takes its time tells of it.         *)
LEMMA TellsDeletion ==
    ASSUME NEW d \in Document, NEW seen \in SUBSET Feed,
           NEW del \in Feed, del.name = Tomb, Tells(d, seen),
           NEW e, e.latest = d.latest, e.updated = d.updated,
           e.destroyed = del.up, d.updated = Null \/ del.up >= d.updated
    PROVE  Tells(e, seen \cup {del})
<1> DEFINE more == seen \cup {del}
<1>1. /\ del.up \in Nat
      /\ Attrs(more) = Attrs(seen) /\ Dels(more) = Dels(seen) \cup {del}
  BY MoreSeen, FeedArrives, Constants
<1>2. e.destroyed # Null
  BY <1>1, Constants
<1>3. Sources(e, more)
  <2>1. Sources(d, seen) /\ del \in Dels(more)
    BY <1>1 DEF Tells
  <2> HIDE DEF more
  <2> QED
    BY <1>1, <2>1 DEF Sources
<1>4. Newest(e, more)
  BY <1>1 DEF Tells, Newest
<1>5. Times(e)
  BY <1>1 DEF Tells, Times
<1>6. Marked(e, more)
  BY <1>2 DEF Marked
<1> QED
  BY <1>3, <1>4, <1>5, <1>6 DEF Tells

(* One that was updated since, or in the same millisecond, may ignore it.  *)
LEMMA TellsIgnored ==
    ASSUME NEW d \in Document, NEW seen \in SUBSET Feed,
           NEW del \in Feed, del.name = Tomb, Tells(d, seen), ~IsNews(d, del)
    PROVE  Tells(d, seen \cup {del})
<1> DEFINE more == seen \cup {del}
<1>1. /\ del.up \in Nat /\ d.updated \in Nat \cup {Null}
      /\ Attrs(more) = Attrs(seen) /\ Dels(more) = Dels(seen) \cup {del}
  BY MoreSeen, FeedArrives, Constants DEF Document
<1>2. d.updated # Null /\ ~(del.up > d.updated)
  BY DEF IsNews
<1>3. PICK ch \in Attrs(seen) : ch.val # Null /\ ch.up = d.updated
  BY <1>2 DEF Tells, Sources
<1>4. ch \in Attrs(more) /\ del \in Dels(more) /\ ch.up \in Nat
  BY <1>1, SeenTyped
<1>5. ~AllOlder(Dels(more), Attrs(more))
  BY <1>1, <1>2, <1>3, <1>4 DEF AllOlder
<1>6. Sources(d, more) /\ Newest(d, more) /\ Marked(d, more)
  BY <1>1, <1>5 DEF Tells, Sources, Newest, Marked
<1> QED
  BY <1>6 DEF Tells

(* What the news are depends on nothing in which the store lags behind.    *)
LEMMA SameNews ==
    ASSUME NEW d, NEW e, NEW ch, d.latest = e.latest, d.updated = e.updated
    PROVE  IsNews(d, ch) = IsNews(e, ch)
BY DEF IsNews

LEMMA ReceiveTells ==
    ASSUME IInv, Untouched, edits = Edits, NEW ch \in Feed, Receive(ch)
    PROVE  /\ Tells(cd', received') /\ Tells(store', received')
           /\ store'.latest = cd'.latest /\ store'.updated = cd'.updated
<1> DEFINE new == IF IsNews(cd, ch) THEN Applied(cd, ch) ELSE cd
           kept == IF IsNews(cd, ch) THEN Applied(cd, ch) ELSE store
           more == received \cup {ch}
<1>1. /\ Tells(cd, received) /\ Tells(store, received)
      /\ store.latest = cd.latest /\ store.updated = cd.updated
      /\ cd \in Document /\ store \in Document
      /\ received \in SUBSET Feed /\ ch \in Arrived /\ ch.up \in Nat
  BY FeedArrives DEF Untouched, IInv, TypeOK, Arrived
<1>2. cd' = Recorded(new, ch) /\ store' = kept /\ received' = more
  BY DEF Receive, Received, Saved
<1>3. new \in Document
  BY <1>1, AppliedShows
<1>4. /\ Recorded(new, ch).latest = new.latest
      /\ Recorded(new, ch).updated = new.updated
      /\ Recorded(new, ch).destroyed
           = IF ch.name = Tomb /\ (new.updated = Null \/ ch.up >= new.updated)
             THEN ch.up ELSE new.destroyed
  BY DEF Recorded
<1>5. IsNews(store, ch) = IsNews(cd, ch)
  BY <1>1, SameNews
<1>6. /\ kept.latest = new.latest /\ kept.updated = new.updated
  BY <1>1
<1>7. CASE ch.name # Tomb
  <2>1. Tells(new, more)
    BY <1>1, <1>7, TellsAttribute
  <2>2. Tells(IF IsNews(store, ch) THEN Applied(store, ch) ELSE store, more)
    BY <1>1, <1>7, TellsAttribute
  <2>3. Tells(kept, more)
    BY <1>5, <2>1, <2>2
  <2> HIDE DEF new, kept, more
  <2>4. Tells(Recorded(new, ch), more)
    BY <1>4, <1>7, <2>1, TellsSame
  <2> QED
    BY <1>2, <1>4, <1>6, <2>3, <2>4
<1>8. CASE ch.name = Tomb /\ IsNews(cd, ch)
  <2>1. new = [cd EXCEPT !.destroyed = ch.up] /\ kept = new
    BY <1>8 DEF Applied
  <2>2. /\ new.latest = cd.latest /\ new.updated = cd.updated
        /\ new.destroyed = ch.up
    BY <1>1, <2>1 DEF Document
  <2>3. cd.updated = Null \/ (cd.updated \in Nat /\ ch.up > cd.updated)
    BY <1>1, <1>8 DEF IsNews, Document
  <2>4. cd.updated = Null \/ ch.up >= cd.updated
    BY <1>1, <2>3
  <2> HIDE DEF new, kept, more
  <2>5. Tells(new, more)
    BY <1>1, <1>8, <2>2, <2>4, TellsDeletion DEF more
  <2>6. Recorded(new, ch).destroyed = new.destroyed
    BY <1>4, <2>2
  <2>7. Tells(Recorded(new, ch), more)
    BY <1>4, <2>5, <2>6, TellsSame
  <2> QED
    BY <1>2, <1>4, <1>6, <2>1, <2>5, <2>7
<1>9. CASE ch.name = Tomb /\ ~IsNews(cd, ch)
  <2>1. new = cd /\ kept = store
    BY <1>9
  <2> HIDE DEF new, kept, more
  <2>2. Tells(cd, more) /\ Tells(store, more)
    BY <1>1, <1>5, <1>9, TellsIgnored DEF more
  <2>3. CASE cd.updated = Null \/ ch.up >= cd.updated
    <3>1. Recorded(new, ch).destroyed = ch.up
      BY <1>4, <1>9, <2>1, <2>3
    <3>2. Tells(Recorded(new, ch), more)
      BY <1>1, <1>4, <1>9, <2>1, <2>3, <3>1, TellsDeletion DEF more
    <3> QED
      BY <1>2, <1>4, <1>6, <2>1, <2>2, <3>2
  <2>4. CASE ~(cd.updated = Null \/ ch.up >= cd.updated)
    <3>1. Recorded(new, ch).destroyed = cd.destroyed
      BY <1>4, <2>1, <2>4
    <3>2. Tells(Recorded(new, ch), more)
      BY <1>4, <2>1, <2>2, <3>1, TellsSame
    <3> QED
      BY <1>2, <1>4, <1>6, <2>1, <2>2, <3>2
  <2> QED
    BY <2>3, <2>4
<1> QED
  BY <1>7, <1>8, <1>9

LEMMA UntouchedStep ==
    ASSUME IInv, Untouched, [Next]_vars PROVE Untouched'
<1>1. edits \in Nat /\ Edits \in Nat
  BY ClientDocAssumption DEF IInv, TypeOK
<1>2. CASE edits' = edits - 1
  BY <1>1, <1>2 DEF Untouched
<1>3. CASE UNCHANGED <<cd, store, edits, received>>
  BY <1>3 DEF Untouched
<1>4. CASE Restart
  BY <1>4 DEF Restart, Untouched
<1>5. ASSUME NEW ch \in Feed, Receive(ch) PROVE Untouched'
  <2>1. edits' = edits
    BY <1>5 DEF Receive
  <2> QED
    BY <1>5, <2>1, ReceiveTells DEF Untouched
<1> QED
  BY <1>2, <1>3, <1>4, <1>5 DEF Next, Tick, Set, Destroy, vars

(* A value that came, is later than the deletion that is told and not      *)
(* shown any more was followed by a removal: were it followed by a value,  *)
(* updatedAt would be after destroyedAt.                                   *)
LEMMA TellsTimes ==
    ASSUME IInv, Untouched PROVE VisibleAsTimesTell
<1> SUFFICES ASSUME edits = Edits
             PROVE  DeletedIfLater(cd) /\ DeletedIfLast(cd)
  BY DEF VisibleAsTimesTell
<1>1. Tells(cd, received) /\ cd \in Document /\ received \in SUBSET Feed
  BY DEF Untouched, IInv, TypeOK
<1>2. Deletions = Dels(received) /\ AttrChanges = Attrs(received)
  BY DEF Deletions, AttrChanges, Dels, Attrs
<1>3. DeletedIfLast(cd)
  BY <1>1, <1>2 DEF DeletedIfLast, Tells, Marked
<1>4. ASSUME cd.destroyed # Null, NEW ch \in AttrChanges, ch.up > cd.destroyed
      PROVE  Removed(ch)
  <2> DEFINE row == cd.latest[ch.name]
  <2>1. /\ row # NoRow /\ row.up >= ch.up
        /\ ch.name \in Names /\ ch.up \in Nat
    BY <1>1, <1>2, SeenTyped DEF Tells, Newest
  <2>2. PICK src \in Attrs(received) : /\ src.name = ch.name /\ src.up = row.up
                                       /\ src.val = row.val
    BY <1>1, <2>1 DEF Tells, Sources
  <2>3. CASE row.val = Null
    BY <1>2, <2>1, <2>2, <2>3 DEF Removed
  <2>4. CASE row.val # Null
    <3>1. cd.updated # Null /\ row.up <= cd.updated
      BY <1>1, <2>1, <2>4 DEF Tells, Times
    <3>2. cd.updated <= cd.destroyed
      BY <1>1, <1>4, <3>1 DEF Tells, Times
    <3>3. row.up \in Nat /\ cd.updated \in Nat /\ cd.destroyed \in Nat
      BY <1>1, <1>4, <2>2, <3>1, SeenTyped DEF Document
    <3> HIDE DEF row
    <3> QED
      BY <1>4, <2>1, <3>1, <3>2, <3>3
  <2> QED
    BY <2>3, <2>4
<1>5. cd.destroyed # Null => \E del \in Deletions : del.up = cd.destroyed
  BY <1>1, <1>2 DEF Tells, Sources
<1> QED
  BY <1>3, <1>4, <1>5 DEF DeletedIfLater

(* Of any feed, in whatever order its changes come, repeatedly, and        *)
(* however often the client is closed and opened: to a user who did        *)
(* nothing a document is deleted only at the time of a deletion that came, *)
(* with every later value removed again, and is deleted if everything that *)
(* came is older than every deletion (doc.js:137-141, 184-190, 267-331).   *)
THEOREM ShownAsTimesTell == Spec => []VisibleAsTimesTell
<1>1. Init => Untouched
  BY ClientDocAssumption
     DEF Init, Untouched, EmptyDoc, Tells, Sources, Newest, Times, Marked,
         Dels, Attrs
<1>2. IInv /\ Untouched /\ [Next]_vars => Untouched'
  BY UntouchedStep
<1>3. IInv /\ Untouched => VisibleAsTimesTell
  BY TellsTimes
<1> QED
  BY <1>1, <1>2, <1>3, Invariant, PTL DEF Spec
=============================================================================
