----------------------------- MODULE AttrStore ------------------------------
(***************************************************************************)
(* The attribute tables of the three main partitions and the records that  *)
(* are written to them (scripts/partitioner/sql/attr/attr-rec.js and       *)
(* attr-recs.js).  Any number of process() calls, in any number of Node    *)
(* processes, write at the same time; there are no transactions, so the    *)
(* unit of atomicity is one SQL statement and every .then() is a place     *)
(* where another writer can run.                                           *)
(*                                                                         *)
(*   LATEST        insert; if the unique index refuses it, UPDATE ... WHERE *)
(*                 the incoming record is later (replace, update)          *)
(*   RECENT, ALL   SELECT the same record; insert if there is none         *)
(*                 (createIfMissing) - check and insert are two statements *)
(***************************************************************************)
EXTENDS Tsv, FiniteSets

CONSTANTS Writers,    \* concurrent chains of promises that write a record
          Names,      \* the (document, attribute name) pairs; the tombstone
                      \* of a document is a pair too, its name column is NULL
          Changes,    \* the changes clients queue, before queueing fills in
                      \* the sequence number: [name, val, up, seq, quorum]
          Logs,       \* the partitions that keep every record: "recent_"
                      \* and "all_", which behave alike here
          NoRow,      \* no row
          NoDelta     \* a writer that writes nothing

LATEST == "latest_"
Parts  == {LATEST} \cup Logs

(* Mutant of QueuedSeq: an absent sequence number stays absent.            *)
SeqAsIs(seq) == seq

(* The sequence number a queued change gets: absent becomes 0.             *)
QueuedSeq(seq) == IF seq = Null THEN 0 ELSE seq
Queued(c) == [c EXCEPT !.seq = QueuedSeq(c.seq)]

Deltas == {Queued(c) : c \in Changes}

(* The columns of a row that TSV looks at.                                 *)
Key(d) == [name |-> d.name, val |-> d.val, up |-> d.up, seq |-> d.seq]
Keys   == {Key(d) : d \in Deltas}

ASSUME AttrStoreAssumption ==
    /\ Changes \subseteq [name : Names, val : Values \cup {Null}, up : Nat,
                          seq : Int \cup {Null}, quorum : BOOLEAN]
    /\ IsFiniteSet(Writers)
    /\ LATEST \notin Logs
    /\ NoRow \notin Keys
    /\ NoDelta \notin Deltas

VARIABLES latest,     \* latest[n]: the row of n in LATEST, or NoRow
          copies,     \* copies[p][d]: the rows of p that record d
          pc,         \* pc[w]: the statement w runs next
          delta,      \* delta[w]: the record w writes
          part,       \* part[w]: the partition w writes to
          applied     \* history: the records LATEST has taken or refused

vars == <<latest, copies, pc, delta, part, applied>>

-----------------------------------------------------------------------------
Init == /\ latest = [n \in Names |-> NoRow]
        /\ copies = [p \in Logs |-> [d \in Deltas |-> 0]]
        /\ pc = [w \in Writers |-> "idle"]
        /\ delta = [w \in Writers |-> NoDelta]
        /\ part = [w \in Writers |-> LATEST]
        /\ applied = {}

(* createOrReplace: LATEST replaces, the others only create.               *)
FirstStatement(p) == IF p = LATEST THEN "insert" ELSE "check"

(* Attr.create up to AttrRec.createOrReplace.  A change without a quorum   *)
(* does not reach LATEST.  The same delta may be started again at any time *)
(* (the queue record outlives a crash, two processes read the same queue,  *)
(* another server sends it once more).                                     *)
Start(w, d, p) ==
    /\ pc[w] = "idle"
    /\ p = LATEST => d.quorum
    /\ delta' = [delta EXCEPT ![w] = d]
    /\ part' = [part EXCEPT ![w] = p]
    /\ pc' = [pc EXCEPT ![w] = FirstStatement(p)]
    /\ UNCHANGED <<latest, copies, applied>>

Done(w) == /\ pc' = [pc EXCEPT ![w] = "idle"]
           /\ delta' = [delta EXCEPT ![w] = NoDelta]
           /\ part' = [part EXCEPT ![w] = LATEST]

(* The INSERT of replace(): the unique index on (doc_id, name) lets it     *)
(* through only when there is no row.                                      *)
Insert(w) ==
    /\ pc[w] = "insert"
    /\ latest[delta[w].name] = NoRow
    /\ latest' = [latest EXCEPT ![delta[w].name] = Key(delta[w])]
    /\ applied' = applied \cup {Key(delta[w])}
    /\ Done(w)
    /\ UNCHANGED copies

(* The same INSERT when a row is there: SQLError, so update() is next.     *)
InsertRefused(w) ==
    /\ pc[w] = "insert"
    /\ latest[delta[w].name] # NoRow
    /\ pc' = [pc EXCEPT ![w] = "update"]
    /\ UNCHANGED <<latest, copies, delta, part, applied>>

(* Mutant of Updated: the UPDATE is not qualified.                         *)
UpdatedAlways(row, key) == IF row # NoRow THEN key ELSE row

(* The row after UPDATE ... WHERE.                                         *)
Updated(row, key) == IF row # NoRow /\ Replaces(key, row) THEN key ELSE row

Update(w) ==
    /\ pc[w] = "update"
    /\ latest' = [latest EXCEPT
                    ![delta[w].name] = Updated(@, Key(delta[w]))]
    /\ applied' = applied \cup {Key(delta[w])}
    /\ Done(w)
    /\ UNCHANGED copies

(* Mutant of Found: the record is created without looking.                 *)
NeverFound(p, d) == FALSE

(* createIfMissing: is the record in the partition?                        *)
Found(p, d) == copies[p][d] > 0

CheckFound(w) ==
    /\ pc[w] = "check"
    /\ Found(part[w], delta[w])
    /\ Done(w)
    /\ UNCHANGED <<latest, copies, applied>>

CheckMissing(w) ==
    /\ pc[w] = "check"
    /\ ~Found(part[w], delta[w])
    /\ pc' = [pc EXCEPT ![w] = "create"]
    /\ UNCHANGED <<latest, copies, delta, part, applied>>

Create(w) ==
    /\ pc[w] = "create"
    /\ copies' = [copies EXCEPT ![part[w]][delta[w]] = @ + 1]
    /\ Done(w)
    /\ UNCHANGED <<latest, applied>>

(* The Node process of a writer dies between two statements.               *)
Crash(w) ==
    /\ pc[w] # "idle"
    /\ Done(w)
    /\ UNCHANGED <<latest, copies, applied>>

Step(w) == \/ Insert(w) \/ InsertRefused(w) \/ Update(w)
           \/ CheckFound(w) \/ CheckMissing(w) \/ Create(w)
           \/ Crash(w)

Next == \E w \in Writers : \/ Step(w)
                           \/ \E d \in Deltas, p \in Parts : Start(w, d, p)

Spec == Init /\ [][Next]_vars

-----------------------------------------------------------------------------
(* The NOT NULL columns and the types of attr-recs.js:18-71, and a writer  *)
(* that is not idle has a delta and is at a statement of its partition.    *)
TypeOK ==
    /\ latest \in [Names -> [name : Names, val : Values \cup {Null},
                             up : Nat, seq : Int] \cup {NoRow}]
    /\ copies \in [Logs -> [Deltas -> Nat]]
    /\ pc \in [Writers -> {"idle", "insert", "update", "check", "create"}]
    /\ delta \in [Writers -> Deltas \cup {NoDelta}]
    /\ part \in [Writers -> Parts]
    /\ applied \subseteq Keys
    /\ \A w \in Writers :
         /\ pc[w] # "idle" => delta[w] \in Deltas
         /\ pc[w] \in {"insert", "update"} => part[w] = LATEST
         /\ pc[w] \in {"check", "create"} => part[w] \in Logs

(* LATEST implements LwwStore: what a reader gets depends on the set of    *)
(* records written (the comment at attr-rec.js:126-129), except in the one *)
(* tie of a deletion with a value that sorts after "null", where the       *)
(* record that came first is shown and stays.                              *)
Lww == INSTANCE LwwStore WITH seen <- applied, value <- latest
LatestIsLwwStore == Lww!LwwSpec

(* The row of a name is one of the records LATEST was given and none of    *)
(* them beats it, however the inserts, the refused inserts and the updates *)
(* interleave (replace and update, attr-rec.js:130-162): it is the TSV     *)
(* greatest, or a deletion that ties in time and sequence with the         *)
(* greatest, whose text then sorts after "null".                           *)
LatestIsWinner ==
    \A n \in Names :
       latest[n] \in IF Lww!Of(applied, n) = {} THEN {NoRow}
                                               ELSE Lww!Winners(applied, n)

(* A row of LATEST is never replaced by one that comes before it in        *)
(* timestamp and sequence, and never disappears (the qualified UPDATE of   *)
(* attr-rec.js:130-152).  It looks at neither the values nor *)
(* their collation.                                                        *)
NotOlder(row, old) == \/ old.up < row.up
                      \/ old.up = row.up /\ old.seq <= row.seq
LatestNeverRegresses ==
    [][\A n \in Names : latest[n] # NoRow =>
            latest'[n] # NoRow /\ NotOlder(latest'[n], latest[n])]_vars

(* Determinism without naming the order: two names that were given the     *)
(* same records (two servers, or the same attribute of two documents) show *)
(* the same row, in whatever order each of them got the records            *)
(* (attr-rec.js:126, "completely deterministic").  It holds of names for   *)
(* which no deletion stands against another record (LatestIsWinner), and   *)
(* not otherwise: see ObjectChanges in MCAttrStore.                        *)
WrittenTo(n) == {<<k.val, k.up, k.seq>> : k \in {j \in applied : j.name = n}}
Shown(n) == IF latest[n] = NoRow THEN <<>>
            ELSE <<latest[n].val, latest[n].up, latest[n].seq>>
SameRecordsSameRow ==
    \A m, n \in Names : WrittenTo(m) = WrittenTo(n) => Shown(m) = Shown(n)

(* "A rare race condition here will just lead to a piece of data being     *)
(* sent to a server twice" (attr-rec.js:113-117): check-then-insert can    *)
(* record a delta more than once, but never more often than there are      *)
(* concurrent writers, however often the delta is sent.                    *)
CopiesBounded ==
    \A p \in Logs, d \in Deltas : copies[p][d] <= Cardinality(Writers)

(* Why: a copy that is there stops every later check, so the copies and    *)
(* the writers about to add one are bounded together.                      *)
Creators(p, d) == {w \in Writers : /\ pc[w] = "create"
                                   /\ part[w] = p
                                   /\ delta[w] = d}
CopiesAndCreators ==
    \A p \in Logs, d \in Deltas :
       copies[p][d] + Cardinality(Creators(p, d)) <= Cardinality(Writers)
=============================================================================
