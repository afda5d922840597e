---------------------------- MODULE ProcessQueue ----------------------------
(***************************************************************************)
(* Process.process() (scripts/partitioner/sql/process.js): the deltas of   *)
(* the queue are read, the rows of their documents are looked up or        *)
(* created, and every delta is recorded in every main partition; then its  *)
(* queue record is destroyed.  Calls run at the same time, in one Node     *)
(* process or in several; permissions change, and Node processes die,      *)
(* between any two statements.                                             *)
(*                                                                         *)
(* The ids found in the preparation are kept in the Process object, which  *)
(* all calls on that object share.  Users and collections are looked up    *)
(* the same way as documents and are taken to exist here; the writes of    *)
(* AttrRec and what follows them are AttrStore and DocLifecycle.           *)
(***************************************************************************)
EXTENDS Naturals, FiniteSets

CONSTANTS Calls,      \* concurrent calls of process()
          Object,     \* the Process object a call is made on
          Deltas,     \* queue records: [doc, user, quorum, id]
          Logs,       \* RECENT and ALL, which behave alike
          Known,      \* the documents that are there from the start
          Granted,    \* the users who may write at the start
          Changeable, \* the users whose permission changes
          Turns,      \* bound: changes of permissions
          Crashes     \* bound: Node processes that die

LATEST == "latest_"
Parts  == {LATEST} \cup Logs
Docs   == {d.doc : d \in Deltas}
Users  == {d.user : d \in Deltas}
Objects == {Object[c] : c \in Calls}

CONSTANTS ALL,        \* the partition under which documents are asked for
          Undefined, None, Found   \* entries of the cache of document ids

ASSUME ProcessQueueAssumption ==
    /\ ALL \in Logs /\ LATEST \notin Logs
    /\ {Undefined, None, Found} \cap Deltas = {}
    /\ Deltas \subseteq [doc : Docs, user : Users, quorum : BOOLEAN, id : Nat]
    /\ Known \subseteq Docs /\ Granted \subseteq Users
    /\ Changeable \subseteq Users
    /\ Turns \in Nat /\ Crashes \in Nat

VARIABLES queue,      \* the deltas that have a queue record
          docs,       \* docs[p]: the documents that have a row in p
          recorded,   \* recorded[p]: the deltas recorded in p
          granted,    \* the users the policies allow to write
          cache,      \* cache[o][p][x]: _docIds: Undefined, the delta that
                      \* asks for document x, None or Found
          batch,      \* batch[o]: _deltas
          call,       \* call[c]: where the call is, the documents it looks
                      \* up, the records it writes, the deltas it waits for
          turns, crashes,
          sent,       \* history: the deltas sent
          refused     \* history: deltas read by a call that was not
                      \* allowed to create a row of their document

dbVars == <<queue, docs, recorded>>
vars == <<dbVars, granted, cache, batch, call, turns, crashes, sent, refused>>
bounds == <<turns, crashes>>

NoIds == [p \in Parts |-> [x \in Docs |-> Undefined]]
Idle  == [pc |-> "idle", read |-> {}, lookups |-> {}, jobs |-> {},
          pending |-> {}]

Init == /\ queue = {} /\ sent = {} /\ refused = {}
        /\ docs = [p \in Parts |-> Known]
        /\ recorded = [p \in Parts |-> {}]
        /\ granted = Granted
        /\ cache = [o \in Objects |-> NoIds]
        /\ batch = [o \in Objects |-> {}]
        /\ call = [c \in Calls |-> Idle]
        /\ turns = Turns /\ crashes = Crashes

(* A client sends a delta; one that is sent again gets another record.     *)
Send(d) ==
    /\ d \notin sent
    /\ queue' = queue \cup {d} /\ sent' = sent \cup {d}
    /\ UNCHANGED <<docs, recorded, granted, cache, batch, call, bounds,
                   refused>>

(* A policy or a role changes.                                             *)
Turn(u) ==
    /\ turns > 0
    /\ granted' = IF u \in granted THEN granted \ {u} ELSE granted \cup {u}
    /\ turns' = turns - 1
    /\ UNCHANGED <<dbVars, cache, batch, call, crashes, sent, refused>>

-----------------------------------------------------------------------------
(* Mutant of Cleared: what the last call found, or did not find, is kept.  *)
CacheKept(o) == cache[o]

(* process(): the cache is cleared and the queue is selected.              *)
Cleared(o) == NoIds

Begin(c) ==
    /\ call[c].pc = "idle"
    /\ cache' = [cache EXCEPT ![Object[c]] = Cleared(Object[c])]
    /\ batch' = [batch EXCEPT ![Object[c]] = {}]
    /\ call' = [call EXCEPT ![c].pc = "reading"]
    /\ UNCHANGED <<dbVars, granted, bounds, sent, refused>>

(* The rows of the queue have been selected, and are now the deltas of the *)
(* object, unless there are none.                                          *)
Read(c) ==
    /\ call[c].pc = "reading"
    /\ IF queue = {}
       THEN UNCHANGED batch /\ call' = [call EXCEPT ![c].pc = "idle"]
       ELSE /\ batch' = [batch EXCEPT ![Object[c]] = queue]
            /\ call' = [call EXCEPT ![c].pc = "inventory",
                                    ![c].read = queue]
    /\ UNCHANGED <<dbVars, granted, cache, bounds, sent, refused>>

(* _takeInventory: a document that is not cached yet is asked for by the   *)
(* first delta about it; a SELECT without ORDER BY makes that any of them. *)
Asked(c) == {x \in Docs : /\ \E d \in call[c].read : d.doc = x
                          /\ cache[Object[c]][ALL][x] = Undefined}
TakeInventory(c) ==
    /\ call[c].pc = "inventory"
    /\ \E first \in [Asked(c) -> call[c].read] :
         /\ \A x \in Asked(c) : first[x].doc = x
         /\ cache' = [cache EXCEPT ![Object[c]][ALL] =
                        [x \in Docs |-> IF x \in Asked(c) THEN first[x]
                                        ELSE @[x]]]
    /\ call' = [call EXCEPT ![c].pc = "lookup"]
    /\ UNCHANGED <<dbVars, granted, batch, bounds, sent, refused>>

(* _lookupOrCreateDocs: the lookups of all documents asked for begin, in   *)
(* every partition.  An entry that another call on the object has set to   *)
(* null meanwhile is dereferenced: process() is rejected.                  *)
Entries(c) == {x \in Docs : cache[Object[c]][ALL][x] \in Deltas}
LookupsOf(c) == {[doc |-> x, part |-> p, pc |-> "select",
                  by |-> cache[Object[c]][ALL][x]] :
                    x \in Entries(c), p \in Parts}
Lookups(c) ==
    /\ call[c].pc = "lookup"
    /\ IF \E x \in Docs : cache[Object[c]][ALL][x] = None
       THEN /\ call' = [call EXCEPT ![c] =
                                [Idle EXCEPT !.jobs = call[c].jobs]]
            /\ UNCHANGED cache
       ELSE /\ call' = [call EXCEPT
                  ![c].pc = "prepare", ![c].lookups = LookupsOf(c)]
            /\ cache' = [cache EXCEPT ![Object[c]] =
                  [p \in Parts |-> [x \in Docs |->
                     IF x \in Entries(c) THEN None ELSE @[p][x]]]]
    /\ UNCHANGED <<dbVars, granted, batch, bounds, sent, refused>>

-----------------------------------------------------------------------------
CacheIt(c, l, value) ==
    cache' = [cache EXCEPT ![Object[c]][l.part][l.doc] = value]
Done(c, l) == call' = [call EXCEPT ![c].lookups = @ \ {l}]

(* _getOrCreateDoc: the row is found ...                                   *)
FindDoc(c, l) ==
    /\ l.pc = "select"
    /\ l.doc \in docs[l.part]
    /\ CacheIt(c, l, Found) /\ Done(c, l)
    /\ UNCHANGED <<dbVars, granted, batch, bounds, sent, refused>>

(* ... or not, and the permission of the user who asks is looked up next.  *)
MissDoc(c, l) ==
    /\ l.pc = "select"
    /\ l.doc \notin docs[l.part]
    /\ CacheIt(c, l, None)
    /\ call' = [call EXCEPT ![c].lookups =
                  (@ \ {l}) \cup {[l EXCEPT !.pc = "permit"]}]
    /\ UNCHANGED <<dbVars, granted, batch, bounds, sent, refused>>

PermitDoc(c, l) ==
    /\ l.pc = "permit"
    /\ l.by.user \in granted
    /\ call' = [call EXCEPT ![c].lookups =
                  (@ \ {l}) \cup {[l EXCEPT !.pc = "create"]}]
    /\ UNCHANGED <<dbVars, granted, cache, batch, bounds, sent, refused>>

(* The ForbiddenError is caught; the cache entry stays null.               *)
ForbidDoc(c, l) ==
    /\ l.pc = "permit"
    /\ l.by.user \notin granted
    /\ Done(c, l)
    /\ refused' = refused \cup {d \in call[c].read : d.doc = l.doc}
    /\ UNCHANGED <<dbVars, granted, cache, batch, bounds, sent>>

(* getOrCreate: created by this call or, meanwhile, by another.            *)
CreateDoc(c, l) ==
    /\ l.pc = "create"
    /\ docs' = [docs EXCEPT ![l.part] = @ \cup {l.doc}]
    /\ CacheIt(c, l, Found) /\ Done(c, l)
    /\ UNCHANGED <<queue, recorded, granted, batch, bounds, sent, refused>>

-----------------------------------------------------------------------------
(* _processAttrs: in one turn of the event loop every delta of the object  *)
(* is started in every partition whose document id is in the cache; where  *)
(* there is none, nothing is done.                                         *)
Ready(c, d, p) == cache[Object[c]][p][d.doc] = Found

(* Attr.create leaves LATEST alone unless there is a quorum.               *)
Wanted(d, p) == p = LATEST => d.quorum

ProcessAttrs(c) ==
    /\ call[c].pc = "prepare" /\ call[c].lookups = {}
    /\ LET B == batch[Object[c]]
       IN  call' = [call EXCEPT
             ![c].pc = "process",
             ![c].pending = B,
             ![c].jobs = @ \cup
                {j \in [delta : B, part : Parts, pc : {"permit"}] :
                   Ready(c, j.delta, j.part) /\ Wanted(j.delta, j.part)}]
    /\ UNCHANGED <<dbVars, granted, cache, batch, bounds, sent, refused>>

PermitAttr(c, j) ==
    /\ j.pc = "permit"
    /\ j.delta.user \in granted
    /\ call' = [call EXCEPT ![c].jobs =
                  (@ \ {j}) \cup {[j EXCEPT !.pc = "write"]}]
    /\ UNCHANGED <<dbVars, granted, cache, batch, bounds, sent, refused>>

(* A ForbiddenError in one partition: the delta stays in the queue; its    *)
(* other records are written all the same.                                 *)
ForbidAttr(c, j) ==
    /\ j.pc = "permit"
    /\ j.delta.user \notin granted
    /\ call' = [call EXCEPT ![c].jobs = @ \ {j},
                            ![c].pending = @ \ {j.delta}]
    /\ UNCHANGED <<dbVars, granted, cache, batch, bounds, sent, refused>>

WriteAttr(c, j) ==
    /\ j.pc = "write"
    /\ recorded' = [recorded EXCEPT ![j.part] = @ \cup {j.delta}]
    /\ call' = [call EXCEPT ![c].jobs = @ \ {j}]
    /\ UNCHANGED <<queue, docs, granted, cache, batch, bounds, sent, refused>>

Everywhere(d) == \A p \in Parts : Wanted(d, p) => d \in recorded[p]

(* Mutant of Settled: the queue record is destroyed without waiting for    *)
(* all partitions.                                                         *)
SettledOnce(c, d) == \E p \in Parts : d \in recorded[p]

(* Promise.all over the partitions.                                        *)
Settled(c, d) == \A j \in call[c].jobs : j.delta # d

(* _destroyQueueAttrRec.                                                   *)
Dequeue(c, d) ==
    /\ call[c].pc = "process"
    /\ d \in call[c].pending /\ Settled(c, d)
    /\ queue' = queue \ {d}
    /\ call' = [call EXCEPT ![c].pending = @ \ {d}]
    /\ UNCHANGED <<docs, recorded, granted, cache, batch, bounds, sent,
                   refused>>

(* Mutant of End: process() does not wait for its deltas.                   *)
EndEarly(c) ==
    /\ call[c].pc = "process"
    /\ call' = [call EXCEPT ![c].pc = "idle", ![c].read = {}]
    /\ UNCHANGED <<dbVars, granted, cache, batch, bounds, sent, refused>>

(* The promise of process() is resolved; records of deltas that were       *)
(* forbidden in one partition may still be written in the others.          *)
End(c) ==
    /\ call[c].pc = "process"
    /\ call[c].pending = {}
    /\ call' = [call EXCEPT ![c].pc = "idle", ![c].read = {}]
    /\ UNCHANGED <<dbVars, granted, cache, batch, bounds, sent, refused>>

(* The Node process of an object dies, with all of its calls.              *)
Crash(o) ==
    /\ crashes > 0
    /\ \E c \in Calls : Object[c] = o /\ call[c] # Idle
    /\ cache' = [cache EXCEPT ![o] = NoIds]
    /\ batch' = [batch EXCEPT ![o] = {}]
    /\ call' = [c \in Calls |-> IF Object[c] = o THEN Idle ELSE call[c]]
    /\ crashes' = crashes - 1
    /\ UNCHANGED <<dbVars, granted, turns, sent, refused>>

-----------------------------------------------------------------------------
LookupStep(c, l) == \/ FindDoc(c, l) \/ MissDoc(c, l) \/ PermitDoc(c, l)
                    \/ ForbidDoc(c, l) \/ CreateDoc(c, l)
AttrStep(c, j) == PermitAttr(c, j) \/ ForbidAttr(c, j) \/ WriteAttr(c, j)

CallStep(c) ==
    \/ Begin(c) \/ Read(c) \/ TakeInventory(c) \/ Lookups(c)
    \/ \E l \in call[c].lookups : LookupStep(c, l)
    \/ ProcessAttrs(c)
    \/ \E j \in call[c].jobs : AttrStep(c, j)
    \/ \E d \in call[c].pending : Dequeue(c, d)
    \/ End(c)

Next == \/ \E d \in Deltas : Send(d)
        \/ \E u \in Changeable : Turn(u)
        \/ \E c \in Calls : CallStep(c)
        \/ \E o \in Objects : Crash(o)

Spec == Init /\ [][Next]_vars

(* process() is called again and again, and the database answers.          *)
FairSpec == Spec /\ \A c \in Calls : WF_vars(CallStep(c))

-----------------------------------------------------------------------------
Entry  == Deltas \cup {Undefined, None, Found}
Lookup == [doc : Docs, part : Parts, by : Deltas,
           pc : {"select", "permit", "create"}]
Call   == [pc : {"idle", "reading", "inventory", "lookup", "prepare",
                 "process"},
           read : SUBSET sent, lookups : SUBSET Lookup,
           jobs : SUBSET [delta : sent, part : Parts, pc : {"permit", "write"}],
           pending : SUBSET sent]

(* The tables and the Process objects hold what they may hold, and a call  *)
(* that has ended has left nothing but records of forbidden deltas.        *)
TypeOK ==
    /\ queue \subseteq sent /\ sent \subseteq Deltas /\ refused \subseteq sent
    /\ docs \in [Parts -> SUBSET Docs]
    /\ recorded \in [Parts -> SUBSET sent]
    /\ granted \subseteq Users
    /\ cache \in [Objects -> [Parts -> [Docs -> Entry]]]
    /\ batch \in [Objects -> SUBSET sent]
    /\ call \in [Calls -> Call]
    /\ \A c \in Calls :
         call[c].pc = "idle" => call[c] = [Idle EXCEPT !.jobs = call[c].jobs]

(* A delta leaves the queue only when every partition that wants it has    *)
(* it, or when a row of the document it is about could not be created      *)
(* (process.js:97-140, 689-698): no overlap of calls, no change of         *)
(* permissions and no crash in between makes it disappear.                 *)
NothingDropped == \A d \in sent \ queue : Everywhere(d) \/ d \in refused

(* A delta of a user who may write is not held up for ever by those of     *)
(* others or by what has failed: in the end only what is forbidden is      *)
(* still queued (process.js:718-729).                                      *)
OnlyForbiddenStay == <>[](\A d \in queue : d.user \notin granted)
=============================================================================
