-------------------------- MODULE ProcessQueueProofs --------------------------
(***************************************************************************)
(* Machine-checked theorems about ProcessQueue, for any deltas, documents, *)
(* logs and numbers of calls, changes of permissions and crashes.          *)
(***************************************************************************)
EXTENDS ProcessQueue, TLAPS

Tables ==
    /\ queue \subseteq sent /\ sent \subseteq Deltas /\ refused \subseteq sent
    /\ docs \in [Parts -> SUBSET Docs]
    /\ recorded \in [Parts -> SUBSET sent]
    /\ granted \subseteq Users

Memory ==
    /\ cache \in [Objects -> [Parts -> [Docs -> Entry]]]
    /\ batch \in [Objects -> SUBSET sent]
    /\ call \in [Calls -> Call]

(* What a call keeps only while it needs it.                               *)
Phase(k) ==
    /\ k.pc \in {"idle", "reading"} => k.read = {}
    /\ k.pc # "prepare" => k.lookups = {}
    /\ k.pc # "process" => k.pending = {}

Typed == Tables /\ Memory /\ \A c \in Calls : Phase(call[c])

LEMMA TypedOK == ASSUME Typed PROVE TypeOK
<1>1. ASSUME NEW c \in Calls, call[c].pc = "idle"
      PROVE  call[c] = [Idle EXCEPT !.jobs = call[c].jobs]
  <2>1. call[c] \in Call /\ Phase(call[c])
    BY DEF Typed, Memory
  <2>2. /\ call[c].read = {} /\ call[c].lookups = {} /\ call[c].pending = {}
    BY <1>1, <2>1 DEF Phase
  <2>3. call[c] = [pc |-> "idle", read |-> {}, lookups |-> {},
                   jobs |-> call[c].jobs, pending |-> {}]
    BY <1>1, <2>1, <2>2 DEF Call
  <2>4. [Idle EXCEPT !.jobs = call[c].jobs]
          = [pc |-> "idle", read |-> {}, lookups |-> {},
             jobs |-> call[c].jobs, pending |-> {}]
    BY DEF Idle
  <2> QED
    BY <2>3, <2>4
<1> QED
  BY <1>1 DEF Typed, Tables, Memory, TypeOK

LEMMA ObjectsOfCalls == ASSUME NEW c \in Calls PROVE Object[c] \in Objects
BY DEF Objects

LEMMA PartsAre == LATEST \in Parts /\ ALL \in Parts
BY ProcessQueueAssumption DEF Parts

LEMMA DeltasAre ==
    ASSUME NEW d \in Deltas
    PROVE  d.doc \in Docs /\ d.user \in Users /\ d \in Entry
BY DEF Docs, Users, Entry

LEMMA NoIdsTyped == NoIds \in [Parts -> [Docs -> Entry]]
BY DEF NoIds, Entry

LEMMA IdleTyped ==
    ASSUME NEW J \in SUBSET [delta : sent, part : Parts,
                             pc : {"permit", "write"}]
    PROVE  /\ [Idle EXCEPT !.jobs = J] \in Call
           /\ Phase([Idle EXCEPT !.jobs = J])
           /\ Idle \in Call /\ Phase(Idle)
BY DEF Idle, Call, Phase

LEMMA InitTyped == ASSUME Init PROVE Typed
BY ProcessQueueAssumption, NoIdsTyped, IdleTyped
   DEF Init, Typed, Tables, Memory

-----------------------------------------------------------------------------
(* A step of a call replaces its own record, and what its object holds.    *)
LEMMA CallReplaced ==
    ASSUME Typed, NEW c \in Calls, NEW k \in Call, Phase(k), sent' = sent,
           Tables', cache' \in [Objects -> [Parts -> [Docs -> Entry]]],
           batch' \in [Objects -> SUBSET sent],
           call' = [call EXCEPT ![c] = k]
    PROVE  Typed'
<1>1. Call' = Call
  BY DEF Call
<1>2. call \in [Calls -> Call] /\ \A e \in Calls : Phase(call[e])
  BY DEF Typed, Memory
<1>3. call' \in [Calls -> Call] /\ \A e \in Calls : Phase(call'[e])
  BY <1>2
<1>4. Phase(k)
  OBVIOUS
<1> QED
  BY <1>1, <1>3 DEF Typed, Memory, Phase

LEMMA CachedTyped ==
    ASSUME Typed, NEW c \in Calls, NEW l \in call[c].lookups,
           NEW value \in {Undefined, None, Found}, CacheIt(c, l, value)
    PROVE  cache' \in [Objects -> [Parts -> [Docs -> Entry]]]
<1>1. l \in Lookup
  BY DEF Typed, Memory, Call
<1>2. l.part \in Parts /\ l.doc \in Docs /\ value \in Entry
  BY <1>1 DEF Lookup, Entry
<1>3. cache[Object[c]] \in [Parts -> [Docs -> Entry]]
  BY ObjectsOfCalls DEF Typed, Memory
<1>4. [cache[Object[c]] EXCEPT ![l.part][l.doc] = value]
        \in [Parts -> [Docs -> Entry]]
  BY <1>2, <1>3
<1>5. cache' = [cache EXCEPT ![Object[c]] =
                  [cache[Object[c]] EXCEPT ![l.part][l.doc] = value]]
  BY DEF CacheIt
<1> QED
  BY <1>4, <1>5 DEF Typed, Memory

(* The steps of a look-up, and of a record.                                *)
LEMMA LookupTyped ==
    ASSUME Typed, NEW c \in Calls, NEW l \in call[c].lookups,
           LookupStep(c, l)
    PROVE  Typed'
<1>0. call[c] \in Call /\ Phase(call[c]) /\ call[c].pc = "prepare"
  BY DEF Typed, Memory, Phase
<1>1. l \in Lookup /\ l.doc \in Docs /\ l.part \in Parts
  BY <1>0 DEF Call, Lookup
<1> DEFINE Less == [call[c] EXCEPT !.lookups = @ \ {l}]
           Moved(pc) == [call[c] EXCEPT !.lookups =
                           (@ \ {l}) \cup {[l EXCEPT !.pc = pc]}]
<1>2. Less \in Call /\ Phase(Less)
  BY <1>0 DEF Call, Phase
<1>3. ASSUME NEW pc \in {"permit", "create"}
      PROVE  Moved(pc) \in Call /\ Phase(Moved(pc))
  <2>1. [l EXCEPT !.pc = pc] \in Lookup
    BY <1>1 DEF Lookup
  <2> QED
    BY <1>0, <2>1 DEF Call, Phase
<1>4. CASE FindDoc(c, l)
  <2>1. cache' \in [Objects -> [Parts -> [Docs -> Entry]]]
    BY <1>4, CachedTyped DEF FindDoc
  <2>2. call' = [call EXCEPT ![c] = Less] /\ UNCHANGED batch /\ sent' = sent
    BY <1>4 DEF FindDoc, Done
  <2>3. Tables'
    BY <1>4 DEF FindDoc, dbVars, Typed, Tables
  <2> HIDE DEF Less
  <2> QED
    BY <1>2, <2>1, <2>2, <2>3, CallReplaced DEF Typed, Memory
<1>5. CASE MissDoc(c, l)
  <2>1. cache' \in [Objects -> [Parts -> [Docs -> Entry]]]
    BY <1>5, CachedTyped DEF MissDoc
  <2>2. call' = [call EXCEPT ![c] = Moved("permit")]
        /\ UNCHANGED batch /\ sent' = sent
    BY <1>5 DEF MissDoc
  <2>3. Tables'
    BY <1>5 DEF MissDoc, dbVars, Typed, Tables
  <2>4. Moved("permit") \in Call /\ Phase(Moved("permit"))
    BY <1>3
  <2> HIDE DEF Moved
  <2> QED
    BY <2>1, <2>2, <2>3, <2>4, CallReplaced DEF Typed, Memory
<1>6. CASE PermitDoc(c, l)
  <2>2. call' = [call EXCEPT ![c] = Moved("create")]
        /\ UNCHANGED <<cache, batch>> /\ sent' = sent
    BY <1>6 DEF PermitDoc
  <2>3. Tables'
    BY <1>6 DEF PermitDoc, dbVars, Typed, Tables
  <2>4. Moved("create") \in Call /\ Phase(Moved("create"))
    BY <1>3
  <2> HIDE DEF Moved
  <2> QED
    BY <2>2, <2>3, <2>4, CallReplaced DEF Typed, Memory
<1>7. CASE ForbidDoc(c, l)
  <2>2. call' = [call EXCEPT ![c] = Less]
        /\ UNCHANGED <<cache, batch>> /\ sent' = sent
    BY <1>7 DEF ForbidDoc, Done
  <2>3. Tables'
    BY <1>0, <1>7 DEF ForbidDoc, dbVars, Typed, Tables, Call
  <2> HIDE DEF Less
  <2> QED
    BY <1>2, <2>2, <2>3, CallReplaced DEF Typed, Memory
<1>8. CASE CreateDoc(c, l)
  <2>1. cache' \in [Objects -> [Parts -> [Docs -> Entry]]]
    BY <1>8, CachedTyped DEF CreateDoc
  <2>2. call' = [call EXCEPT ![c] = Less] /\ UNCHANGED batch /\ sent' = sent
    BY <1>8 DEF CreateDoc, Done
  <2>3. Tables'
    BY <1>1, <1>8 DEF CreateDoc, Typed, Tables
  <2> HIDE DEF Less
  <2> QED
    BY <1>2, <2>1, <2>2, <2>3, CallReplaced DEF Typed, Memory
<1> QED
  BY <1>4, <1>5, <1>6, <1>7, <1>8 DEF LookupStep

LEMMA AttrTyped ==
    ASSUME Typed, NEW c \in Calls, NEW j \in call[c].jobs, AttrStep(c, j)
    PROVE  Typed'
<1>0. call[c] \in Call /\ Phase(call[c])
  BY DEF Typed, Memory
<1>1. j \in [delta : sent, part : Parts, pc : {"permit", "write"}]
  BY <1>0 DEF Call
<1> DEFINE Left == [call[c] EXCEPT !.jobs = @ \ {j}]
           Moved == [call[c] EXCEPT !.jobs =
                       (@ \ {j}) \cup {[j EXCEPT !.pc = "write"]}]
           Given == [call[c] EXCEPT !.jobs = @ \ {j},
                                    !.pending = @ \ {j.delta}]
<1>2. Left \in Call /\ Phase(Left)
  BY <1>0 DEF Call, Phase
<1>3. Moved \in Call /\ Phase(Moved)
  BY <1>0, <1>1 DEF Call, Phase
<1>4. Given \in Call /\ Phase(Given)
  BY <1>0 DEF Call, Phase
<1>5. CASE PermitAttr(c, j)
  <2>1. call' = [call EXCEPT ![c] = Moved]
        /\ UNCHANGED <<cache, batch>> /\ sent' = sent
    BY <1>5 DEF PermitAttr
  <2>2. Tables'
    BY <1>5 DEF PermitAttr, dbVars, Typed, Tables
  <2> HIDE DEF Moved
  <2> QED
    BY <1>3, <2>1, <2>2, CallReplaced DEF Typed, Memory
<1>6. CASE ForbidAttr(c, j)
  <2>1. call' = [call EXCEPT ![c] = Given]
        /\ UNCHANGED <<cache, batch>> /\ sent' = sent
    BY <1>6 DEF ForbidAttr
  <2>2. Tables'
    BY <1>6 DEF ForbidAttr, dbVars, Typed, Tables
  <2> HIDE DEF Given
  <2> QED
    BY <1>4, <2>1, <2>2, CallReplaced DEF Typed, Memory
<1>7. CASE WriteAttr(c, j)
  <2>1. call' = [call EXCEPT ![c] = Left]
        /\ UNCHANGED <<cache, batch>> /\ sent' = sent
    BY <1>7 DEF WriteAttr
  <2>2. Tables'
    BY <1>1, <1>7 DEF WriteAttr, Typed, Tables
  <2> HIDE DEF Left
  <2> QED
    BY <1>2, <2>1, <2>2, CallReplaced DEF Typed, Memory
<1> QED
  BY <1>5, <1>6, <1>7 DEF AttrStep


-----------------------------------------------------------------------------
LEMMA BeginTyped == ASSUME Typed, NEW c \in Calls, Begin(c) PROVE Typed'
<1> DEFINE k == [call[c] EXCEPT !.pc = "reading"]
<1>1. call[c] \in Call /\ Phase(call[c]) /\ call[c].pc = "idle"
  BY DEF Typed, Memory, Begin
<1>2. k \in Call /\ Phase(k)
  BY <1>1 DEF Call, Phase
<1>3. cache' \in [Objects -> [Parts -> [Docs -> Entry]]]
      /\ batch' \in [Objects -> SUBSET sent]
  BY NoIdsTyped DEF Begin, Cleared, Typed, Memory
<1>4. Tables' /\ sent' = sent /\ call' = [call EXCEPT ![c] = k]
  BY DEF Begin, dbVars, Typed, Tables
<1> HIDE DEF k
<1> QED
  BY <1>2, <1>3, <1>4, CallReplaced

LEMMA ReadTyped == ASSUME Typed, NEW c \in Calls, Read(c) PROVE Typed'
<1> DEFINE none == [call[c] EXCEPT !.pc = "idle"]
           k == [call[c] EXCEPT !.pc = "inventory", !.read = queue]
<1>1. call[c] \in Call /\ Phase(call[c]) /\ call[c].pc = "reading"
      /\ queue \subseteq sent
  BY DEF Typed, Memory, Tables, Read
<1>2. k \in Call /\ Phase(k) /\ none \in Call /\ Phase(none)
  BY <1>1 DEF Call, Phase
<1>3. cache' \in [Objects -> [Parts -> [Docs -> Entry]]]
      /\ batch' \in [Objects -> SUBSET sent]
  BY <1>1 DEF Read, Typed, Memory
<1>4. Tables' /\ sent' = sent
  BY DEF Read, dbVars, Typed, Tables
<1>5. call' = [call EXCEPT ![c] = none] \/ call' = [call EXCEPT ![c] = k]
  BY DEF Read
<1> HIDE DEF k, none
<1> QED
  BY <1>2, <1>3, <1>4, <1>5, CallReplaced

LEMMA InventoryTyped ==
    ASSUME Typed, NEW c \in Calls, TakeInventory(c) PROVE Typed'
<1> DEFINE k == [call[c] EXCEPT !.pc = "lookup"]
<1>1. call[c] \in Call /\ Phase(call[c]) /\ call[c].pc = "inventory"
  BY DEF Typed, Memory, TakeInventory
<1>2. k \in Call /\ Phase(k)
  BY <1>1 DEF Call, Phase
<1>3. cache' \in [Objects -> [Parts -> [Docs -> Entry]]]
  <2>1. PICK first \in [Asked(c) -> call[c].read] :
          cache' = [cache EXCEPT ![Object[c]][ALL] =
                      [x \in Docs |-> IF x \in Asked(c) THEN first[x]
                                      ELSE @[x]]]
    BY DEF TakeInventory
  <2>2. cache[Object[c]] \in [Parts -> [Docs -> Entry]]
    BY ObjectsOfCalls DEF Typed, Memory
  <2>3. cache[Object[c]][ALL] \in [Docs -> Entry]
    BY <2>2, PartsAre
  <2>4. \A x \in Asked(c) : first[x] \in Entry
    BY <1>1, DeltasAre DEF Typed, Tables, Call
  <2> DEFINE row == [x \in Docs |-> IF x \in Asked(c) THEN first[x]
                                    ELSE cache[Object[c]][ALL][x]]
  <2>5. row \in [Docs -> Entry]
    BY <2>3, <2>4
  <2>6. cache' = [cache EXCEPT ![Object[c]] =
                    [cache[Object[c]] EXCEPT ![ALL] = row]]
    BY <2>1
  <2> HIDE DEF row
  <2>7. [cache[Object[c]] EXCEPT ![ALL] = row] \in [Parts -> [Docs -> Entry]]
    BY <2>2, <2>5
  <2> QED
    BY <2>6, <2>7 DEF Typed, Memory
<1>4. Tables' /\ sent' = sent /\ call' = [call EXCEPT ![c] = k]
      /\ batch' = batch
  BY DEF TakeInventory, dbVars, Typed, Tables
<1> HIDE DEF k
<1> QED
  BY <1>2, <1>3, <1>4, CallReplaced DEF Typed, Memory

LEMMA LookupsTyped == ASSUME Typed, NEW c \in Calls, Lookups(c) PROVE Typed'
<1> DEFINE none == [Idle EXCEPT !.jobs = call[c].jobs]
           k == [call[c] EXCEPT !.pc = "prepare", !.lookups = LookupsOf(c)]
<1>1. call[c] \in Call /\ Phase(call[c]) /\ call[c].pc = "lookup"
  BY DEF Typed, Memory, Lookups
<1>2. cache[Object[c]] \in [Parts -> [Docs -> Entry]]
  BY ObjectsOfCalls DEF Typed, Memory
<1>3. LookupsOf(c) \subseteq Lookup
  BY DEF LookupsOf, Entries, Lookup
<1>4. none \in Call /\ Phase(none)
  BY <1>1, IdleTyped DEF Call
<1>5. k \in Call /\ Phase(k)
  BY <1>1, <1>3 DEF Call, Phase
<1>6. Tables' /\ sent' = sent /\ batch' = batch
  BY DEF Lookups, dbVars, Typed, Tables
<1>7. CASE \E x \in Docs : cache[Object[c]][ALL][x] = None
  <2>1. call' = [call EXCEPT ![c] = none] /\ cache' = cache
    BY <1>7 DEF Lookups
  <2> HIDE DEF none
  <2> QED
    BY <1>4, <1>6, <2>1, CallReplaced DEF Typed, Memory
<1>8. CASE ~ \E x \in Docs : cache[Object[c]][ALL][x] = None
  <2> DEFINE ids == [p \in Parts |-> [x \in Docs |->
                       IF x \in Entries(c) THEN None
                       ELSE cache[Object[c]][p][x]]]
  <2>1. call' = [call EXCEPT ![c] = k]
    BY <1>8 DEF Lookups
  <2>2. cache' = [cache EXCEPT ![Object[c]] = ids]
    BY <1>8 DEF Lookups
  <2>3. ids \in [Parts -> [Docs -> Entry]]
    BY <1>2 DEF Entry
  <2> HIDE DEF k, ids
  <2> QED
    BY <1>5, <1>6, <2>1, <2>2, <2>3, CallReplaced DEF Typed, Memory
<1> QED
  BY <1>7, <1>8

LEMMA ProcessTyped ==
    ASSUME Typed, NEW c \in Calls, ProcessAttrs(c) PROVE Typed'
<1> DEFINE B == batch[Object[c]]
           J == {j \in [delta : B, part : Parts, pc : {"permit"}] :
                   Ready(c, j.delta, j.part) /\ Wanted(j.delta, j.part)}
           k == [call[c] EXCEPT !.pc = "process", !.pending = B,
                                !.jobs = @ \cup J]
<1>1. call[c] \in Call /\ Phase(call[c]) /\ call[c].pc = "prepare"
      /\ call[c].lookups = {}
  BY DEF Typed, Memory, ProcessAttrs
<1>2. B \subseteq sent
  BY ObjectsOfCalls DEF Typed, Memory
<1>3. J \subseteq [delta : sent, part : Parts, pc : {"permit", "write"}]
  BY <1>2
<1> HIDE DEF J, B
<1>4. k \in Call /\ Phase(k)
  BY <1>1, <1>2, <1>3 DEF Call, Phase
<1>5. call' = [call EXCEPT ![c] = k]
  BY DEF ProcessAttrs, B, J
<1>6. Tables' /\ sent' = sent /\ UNCHANGED <<cache, batch>>
  BY DEF ProcessAttrs, dbVars, Typed, Tables
<1> HIDE DEF k
<1> QED
  BY <1>4, <1>5, <1>6, CallReplaced DEF Typed, Memory

LEMMA EndTyped ==
    ASSUME Typed, NEW c \in Calls,
           End(c) \/ \E d \in call[c].pending : Dequeue(c, d)
    PROVE  Typed'
<1>1. call[c] \in Call /\ Phase(call[c]) /\ call[c].pc = "process"
  BY DEF Typed, Memory, End, Dequeue
<1>2. CASE End(c)
  <2> DEFINE k == [call[c] EXCEPT !.pc = "idle", !.read = {}]
  <2>1. k \in Call /\ Phase(k)
    BY <1>1, <1>2 DEF Call, Phase, End
  <2>2. call' = [call EXCEPT ![c] = k] /\ UNCHANGED <<cache, batch>>
        /\ Tables' /\ sent' = sent
    BY <1>2 DEF End, dbVars, Typed, Tables
  <2> HIDE DEF k
  <2> QED
    BY <2>1, <2>2, CallReplaced DEF Typed, Memory
<1>3. ASSUME NEW d \in call[c].pending, Dequeue(c, d) PROVE Typed'
  <2> DEFINE k == [call[c] EXCEPT !.pending = @ \ {d}]
  <2>1. k \in Call /\ Phase(k)
    BY <1>1 DEF Call, Phase
  <2>2. call' = [call EXCEPT ![c] = k] /\ UNCHANGED <<cache, batch>>
        /\ Tables' /\ sent' = sent
    BY <1>3 DEF Dequeue, Typed, Tables
  <2> HIDE DEF k
  <2> QED
    BY <2>1, <2>2, CallReplaced DEF Typed, Memory
<1> QED
  BY <1>2, <1>3

LEMMA CallTyped == ASSUME Typed, NEW c \in Calls, CallStep(c) PROVE Typed'
BY BeginTyped, ReadTyped, InventoryTyped, LookupsTyped, LookupTyped,
   ProcessTyped, AttrTyped, EndTyped DEF CallStep

LEMMA CrashTyped == ASSUME Typed, NEW o \in Objects, Crash(o) PROVE Typed'
<1>1. Idle \in Call /\ Phase(Idle)
  BY DEF Idle, Call, Phase
<1>2. Call' = Call /\ sent' = sent
  BY DEF Crash, Call
<1>3. call' \in [Calls -> Call] /\ \A c \in Calls : Phase(call'[c])
  BY <1>1 DEF Crash, Typed, Memory
<1>4. cache' \in [Objects -> [Parts -> [Docs -> Entry]]]
      /\ batch' \in [Objects -> SUBSET sent]
  BY NoIdsTyped DEF Crash, Typed, Memory
<1>5. Tables'
  BY DEF Crash, dbVars, Typed, Tables
<1> QED
  BY <1>2, <1>3, <1>4, <1>5 DEF Typed, Memory, Phase

LEMMA SendTyped == ASSUME Typed, NEW d \in Deltas, Send(d) PROVE Typed'
<1>1. sent \subseteq sent' /\ sent' \subseteq Deltas
  BY DEF Send, Typed, Tables
<1>2. Call \subseteq Call'
  BY <1>1 DEF Call
<1> QED
  BY <1>1, <1>2 DEF Send, Typed, Tables, Memory, Phase

LEMMA StepTyped == ASSUME Typed, [Next]_vars PROVE Typed'
<1>1. CASE \E d \in Deltas : Send(d)
  BY <1>1, SendTyped
<1>2. ASSUME NEW u \in Changeable, Turn(u) PROVE Typed'
  <2>1. Call' = Call
    BY <1>2 DEF Turn, Call
  <2> QED
    BY <1>2, <2>1, ProcessQueueAssumption
       DEF Turn, dbVars, Typed, Tables, Memory, Phase
<1>3. CASE \E c \in Calls : CallStep(c)
  BY <1>3, CallTyped
<1>4. CASE \E o \in Objects : Crash(o)
  BY <1>4, CrashTyped
<1>5. CASE UNCHANGED vars
  <2>1. Call' = Call
    BY <1>5 DEF vars, Call
  <2> QED
    BY <1>5, <2>1 DEF vars, dbVars, Typed, Tables, Memory, Phase
<1> QED
  BY <1>1, <1>2, <1>3, <1>4, <1>5 DEF Next

(* The queue, the tables and the Process objects hold what they may hold,  *)
(* whoever calls process() on which object (process.js:21-53).             *)
THEOREM TypeCorrect == Spec => []TypeOK
<1>1. Spec => []Typed
  BY InitTyped, StepTyped, PTL DEF Spec
<1> QED
  BY <1>1, TypedOK, PTL

-----------------------------------------------------------------------------
(* What follows is about calls that do not share an object.                *)
OwnObjects == \A c, e \in Calls : Object[c] = Object[e] => c = e

(* What a call knows, and what it still owes, from its record k, its row m *)
(* of the cache and the deltas b of its object: its object has the deltas  *)
(* it has read.                                                            *)
Same(k, b) == k.pc \notin {"idle", "reading"} => b = k.read

(* No id is known before the look-ups; then each document is asked for ... *)
Unknown(k, m) == k.pc \in {"reading", "inventory"} =>
                   \A x \in Docs : m[ALL][x] = Undefined

AskedFor(k, m) == k.pc = "lookup" =>
                    \A d \in k.read : m[ALL][d.doc] \in Deltas

(* ... and found, or being looked up, or refused, in every partition.      *)
Looking(k, x, p) == \E l \in k.lookups : l.doc = x /\ l.part = p
Answered(k, m, R) == k.pc = "prepare" =>
                       \A d \in k.read, p \in Parts :
                          \/ m[p][d.doc] = Found
                          \/ Looking(k, d.doc, p)
                          \/ d \in R

(* A delta waited for is recorded, or will be, or was refused.             *)
Recording(k, d, p) == \E j \in k.jobs : j.delta = d /\ j.part = p
Owed(k, rec, R) == \A d \in k.pending, p \in Parts :
                     Wanted(d, p) => \/ d \in rec[p]
                                     \/ Recording(k, d, p)
                                     \/ d \in R

Keeps(k, m, b, rec, R) ==
    /\ Same(k, b) /\ Unknown(k, m) /\ AskedFor(k, m)
    /\ Answered(k, m, R) /\ Owed(k, rec, R)

AllKeep == \A c \in Calls : Keeps(call[c], cache[Object[c]],
                                  batch[Object[c]], recorded, refused)

LEMMA IdleKeeps ==
    ASSUME NEW k, NEW m, NEW b, NEW rec, NEW R,
           k.pc = "idle", k.pending = {}
    PROVE  Keeps(k, m, b, rec, R)
BY DEF Keeps, Same, Unknown, AskedFor, Answered, Owed

LEMMA InitKeeps == ASSUME Init PROVE AllKeep
<1>1. Idle.pc = "idle" /\ Idle.pending = {}
  BY DEF Idle
<1>2. \A c \in Calls : call[c] = Idle
  BY DEF Init
<1> QED
  BY <1>1, <1>2, IdleKeeps DEF AllKeep

(* What others do does not change it: records and refusals stay.           *)
Grown == /\ \A p \in Parts : recorded[p] \subseteq recorded'[p]
         /\ refused \subseteq refused'

LEMMA KeepsStays ==
    ASSUME NEW k, NEW m, NEW b, Keeps(k, m, b, recorded, refused), Grown
    PROVE  Keeps(k, m, b, recorded', refused')
BY DEF Keeps, Answered, Owed, Grown

(* A step of call c is a step of its record and its object alone.          *)
LEMMA OthersKeep ==
    ASSUME OwnObjects, Typed, AllKeep, NEW c \in Calls, Grown,
           NEW k, call' = [call EXCEPT ![c] = k],
           NEW m, cache' = [cache EXCEPT ![Object[c]] = m],
           NEW b, batch' = [batch EXCEPT ![Object[c]] = b],
           Keeps(k, m, b, recorded', refused')
    PROVE  AllKeep'
<1>1. ASSUME NEW e \in Calls
      PROVE  Keeps(call'[e], cache'[Object[e]], batch'[Object[e]],
                   recorded', refused')
  <2>0. Object[e] \in Objects /\ Object[c] \in Objects
    BY ObjectsOfCalls
  <2>1. CASE e = c
    <3>1. call'[e] = k /\ cache'[Object[e]] = m /\ batch'[Object[e]] = b
      BY <2>0, <2>1 DEF Typed, Memory
    <3> QED
      BY <3>1
  <2>2. CASE e # c
    <3>1. Object[e] # Object[c]
      BY <2>2 DEF OwnObjects
    <3>2. /\ call'[e] = call[e] /\ cache'[Object[e]] = cache[Object[e]]
          /\ batch'[Object[e]] = batch[Object[e]]
      BY <2>0, <2>2, <3>1 DEF Typed, Memory
    <3>3. Keeps(call[e], cache[Object[e]], batch[Object[e]], recorded,
                refused)
      BY DEF AllKeep
    <3>4. Keeps(call[e], cache[Object[e]], batch[Object[e]], recorded',
                refused')
      BY <3>3, KeepsStays
    <3> QED
      BY <3>2, <3>4
  <2> QED
    BY <2>1, <2>2
<1> QED
  BY <1>1 DEF AllKeep

(* Where a step leaves what the object holds.                              *)
LEMMA SameHeld ==
    ASSUME Typed, NEW c \in Calls
    PROVE  /\ cache = [cache EXCEPT ![Object[c]] = cache[Object[c]]]
           /\ batch = [batch EXCEPT ![Object[c]] = batch[Object[c]]]
BY ObjectsOfCalls DEF Typed, Memory

-----------------------------------------------------------------------------
LEMMA CallHeld ==
    ASSUME Typed, AllKeep, NEW c \in Calls
    PROVE  /\ call[c] \in Call /\ Phase(call[c])
           /\ Keeps(call[c], cache[Object[c]], batch[Object[c]], recorded,
                    refused)
           /\ cache[Object[c]] \in [Parts -> [Docs -> Entry]]
           /\ batch[Object[c]] \subseteq sent
BY ObjectsOfCalls DEF Typed, Memory, AllKeep

LEMMA BeginKeeps ==
    ASSUME OwnObjects, Typed, AllKeep, NEW c \in Calls, Begin(c)
    PROVE  AllKeep'
<1> DEFINE k == [call[c] EXCEPT !.pc = "reading"]
           b == {}
<1>1. call[c] \in Call /\ Phase(call[c]) /\ call[c].pc = "idle"
  BY CallHeld DEF Begin
<1>2. k.pc = "reading" /\ k.read = {} /\ k.pending = {}
  BY <1>1 DEF Call, Phase
<1>3. \A x \in Docs : NoIds[ALL][x] = Undefined
  BY PartsAre DEF NoIds
<1>4. Grown /\ recorded' = recorded /\ refused' = refused
  BY DEF Begin, Grown, dbVars
<1>5. /\ call' = [call EXCEPT ![c] = k]
      /\ cache' = [cache EXCEPT ![Object[c]] = NoIds]
      /\ batch' = [batch EXCEPT ![Object[c]] = b]
  BY DEF Begin, Cleared
<1> HIDE DEF k
<1>6. Keeps(k, NoIds, b, recorded', refused')
  BY <1>2, <1>3 DEF Keeps, Same, Unknown, AskedFor, Answered, Owed
<1> HIDE DEF b
<1> QED
  BY <1>4, <1>5, <1>6, OthersKeep

LEMMA ReadKeeps ==
    ASSUME OwnObjects, Typed, AllKeep, NEW c \in Calls, Read(c)
    PROVE  AllKeep'
<1> DEFINE none == [call[c] EXCEPT !.pc = "idle"]
           k == [call[c] EXCEPT !.pc = "inventory", !.read = queue]
           m == cache[Object[c]]
           b == batch[Object[c]]
<1>1. call[c] \in Call /\ Phase(call[c]) /\ call[c].pc = "reading"
      /\ Keeps(call[c], m, b, recorded, refused)
  BY CallHeld DEF Read
<1>2. Grown /\ recorded' = recorded /\ refused' = refused
      /\ cache' = [cache EXCEPT ![Object[c]] = m]
  BY SameHeld DEF Read, Grown, dbVars
<1>3. CASE queue = {}
  <2>1. none.pc = "idle" /\ none.pending = {}
    BY <1>1 DEF Call, Phase
  <2>2. call' = [call EXCEPT ![c] = none]
        /\ batch' = [batch EXCEPT ![Object[c]] = b]
    BY <1>3, SameHeld DEF Read
  <2> HIDE DEF none, m, b
  <2>3. Keeps(none, m, b, recorded', refused')
    BY <2>1, IdleKeeps
  <2> QED
    BY <1>2, <2>2, <2>3, OthersKeep
<1>4. CASE queue # {}
  <2>1. k.pc = "inventory" /\ k.read = queue /\ k.pending = {}
    BY <1>1 DEF Call, Phase
  <2>2. call' = [call EXCEPT ![c] = k]
        /\ batch' = [batch EXCEPT ![Object[c]] = queue]
    BY <1>4 DEF Read
  <2>3. \A x \in Docs : m[ALL][x] = Undefined
    BY <1>1 DEF Keeps, Unknown
  <2> HIDE DEF k, m, b
  <2>4. Keeps(k, m, queue, recorded', refused')
    BY <2>1, <2>3 DEF Keeps, Same, Unknown, AskedFor, Answered, Owed
  <2> QED
    BY <1>2, <2>2, <2>4, OthersKeep
<1> QED
  BY <1>3, <1>4

LEMMA InventoryKeeps ==
    ASSUME OwnObjects, Typed, AllKeep, NEW c \in Calls, TakeInventory(c)
    PROVE  AllKeep'
<1>1. PICK first \in [Asked(c) -> call[c].read] :
        /\ \A x \in Asked(c) : first[x].doc = x
        /\ cache' = [cache EXCEPT ![Object[c]][ALL] =
                       [x \in Docs |-> IF x \in Asked(c) THEN first[x]
                                       ELSE @[x]]]
  BY DEF TakeInventory
<1> DEFINE k == [call[c] EXCEPT !.pc = "lookup"]
           row == [x \in Docs |-> IF x \in Asked(c) THEN first[x]
                                  ELSE cache[Object[c]][ALL][x]]
           m == [cache[Object[c]] EXCEPT ![ALL] = row]
           b == batch[Object[c]]
<1>2. call[c] \in Call /\ Phase(call[c]) /\ call[c].pc = "inventory"
      /\ Keeps(call[c], cache[Object[c]], b, recorded, refused)
      /\ cache[Object[c]] \in [Parts -> [Docs -> Entry]]
  BY CallHeld DEF TakeInventory
<1>3. k.pc = "lookup" /\ k.read = call[c].read /\ k.pending = {}
      /\ call[c].read \subseteq Deltas
  BY <1>2 DEF Call, Phase, Typed, Tables
<1>4. b = call[c].read
  BY <1>2 DEF Keeps, Same
<1>5. \A d \in call[c].read : d.doc \in Asked(c)
  BY <1>2, <1>3, DeltasAre DEF Keeps, Unknown, Asked
<1>6. \A d \in call[c].read : m[ALL][d.doc] \in Deltas
  <2>1. m[ALL] = row
    BY <1>2, PartsAre
  <2> QED
    BY <1>3, <1>5, <2>1, DeltasAre
<1>7. Grown /\ recorded' = recorded /\ refused' = refused
      /\ call' = [call EXCEPT ![c] = k]
      /\ batch' = [batch EXCEPT ![Object[c]] = b]
  BY SameHeld DEF TakeInventory, Grown, dbVars
<1>8. cache' = [cache EXCEPT ![Object[c]] = m]
  BY <1>1
<1> HIDE DEF k, m, b
<1>9. Keeps(k, m, b, recorded', refused')
  BY <1>3, <1>4, <1>6 DEF Keeps, Same, Unknown, AskedFor, Answered, Owed
<1> QED
  BY <1>7, <1>8, <1>9, OthersKeep

LEMMA LookupsKeep ==
    ASSUME OwnObjects, Typed, AllKeep, NEW c \in Calls, Lookups(c)
    PROVE  AllKeep'
<1> DEFINE none == [Idle EXCEPT !.jobs = call[c].jobs]
           k == [call[c] EXCEPT !.pc = "prepare", !.lookups = LookupsOf(c)]
           ids == [p \in Parts |-> [x \in Docs |->
                     IF x \in Entries(c) THEN None
                     ELSE cache[Object[c]][p][x]]]
           m == cache[Object[c]]
           b == batch[Object[c]]
<1>1. call[c] \in Call /\ Phase(call[c]) /\ call[c].pc = "lookup"
      /\ Keeps(call[c], m, b, recorded, refused)
  BY CallHeld DEF Lookups
<1>2. Grown /\ recorded' = recorded /\ refused' = refused
      /\ batch' = [batch EXCEPT ![Object[c]] = b]
  BY SameHeld DEF Lookups, Grown, dbVars
<1>3. CASE \E x \in Docs : cache[Object[c]][ALL][x] = None
  <2>1. none.pc = "idle" /\ none.pending = {}
    BY DEF Idle
  <2>2. call' = [call EXCEPT ![c] = none]
        /\ cache' = [cache EXCEPT ![Object[c]] = m]
    BY <1>3, SameHeld DEF Lookups
  <2> HIDE DEF none, m, b
  <2>3. Keeps(none, m, b, recorded', refused')
    BY <2>1, IdleKeeps
  <2> QED
    BY <1>2, <2>2, <2>3, OthersKeep
<1>4. CASE ~ \E x \in Docs : cache[Object[c]][ALL][x] = None
  <2>1. k.pc = "prepare" /\ k.lookups = LookupsOf(c)
        /\ k.read = call[c].read /\ k.pending = {}
        /\ call[c].read \subseteq Deltas
    BY <1>1 DEF Call, Phase, Typed, Tables
  <2>2. call' = [call EXCEPT ![c] = k]
    BY <1>4 DEF Lookups
  <2>3. cache' = [cache EXCEPT ![Object[c]] = ids]
    BY <1>4 DEF Lookups
  <2>4. b = k.read
    BY <1>1, <2>1 DEF Keeps, Same
  <2>5. ASSUME NEW d \in k.read, NEW p \in Parts
        PROVE  Looking(k, d.doc, p)
    <3>1. d.doc \in Docs /\ d.doc \in Entries(c)
      BY <1>1, <2>1, DeltasAre DEF Keeps, AskedFor, Entries
    <3>2. [doc |-> d.doc, part |-> p, pc |-> "select",
           by |-> cache[Object[c]][ALL][d.doc]] \in LookupsOf(c)
      BY <3>1 DEF LookupsOf
    <3> QED
      BY <2>1, <3>2 DEF Looking
  <2> HIDE DEF k, m, b, ids
  <2>6. Keeps(k, ids, b, recorded', refused')
    BY <2>1, <2>4, <2>5 DEF Keeps, Same, Unknown, AskedFor, Answered, Owed
  <2> QED
    BY <1>2, <2>2, <2>3, <2>6, OthersKeep
<1> QED
  BY <1>3, <1>4

-----------------------------------------------------------------------------
(* A look-up goes on: its entry may be set; then it is found, or it is     *)
(* still looked for, or the deltas about it are refused.                   *)
SameBut(m, m2, l) == \A p \in Parts, x \in Docs :
                       (p # l.part \/ x # l.doc) => m2[p][x] = m[p][x]

LEMMA AnsweredStill ==
    ASSUME NEW k, NEW k2, NEW m, NEW m2, NEW b, NEW rec, NEW R, NEW R2, NEW l,
           Keeps(k, m, b, rec, R), k.pc = "prepare", k.read \subseteq Deltas,
           k.pending = {}, k2.pc = k.pc, k2.read = k.read, k2.pending = {},
           k.lookups \ {l} \subseteq k2.lookups, R \subseteq R2,
           SameBut(m, m2, l),
           \/ m2[l.part][l.doc] = Found
           \/ Looking(k2, l.doc, l.part)
           \/ \A d \in k.read : d.doc = l.doc => d \in R2
    PROVE  Keeps(k2, m2, b, rec, R2)
<1>1. ASSUME NEW d \in k.read, NEW p \in Parts
      PROVE  m2[p][d.doc] = Found \/ Looking(k2, d.doc, p) \/ d \in R2
  <2>1. CASE p = l.part /\ d.doc = l.doc
    BY <2>1
  <2>2. CASE p # l.part \/ d.doc # l.doc
    <3>1. m2[p][d.doc] = m[p][d.doc]
      BY <2>2, DeltasAre DEF SameBut
    <3>2. m[p][d.doc] = Found \/ Looking(k, d.doc, p) \/ d \in R
      BY DEF Keeps, Answered
    <3>3. Looking(k, d.doc, p) => Looking(k2, d.doc, p)
      BY <2>2 DEF Looking
    <3> QED
      BY <3>1, <3>2, <3>3
  <2> QED
    BY <2>1, <2>2
<1> QED
  BY <1>1 DEF Keeps, Same, Unknown, AskedFor, Answered, Owed

LEMMA LookupKeeps ==
    ASSUME OwnObjects, Typed, AllKeep, NEW c \in Calls,
           NEW l \in call[c].lookups, LookupStep(c, l)
    PROVE  AllKeep'
<1> DEFINE o == cache[Object[c]]
           b == batch[Object[c]]
           Less == [call[c] EXCEPT !.lookups = @ \ {l}]
           Moved(pc) == [call[c] EXCEPT !.lookups =
                           (@ \ {l}) \cup {[l EXCEPT !.pc = pc]}]
           With(value) == [o EXCEPT ![l.part][l.doc] = value]
<1>1. /\ call[c] \in Call /\ Phase(call[c])
      /\ Keeps(call[c], o, b, recorded, refused)
      /\ o \in [Parts -> [Docs -> Entry]]
  BY CallHeld
<1>2. call[c].pc = "prepare" /\ call[c].pending = {}
      /\ call[c].read \subseteq Deltas
  BY <1>1 DEF Phase, Call, Typed, Tables
<1>3. l \in Lookup /\ l.doc \in Docs /\ l.part \in Parts
  BY <1>1 DEF Call, Lookup
<1>4. Less.pc = call[c].pc /\ Less.read = call[c].read /\ Less.pending = {}
      /\ Less.lookups = call[c].lookups \ {l}
  BY <1>1, <1>2 DEF Call
<1>5. ASSUME NEW pc \in {"permit", "create"}
      PROVE  /\ Moved(pc).pc = call[c].pc /\ Moved(pc).read = call[c].read
             /\ Moved(pc).pending = {}
             /\ call[c].lookups \ {l} \subseteq Moved(pc).lookups
             /\ Looking(Moved(pc), l.doc, l.part)
  <2>1. /\ Moved(pc).pc = call[c].pc /\ Moved(pc).read = call[c].read
        /\ Moved(pc).pending = {}
        /\ Moved(pc).lookups =
             (call[c].lookups \ {l}) \cup {[l EXCEPT !.pc = pc]}
    BY <1>1, <1>2 DEF Call
  <2>2. [l EXCEPT !.pc = pc].doc = l.doc /\ [l EXCEPT !.pc = pc].part = l.part
    BY <1>3 DEF Lookup
  <2> HIDE DEF Moved
  <2> QED
    BY <2>1, <2>2 DEF Looking
<1>6. ASSUME NEW value
      PROVE  /\ With(value)[l.part][l.doc] = value
             /\ SameBut(o, With(value), l)
  BY <1>1, <1>3 DEF SameBut
<1>7. recorded' = recorded /\ batch' = [batch EXCEPT ![Object[c]] = b]
      /\ refused \subseteq refused' /\ Grown
  BY SameHeld
     DEF LookupStep, FindDoc, MissDoc, PermitDoc, ForbidDoc, CreateDoc, dbVars,
         Grown
<1>8. CASE FindDoc(c, l) \/ CreateDoc(c, l)
  <2> DEFINE m == With(Found)
  <2>1. call' = [call EXCEPT ![c] = Less]
    BY <1>8 DEF FindDoc, CreateDoc, Done
  <2>2. cache' = [cache EXCEPT ![Object[c]] = m]
    BY <1>8 DEF FindDoc, CreateDoc, CacheIt
  <2>3. /\ m[l.part][l.doc] = Found
        /\ SameBut(o, m, l)
    BY <1>6
  <2> HIDE DEF Less, m, o, b
  <2>4. Keeps(Less, m, b, recorded', refused')
    BY <1>1, <1>2, <1>4, <1>7, <2>3, AnsweredStill
  <2> QED
    BY <1>7, <2>1, <2>2, <2>4, OthersKeep
<1>9. CASE MissDoc(c, l)
  <2> DEFINE m == With(None)
           k == Moved("permit")
  <2>1. call' = [call EXCEPT ![c] = k]
    BY <1>9 DEF MissDoc
  <2>2. cache' = [cache EXCEPT ![Object[c]] = m]
    BY <1>9 DEF MissDoc, CacheIt
  <2>3. SameBut(o, m, l)
    BY <1>6
  <2>4. /\ k.pc = call[c].pc
        /\ k.read = call[c].read
        /\ k.pending = {}
        /\ call[c].lookups \ {l} \subseteq k.lookups
        /\ Looking(k, l.doc, l.part)
    BY <1>5
  <2> HIDE DEF k, m, o, b
  <2>5. Keeps(k, m, b, recorded', refused')
    BY <1>1, <1>2, <1>7, <2>3, <2>4, AnsweredStill
  <2> QED
    BY <1>7, <2>1, <2>2, <2>5, OthersKeep
<1>10. CASE PermitDoc(c, l)
  <2>1. call' = [call EXCEPT ![c] = Moved("create")]
        /\ cache' = [cache EXCEPT ![Object[c]] = o]
    BY <1>10, SameHeld DEF PermitDoc
  <2>4. /\ Moved("create").pc = call[c].pc
        /\ Moved("create").read = call[c].read
        /\ Moved("create").pending = {}
        /\ call[c].lookups \ {l} \subseteq Moved("create").lookups
        /\ Looking(Moved("create"), l.doc, l.part)
    BY <1>5
  <2>3. SameBut(o, o, l)
    BY DEF SameBut
  <2> HIDE DEF Moved, o, b
  <2>5. Keeps(Moved("create"), o, b, recorded', refused')
    BY <1>1, <1>2, <1>7, <2>3, <2>4, AnsweredStill
  <2> QED
    BY <1>7, <2>1, <2>5, OthersKeep
<1>11. CASE ForbidDoc(c, l)
  <2>1. call' = [call EXCEPT ![c] = Less]
        /\ cache' = [cache EXCEPT ![Object[c]] = o]
    BY <1>11, SameHeld DEF ForbidDoc, Done
  <2>2. \A d \in call[c].read : d.doc = l.doc => d \in refused'
    BY <1>11 DEF ForbidDoc
  <2>4. SameBut(o, o, l)
    BY DEF SameBut
  <2> HIDE DEF Less, o, b
  <2>3. Keeps(Less, o, b, recorded', refused')
    BY <1>1, <1>2, <1>4, <1>7, <2>2, <2>4, AnsweredStill
  <2> QED
    BY <1>7, <2>1, <2>3, OthersKeep
<1> QED
  BY <1>8, <1>9, <1>10, <1>11 DEF LookupStep

-----------------------------------------------------------------------------
(* All deltas read are started; what is not is refused.                    *)
LEMMA ProcessKeeps ==
    ASSUME OwnObjects, Typed, AllKeep, NEW c \in Calls, ProcessAttrs(c)
    PROVE  AllKeep'
<1> DEFINE m == cache[Object[c]]
           b == batch[Object[c]]
           J == {j \in [delta : b, part : Parts, pc : {"permit"}] :
                   Ready(c, j.delta, j.part) /\ Wanted(j.delta, j.part)}
           k == [call[c] EXCEPT !.pc = "process", !.pending = b,
                                !.jobs = @ \cup J]
<1>1. /\ call[c] \in Call /\ Phase(call[c]) /\ call[c].pc = "prepare"
      /\ call[c].lookups = {}
      /\ Keeps(call[c], m, b, recorded, refused)
  BY CallHeld DEF ProcessAttrs
<1>2. b = call[c].read
  BY <1>1 DEF Keeps, Same
<1>3. ASSUME NEW d \in b, NEW p \in Parts, Wanted(d, p)
      PROVE  (\E j \in J : j.delta = d /\ j.part = p) \/ d \in refused
  <2>1. m[p][d.doc] = Found \/ d \in refused
    BY <1>1, <1>2 DEF Keeps, Answered, Looking
  <2>2. CASE m[p][d.doc] = Found
    <3>1. [delta |-> d, part |-> p, pc |-> "permit"] \in J
      BY <1>3, <2>2 DEF Ready
    <3> HIDE DEF J
    <3> QED
      BY <3>1
  <2> QED
    BY <2>1, <2>2
<1>4. call' = [call EXCEPT ![c] = k]
  BY DEF ProcessAttrs
<1>5. Grown /\ recorded' = recorded /\ refused' = refused
      /\ cache' = [cache EXCEPT ![Object[c]] = m]
      /\ batch' = [batch EXCEPT ![Object[c]] = b]
  BY SameHeld DEF ProcessAttrs, Grown, dbVars
<1> HIDE DEF J, m, b
<1>6. k.pc = "process" /\ k.read = b /\ k.pending = b
      /\ J \subseteq k.jobs
  BY <1>1, <1>2 DEF Call
<1> HIDE DEF k
<1>7. Keeps(k, m, b, recorded', refused')
  BY <1>3, <1>5, <1>6
     DEF Keeps, Same, Unknown, AskedFor, Answered, Owed, Recording
<1> QED
  BY <1>4, <1>5, <1>7, OthersKeep

(* A call that waits for less, or whose records go on.                     *)
LEMMA OwedStill ==
    ASSUME NEW k, NEW k2, NEW m, NEW b, NEW rec, NEW rec2, NEW R,
           Keeps(k, m, b, rec, R),
           k2.pc = k.pc, k2.read = k.read, k2.lookups = k.lookups,
           k2.pending \subseteq k.pending,
           \A d \in k2.pending, p \in Parts :
              \/ Recording(k, d, p) => Recording(k2, d, p)
              \/ d \in rec2[p],
           \A p \in Parts : rec[p] \subseteq rec2[p]
    PROVE  Keeps(k2, m, b, rec2, R)
<1>1. Owed(k2, rec2, R)
  BY DEF Keeps, Owed
<1> QED
  BY <1>1 DEF Keeps, Same, Unknown, AskedFor, Answered, Looking

LEMMA AttrKeeps ==
    ASSUME OwnObjects, Typed, AllKeep, NEW c \in Calls,
           NEW j \in call[c].jobs, AttrStep(c, j)
    PROVE  AllKeep'
<1> DEFINE m == cache[Object[c]]
           b == batch[Object[c]]
           Left == [call[c] EXCEPT !.jobs = @ \ {j}]
           Moved == [call[c] EXCEPT !.jobs =
                       (@ \ {j}) \cup {[j EXCEPT !.pc = "write"]}]
           Given == [call[c] EXCEPT !.jobs = @ \ {j},
                                    !.pending = @ \ {j.delta}]
<1>1. call[c] \in Call /\ Keeps(call[c], m, b, recorded, refused)
  BY CallHeld
<1>2. j \in [delta : sent, part : Parts, pc : {"permit", "write"}]
  BY <1>1 DEF Call
<1>3. \A p \in Parts : recorded[p] \subseteq recorded'[p]
  BY <1>2
     DEF AttrStep, PermitAttr, ForbidAttr, WriteAttr, dbVars, Typed, Tables
<1>4. Grown /\ refused' = refused
      /\ cache' = [cache EXCEPT ![Object[c]] = m]
      /\ batch' = [batch EXCEPT ![Object[c]] = b]
  BY <1>3, SameHeld
     DEF AttrStep, PermitAttr, ForbidAttr, WriteAttr, dbVars, Grown
<1>5. CASE PermitAttr(c, j)
  <2>1. call' = [call EXCEPT ![c] = Moved]
    BY <1>5 DEF PermitAttr
  <2>2. /\ Moved.pc = call[c].pc /\ Moved.read = call[c].read
        /\ Moved.lookups = call[c].lookups
        /\ Moved.pending = call[c].pending
        /\ Moved.jobs = (call[c].jobs \ {j}) \cup {[j EXCEPT !.pc = "write"]}
    BY <1>1 DEF Call
  <2>3. [j EXCEPT !.pc = "write"].delta = j.delta
        /\ [j EXCEPT !.pc = "write"].part = j.part
    BY <1>2
  <2> HIDE DEF Moved, m, b
  <2>4. \A d, p : Recording(call[c], d, p) => Recording(Moved, d, p)
    BY <2>2, <2>3 DEF Recording
  <2>5. Keeps(Moved, m, b, recorded', refused')
    BY <1>1, <1>3, <1>4, <2>2, <2>4, OwedStill
  <2> QED
    BY <1>4, <2>1, <2>5, OthersKeep
<1>6. CASE ForbidAttr(c, j)
  <2>1. call' = [call EXCEPT ![c] = Given]
    BY <1>6 DEF ForbidAttr
  <2>2. /\ Given.pc = call[c].pc /\ Given.read = call[c].read
        /\ Given.lookups = call[c].lookups
        /\ Given.pending = call[c].pending \ {j.delta}
        /\ Given.jobs = call[c].jobs \ {j}
    BY <1>1 DEF Call
  <2> HIDE DEF Given, m, b
  <2>3. \A d \in Given.pending, p \in Parts :
          Recording(call[c], d, p) => Recording(Given, d, p)
    BY <2>2 DEF Recording
  <2>4. Keeps(Given, m, b, recorded', refused')
    BY <1>1, <1>3, <1>4, <2>2, <2>3, OwedStill
  <2> QED
    BY <1>4, <2>1, <2>4, OthersKeep
<1>7. CASE WriteAttr(c, j)
  <2>1. call' = [call EXCEPT ![c] = Left]
    BY <1>7 DEF WriteAttr
  <2>2. /\ Left.pc = call[c].pc /\ Left.read = call[c].read
        /\ Left.lookups = call[c].lookups
        /\ Left.pending = call[c].pending
        /\ Left.jobs = call[c].jobs \ {j}
    BY <1>1 DEF Call
  <2>3. j.delta \in recorded'[j.part]
    BY <1>2, <1>7 DEF WriteAttr, Typed, Tables
  <2> HIDE DEF Left, m, b
  <2>4. \A d \in Left.pending, p \in Parts :
          \/ Recording(call[c], d, p) => Recording(Left, d, p)
          \/ d \in recorded'[p]
    BY <2>2, <2>3 DEF Recording
  <2>5. Keeps(Left, m, b, recorded', refused')
    BY <1>1, <1>3, <1>4, <2>2, <2>4, OwedStill
  <2> QED
    BY <1>4, <2>1, <2>5, OthersKeep
<1> QED
  BY <1>5, <1>6, <1>7 DEF AttrStep

LEMMA DequeueKeeps ==
    ASSUME OwnObjects, Typed, AllKeep, NEW c \in Calls,
           NEW d \in call[c].pending, Dequeue(c, d)
    PROVE  AllKeep'
<1> DEFINE m == cache[Object[c]]
           b == batch[Object[c]]
           k == [call[c] EXCEPT !.pending = @ \ {d}]
<1>1. call[c] \in Call /\ Keeps(call[c], m, b, recorded, refused)
  BY CallHeld
<1>2. /\ k.pc = call[c].pc /\ k.read = call[c].read
      /\ k.lookups = call[c].lookups /\ k.jobs = call[c].jobs
      /\ k.pending \subseteq call[c].pending
  BY <1>1 DEF Call
<1>3. Grown /\ recorded' = recorded /\ refused' = refused
      /\ call' = [call EXCEPT ![c] = k]
      /\ cache' = [cache EXCEPT ![Object[c]] = m]
      /\ batch' = [batch EXCEPT ![Object[c]] = b]
  BY SameHeld DEF Dequeue, Grown
<1> HIDE DEF k, m, b
<1>4. Keeps(k, m, b, recorded', refused')
  BY <1>1, <1>2, <1>3, OwedStill DEF Recording
<1> QED
  BY <1>3, <1>4, OthersKeep

LEMMA EndKeeps ==
    ASSUME OwnObjects, Typed, AllKeep, NEW c \in Calls, End(c)
    PROVE  AllKeep'
<1> DEFINE m == cache[Object[c]]
           b == batch[Object[c]]
           k == [call[c] EXCEPT !.pc = "idle", !.read = {}]
<1>1. k.pc = "idle" /\ k.pending = {}
  BY CallHeld DEF Call, End
<1>2. Grown /\ call' = [call EXCEPT ![c] = k]
      /\ cache' = [cache EXCEPT ![Object[c]] = m]
      /\ batch' = [batch EXCEPT ![Object[c]] = b]
  BY SameHeld DEF End, dbVars, Grown
<1> HIDE DEF k, m, b
<1>3. Keeps(k, m, b, recorded', refused')
  BY <1>1, IdleKeeps
<1> QED
  BY <1>2, <1>3, OthersKeep

(* A Node process that dies takes with it what its calls know; they owe    *)
(* nothing, as their deltas are still in the queue.                        *)
LEMMA CrashKeeps ==
    ASSUME Typed, AllKeep, NEW o \in Objects, Crash(o)
    PROVE  AllKeep'
<1>1. recorded' = recorded /\ refused' = refused
  BY DEF Crash, dbVars
<1>2. ASSUME NEW c \in Calls
      PROVE  Keeps(call'[c], cache'[Object[c]], batch'[Object[c]],
                   recorded', refused')
  <2>0. Object[c] \in Objects
    BY ObjectsOfCalls
  <2>1. CASE Object[c] = o
    <3>1. call'[c] = Idle
      BY <2>1 DEF Crash
    <3>2. call'[c].pc = "idle" /\ call'[c].pending = {}
      BY <3>1 DEF Idle
    <3> QED
      BY <3>2, IdleKeeps
  <2>2. CASE Object[c] # o
    <3>1. /\ call'[c] = call[c] /\ cache'[Object[c]] = cache[Object[c]]
          /\ batch'[Object[c]] = batch[Object[c]]
      BY <2>0, <2>2 DEF Crash, Typed, Memory
    <3> QED
      BY <1>1, <3>1 DEF AllKeep
  <2> QED
    BY <2>1, <2>2
<1> QED
  BY <1>2 DEF AllKeep

LEMMA StepKeeps ==
    ASSUME OwnObjects, Typed, AllKeep, [Next]_vars PROVE AllKeep'
<1>1. CASE \E d \in Deltas : Send(d)
  BY <1>1 DEF Send, AllKeep
<1>2. CASE \E u \in Changeable : Turn(u)
  BY <1>2 DEF Turn, dbVars, AllKeep
<1>3. ASSUME NEW c \in Calls, CallStep(c) PROVE AllKeep'
  BY <1>3, BeginKeeps, ReadKeeps, InventoryKeeps, LookupsKeep, LookupKeeps,
     ProcessKeeps, AttrKeeps, DequeueKeeps, EndKeeps DEF CallStep
<1>4. CASE \E o \in Objects : Crash(o)
  BY <1>4, CrashKeeps
<1>5. CASE UNCHANGED vars
  BY <1>5 DEF vars, dbVars, AllKeep
<1> QED
  BY <1>1, <1>2, <1>3, <1>4, <1>5 DEF Next

-----------------------------------------------------------------------------
(* A delta leaves the queue when nothing is owed for it any more.          *)
LEMMA StepDropsNothing ==
    ASSUME Typed, AllKeep, NothingDropped, [Next]_vars PROVE NothingDropped'
<1>1. ASSUME NEW c \in Calls, NEW d \in call[c].pending, Dequeue(c, d)
      PROVE  NothingDropped'
  <2>1. Everywhere(d) \/ d \in refused
    BY <1>1 DEF AllKeep, Keeps, Owed, Recording, Dequeue, Settled, Everywhere
  <2> QED
    BY <1>1, <2>1 DEF Dequeue, NothingDropped, Everywhere
<1>2. /\ \A p \in Parts : recorded[p] \subseteq recorded'[p]
      /\ refused \subseteq refused'
      /\ \/ sent' \ queue' \subseteq sent \ queue
         \/ \E c \in Calls : \E d \in call[c].pending : Dequeue(c, d)
  <2> USE DEF dbVars
  <2>1. CASE \E d \in Deltas : Send(d)
    BY <2>1 DEF Send
  <2>2. CASE \E u \in Changeable : Turn(u)
    BY <2>2 DEF Turn
  <2>3. ASSUME NEW c \in Calls, CallStep(c)
        PROVE  <1>2!:
    <3>1. CASE Begin(c) \/ Read(c) \/ TakeInventory(c) \/ Lookups(c)
               \/ ProcessAttrs(c) \/ End(c)
      BY <3>1 DEF Begin, Read, TakeInventory, Lookups, ProcessAttrs, End
    <3>2. ASSUME NEW l \in call[c].lookups, LookupStep(c, l) PROVE <1>2!:
      BY <3>2 DEF LookupStep, FindDoc, MissDoc, PermitDoc, ForbidDoc, CreateDoc
    <3>3. ASSUME NEW j \in call[c].jobs, AttrStep(c, j) PROVE <1>2!:
      <4>1. j.part \in Parts
        BY DEF Typed, Memory, Call
      <4> QED
        BY <3>3, <4>1
           DEF AttrStep, PermitAttr, ForbidAttr, WriteAttr, Typed, Tables
    <3>4. ASSUME NEW d \in call[c].pending, Dequeue(c, d) PROVE <1>2!:
      BY <3>4 DEF Dequeue
    <3> QED
      BY <2>3, <3>1, <3>2, <3>3, <3>4 DEF CallStep
  <2>4. CASE \E o \in Objects : Crash(o)
    BY <2>4 DEF Crash
  <2>5. CASE UNCHANGED vars
    BY <2>5 DEF vars
  <2> QED
    BY <2>1, <2>2, <2>3, <2>4, <2>5 DEF Next
<1>3. CASE sent' \ queue' \subseteq sent \ queue
  BY <1>2, <1>3 DEF NothingDropped, Everywhere
<1> QED
  BY <1>1, <1>2, <1>3

(* If every call of process() has a Process object of its own, no delta    *)
(* leaves the queue before it is recorded in every partition that wants    *)
(* it, or was read by a call that could not create a row of its document   *)
(* (process.js:97-140, 689-698).                                           *)
THEOREM NothingLost == OwnObjects /\ Spec => []NothingDropped
<1>1. ASSUME OwnObjects PROVE Spec => []NothingDropped
  <2>1. Init => NothingDropped
    BY DEF Init, NothingDropped
  <2>2. Spec => []Typed
    BY InitTyped, StepTyped, PTL DEF Spec
  <2>3. Typed /\ AllKeep /\ [Next]_vars => AllKeep'
    BY <1>1, StepKeeps
  <2> QED
    BY <2>1, <2>2, <2>3, InitKeeps, StepDropsNothing, PTL DEF Spec
<1> QED
  BY <1>1

=============================================================================
