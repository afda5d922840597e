# DeltaDB in TLA+

Specifications of deltadb-server: a database that keeps the changes ("deltas")
clients make to documents, decides which of them wins, and hands them on to
other clients and servers.  Everything here is about `src/scripts`; file names
without a directory are those of `src/scripts/partitioner/sql` and its
subdirectories, and `client/...` is `src/scripts/client`.

## 1. The system

A client shows a document to its user, keeps a list of local changes, and now
and then *syncs*: it sends the changes, notes the time, and asks for what was
recorded since the time it noted before.  The server puts changes into a
*queue*.  `process()` reads the queue, finds or creates users, collections and
documents, checks permissions, and records every delta in three *partitions*:
LATEST (one row per attribute, the winner), RECENT (the deltas since the last
archive) and ALL (every delta).  There are no transactions.  Each `.then()` is
a place where another promise chain, another call or another Node process can
run, so the unit of atomicity is one SQL statement.

| component | state | operations | what is hard | what must hold |
|---|---|---|---|---|
| Attribute records (`attr/attr-rec.js`, `attr-recs.js`) | rows of LATEST, RECENT, ALL | `replace` = insert, else `UPDATE .. WHERE`; `createIfMissing` = select, insert | interleaved statements, ties in time and sequence, NULL | the row of LATEST depends on what was written, not on the order; duplicates are bounded |
| Documents (`doc/docs.js`, `doc-recs.js`, `attr/attr.js`, `attrs.js`) | `updated_at`, `destroyed_at`, `last_destroyed_at` of a document | update (two statements), destroy, restore | edits, deletions and restores of one document at once; a restore is itself a set of chains | the document is alive or deleted as the latest change says; a restore does not win over an edit; restores end |
| Process (`process.js`) | `_deltas`, caches of ids, the queue | `process`, preparation, recording, dequeuing | overlapping calls, shared caches, permissions that change, crashes | no delta leaves the queue unrecorded; none is held up by others |
| Queue (`queue/`) | rows of the queue | insert, destroy | sent again, removed once per copy | as above |
| Archive (`archive.js`, `globals.js`) | `archived` | remove attributes, remove documents, store the time | processing, feeds and crashes between the three | what was not archived is in the feed |
| Changes feed (`changes.js`, `changes-query.js`) | none | choose the partition, select since a time, page | `recorded_at` is taken before the commit | nothing that was recorded is skipped |
| Client document (`client/doc.js`, `client/collection.js`) | values shown, changes not confirmed, `updatedAt`, `destroyedAt`, in memory and in a store | set, unset, destroy, merge of a change, load from the store | the feed has no order, repeats, and is late; several edits in a millisecond; the store lags behind the memory | nothing older replaces something newer; no edit is forgotten |
| Client sync (`client/db.js`) | `since`, changes under way | `sync`, open | cut short anywhere, closed and opened, several clients | no edit is lost; all edits arrive |
| Policies (`policy.js`, `col/col-roles.js`) | role actions with times | set, create default, `permitted` | read, compare and replace in several statements, while checks run | the latest policy decides, for changes and for the feed; a collection is not left open |
| Users, roles, collections (`user/`, `roles.js`, `col/cols.js`) | their rows and documents | get-or-create chains that call each other | crash or race inside a chain, errors taken for races | who exists is complete; nothing is lost but what is forbidden; the recursion ends |
| Databases (`index.js`, `src/scripts/system`, `src/scripts/manager`) | the set of databases | create, destroy, on a `$db` attribute | side effect of one of two ways of writing | a database exists as LATEST says |
| SQL and NoSQL layers (`src/scripts/orm`) | tables, stores | statements | unique indexes, NULL | - |
| Sessions (`sessions.js`) | none: the file is commented out | | | |
| Utilities, bundle (`src/scripts/utils`, `src/dist`) | none | | | |

`PROJECT.json` lists the same components with what is modelled of each, and
the hazards with their lines.

## 2. Modules

| module | models | state and actions in the code |
|---|---|---|
| `Tsv` | the order of deltas: time, then sequence, then value, where a deletion is the text `null` | `Replaces` is the WHERE clause of `AttrRec.update`; `TsvLeq` is the order the comment above it promises |
| `LwwStore` | abstract: a store that shows, per name, the greatest record it was given, or a deletion that ties with it | `Write` |
| `AttrStore` | the three tables under any number of writers | one action per statement: `Insert`, `InsertRefused`, `Update`; `CheckFound`, `CheckMissing`, `Create`; `Crash` |
| `AttrStoreProofs` | theorems about `AttrStore` | |
| `DocLifecycle` | one document of LATEST | `GetOrCreateDoc`, `CreateAttr`, `UpdateDoc1` and `2` (the two statements of `DocRecs.update`), `RestoreIfDestroyedBefore`, `Destroy`, `RestoreIfChangeSince`, `Restore`, and the chain each restored attribute runs |
| `ProcessQueue` | calls of `process()` | `Begin` (caches cleared) to `End`, with the lookups of documents (`FindDoc`, `MissDoc`, `PermitDoc`, `CreateDoc`) and the records (`PermitAttr`, `WriteAttr`) as sets of jobs under way; `Turn` changes a permission; `Crash` |
| `ArchiveFeed` | RECENT and ALL of one document, `archive()` and the history feed | `ArchiveAttrs`, `ArchiveDocs`, `SetArchived`, `ArchiveDies`; `GetDoc`, `RecordAll`, `RecordRecent`, `UpdateDoc`, `DestroyDoc`; `Feed(t)` is what a server gets that has asked last at `t` |
| `ClientState` | what `client/doc.js` does to a document, as functions of its state | `SetLocal`, `DestroyLocal`, `Received`; `Saved`, what the store holds then |
| `ClientDoc` | one client before a feed in any order | `Set`, `Destroy`, `Receive`, `Restart` (memory is loaded from the store) |
| `Sync` | clients, queue, workers and LATEST | `SendChanges`, `NoteTime`, `Pull`, `Apply`, `Finish`, `Abort`, `Restart`; `Stamp`, `Write`, `Dequeue`, `Crash` |
| `PolicyRules` | what a policy lets users do, as the policy says it (`Allows`, `MayRead`) and as the statements find it in `col_roles` (`ModPermitted`, `Shown`) | `modPermitted` and `hasColRole` of `policy.js`; the four joins and the WHERE clause of `changes-query.js` |
| `Policies` | policies put in force by several Node processes, and a permission check meanwhile | `SendPolicy`; `Start`, `GetColRoles`, `CreateColRole`, `CreateRefused`, `UpdateColRole`, `DestroyColRole`, `SetPolicyDone`, one statement each; `CheckPolicy`, `CheckAttrPolicy`, `CheckRole`; `Crash` |
| `Accounts` | how users, roles, collections, default policies and documents come into being with the first change that mentions them, and memberships | a worker is a stack of statements; `FindUser` .. `UserMade`, `Col` .. `ColMade`, `CreatePolicyIfMissing` .. `ReplaceRows`, `GetRole` .. `RemoveMember`, `HasNoId` where an id is missing, `UserRole` .. `FindRoleDoc`, `GetDoc` .. `AttrDone`. A process has two workers (`Workers`, `Twin`): `Fork` splits a prepared role change into the half of the user and the half of the role, which are recorded at the same time and have one record in the queue (`process.js:566-580, 689-709`). An error goes to the handler of `getOrCreateColId`, which goes on (`Raise`, `Unwind`), or ends the worker, and leaves the record in the queue and the other half as it is |
| `ClientDocProofs`, `SyncProofs`, `PoliciesProofs`, `ArchiveFeedProofs`, `DocLifecycleProofs`, `ProcessQueueProofs`, `AccountsProofs` | theorems about the modules they are named after (`PoliciesProofs` about `PolicyRules` as well) | |

`MC*` are the instances TLC checks.  `ClientDoc` and `Sync` are both made from
`ClientState`, `Policies` and `Accounts` from `PolicyRules`; `AttrStore`,
`DocLifecycle` and `Sync` share `Tsv`.  A
specification abstracts what another one details: `AttrStore` takes apart the
insert-or-update that is one step of `DocLifecycle` and `Sync`, and the check
and insert that are one step of `ArchiveFeed`; `Sync` takes apart the time stamp and
the statement; `Policies` takes apart the replacement of a policy that is one step
(`SetPolicy`) of `Accounts`.  Values are numbers in the order of their JSON texts;
`NullText` is where the text `null` sorts among them.  Times are
milliseconds.  An operator that a comment calls a mutant is a deliberately
wrong version of the definition that follows it; no specification uses it, and
`PROJECT.json` says which property it must break.

## 3. Runs

All of them finish in about two and a half minutes at most on two cores.

| run | instance | what it shows |
|---|---|---|
| `AttrStore` | 2 writers (symmetric), one name, LATEST and one log, 5 changes: ties in time and sequence of a number, an object and a deletion, a greater sequence, and one without a quorum | No record written beats the row LATEST shows, in every interleaving (`LatestIsWinner`), LATEST implements `LwwStore` and never regresses; a log has at most one copy per writer. RECENT and ALL behave alike, so one log is enough; two writers are enough because a row never disappears: what can happen to a writer between its statements is that others have written any of the changes |
| `DocLifecycle` | 2 deletions, 4 edits of two attributes, two of the six in process at any time | whenever nothing is in process the document is deleted or alive as the latest processed change says (`DeletionsTakePriority`, `AutoRestored`), restored values have sequence -1 and lose to edits of the same time, every delta ends. Two chains at once are enough for every pair of statements to meet; the third delta comes before or after, and finds what they left |
| `ClientDoc` | two attributes, three edits by the user within 3 ms, a feed of six changes (two deletions, a value between them and in the millisecond of one, a value and a removal after them) that comes in any order, repeatedly, one restart | `NeverOlder`, `OnlyConfirmedForgotten`, `ShownIsGreatestSent`; for a user who did nothing, `VisibleAsTimesTell`. `Receive` is one step although `_record` follows an awaited save (`client/doc.js:319`): another change in between may find the tombstone not yet renewed, which matters only for a removal after the deletion. Values include one JavaScript treats as false |
| `SyncSafe` | 2 clients (symmetric), one attribute, two edits, one worker, one failure (a sync, a delta, or a client closed and opened) | no edit is lost; no row that was committed in time is skipped |
| `SyncLive` | one client, two edits, one failure, fairness | every edit arrives, the winning one is confirmed |
| `SyncSkipped` (violation) | 2 clients, one edit, no failure | a row committed after its time stamp is skipped by a client that asked in between |
| `ProcessQueue` | 2 calls in 2 Node processes, 2 deltas of a new document by two users, one without a quorum, one permission granted, one crash, fairness | nothing leaves the queue before it is recorded everywhere or refused; in the end only forbidden deltas stay |
| `ProcessQueueShared` (violation) | 2 calls on one `Process` object | a delta is destroyed that was recorded nowhere |
| `ArchiveFeed` | a deletion and a later edit, two archives at any times, crashes of archives, two deltas sent again or one twice, 3 ms | what moved the document's `recorded_at` is in the feed of everybody who asked before; a delta that comes back is recorded again at most once for each removal, of which an archive does two |
| `Policies` | four policies of a database and a collection, for roles, owners, everybody, with one rule for an attribute; one replaces all rows of the one before, another keeps a row; a checked user is allowed by both by different rows; two Node processes, one of which dies; five users (one disabled, one super, one not logged in); checks of two of them; fairness | when no policy is under way, everybody may do and is shown what the latest policies say (`LatestDecides`, `FeedAsPoliciesSay`); a check during a replacement answers as the old or the new one; the collection is never without a policy; each is in force at last. A policy is sent when the one before is in force (`Blocking`) |
| `PoliciesRace` (violation) | a policy for two roles, narrowed to either of them at the same time | no rows are left, and the collection is open to everybody |
| `Accounts` | two Node processes and fifteen scenarios (`MCScenarios`): new users at once in one collection, one user in two, somebody who is not logged in, servers, users who may not create others, memberships given and taken, permissions that change between the preparation and the recording of a role change, or of one half of it, users and roles that there are not, profiles that change, processes that die | every user has the own implicit role and every collection of an application a policy (`UsersComplete`, `ColsProtected`); the last change recorded of a profile or a membership is in effect, unless it was lost with its process between its halves or refused after it was recorded (`LastChangeWins`); a change of users who have their roles, to a database with a policy, is dropped only if something it needs is forbidden (`LostOnlyIfForbidden`); `RecursionEnds` |

`ArchiveFeed` assumes of the caller of `archive()` that one runs at a time and
that the times go forward, as the steps of NOTES.md:21-23 have it.

`CHECK_DEADLOCK FALSE` is in those configurations where everything ends: all
deltas are processed, or the bounds on time, archives and resends are used up.

**Fairness.**  `DocLifecycle`: each chain of promises goes on (weak
fairness of its steps): the database answers.  `ProcessQueue`: `process()` is
called again and again on each object (`src/test/e2e/index.js:37-42` does after each sync; so must
any server) and a call goes on; it is not assumed that permissions change or
that nothing crashes.  `Sync`: clients sync and workers go on (weak), and a
queued delta is not passed over for ever (strong, as the worker is busy with
others in between): `process()` takes the whole queue as a batch.  `Policies`: each
Node process goes on and takes what is in the queue (weak, of `SetPolicy(w)`), and
all policies are sent (weak), which only says that the four of the instance come.  The clock
of `Sync` stops at its bound.  For `EditsReachServer` that makes no difference;
`WinnersConfirmed` needs it: were every row of an edit stamped before, and
committed after, the time a sync notes and the query that follows, no sync
would bring it back.  The property says that the retries repair what such a
race has done once the races end.

**Bounds.**  Every bound is a constant: `MaxTime`, `Edits`, `Failures`, `Restarts`,
`Turns`, `Crashes`, `Chains`, `Archives`, `Resends`; `Limit` is the page size.
`Policies` is bounded by the number of policies.  Four are enough to have a
database and a collection with a policy, a rule for an attribute that comes and goes, rows
that are kept, created and destroyed by one replacement, and a feed that falls
back to the database; two processes, to have one repeat what another has
half done.  In `Accounts` a scenario bounds itself: what is sent, how often
each change is taken and how many processes die (`tries`, `crashes`).  Two processes
are enough because every race here is one of two look-ups before an insertion;
each scenario has one such race or one death, at any moment, and tries enough to
recover from it.  `InOrder` says that changes of one
user, or of one membership, are handled in order and one at a time; other changes
are not restricted.  `MostStatements` is the deepest stack of calls
that the recursion of user, role, collection and policy may need.

## 4. Proofs

`AttrStoreProofs` holds for any number of writers, names, values and changes:

- `TypeCorrect`: `TypeOK` is an invariant; it is inductive as it stands.
- `NeverRegresses`: no step replaces a row of LATEST by an older one.  Needs
  only the types: each of the two steps that write a row has it in its guard
  or in its WHERE clause.
- `CopiesAreBounded`: a delta is recorded in a log at most once per writer.
  The bound alone is not inductive: a writer between its check and its insert
  is about to add a copy.  The invariant is `CopiesAndCreators`, copies and
  writers about to create one are together at most the number of writers.  It
  is preserved because a check sends a writer to create only when there is
  no copy at all, and then the writers about to create are a subset of the
  writers; the proof counts them with the theorems about finite sets.
- `WinnerIsShown`: no record that was written beats the row.  The row is the TSV
  greatest of them, except that a deletion may stand against values of its
  time and sequence that sort after `null` (true, objects), because a stored NULL
  matches no comparison.  Nothing is assumed of the collation.  The invariant
  (`LatestHolds`) needs that a record the WHERE clause stops may be shown over by
  the row (`ReplacesIsTsv`), and that a row which replaces another inherits what
  the other was shown over (`HoldsTransfers`).
- `ImplementsLwwStore`: every step is a `Write` of the abstract store or a
  stutter.  The abstract store shows one of the winners and keeps it as long as it
  is one (`WinnerStays`), which is what is left of "deterministic" in that tie.

`ClientDocProofs` holds for any feed, names, values and bounds.  The store lags
behind the memory, so that what is said of the memory must be said of the store,
and that the memory is never older than the store, for a restart to preserve it.
The invariant `IInv` is `TypeOK`, `Known` of both (a change that is still to be sent
is not later than what is shown, and what is shown has the greatest sequence number of its
time), and `StoreLags` (both show the same, the store has at least the changes
to be sent).

- `TypeCorrect`, `ShownIsGreatest`: `TypeOK` and `ShownIsGreatestSent`, from `IInv`.
- `NothingOlderIsShown`: `NeverOlder`.  For the user's edits it needs that the
  clock is not behind what is shown, for a restart that the store shows the same.
- `ForgottenIfConfirmed`: `OnlyConfirmedForgotten`.  `StoreLags` is what makes a
  restart keep every change.
- `ShownAsTimesTell`: `VisibleAsTimesTell`, of any feed and in every state.  For a
  user who did nothing the invariant says what a document tells of the changes that
  have come (`Tells`): what is shown has come and nothing newer has, `updatedAt` is the
  time of a value and not before any value that is shown, `destroyedAt` is the time of a
  deletion and not before `updatedAt`.  It is needed of the memory and of
  the store, which may tell different deletions (section 5).  What the property leaves
  open is what the code leaves to the order of arrival.

The lemmas about `SetLocal`, `Received` and `Saved` are in both `ClientDocProofs` and
`SyncProofs`, so that each can be read by itself.

`SyncProofs` holds for any number of clients and workers, any names, values,
page size and bounds:

- `NoEditIsLost`: `NoEditLost`.  A client forgets a change when the very same
  comes back, so the invariant says of every row that is pulled and not yet applied
  that LATEST covers it (`PulledIsCovered`), which stays true because a row of
  LATEST is only replaced by one that comes after it; and of the stores that
  they have every change the memory has (`StoreLags`), so that a restart loses none.

- `TypeCorrect`: `TypeOK`.  The invariant (`Within`) says besides that no time is ahead of
  the clock, and no sequence number reaches the number of edits.
- `OnTimeIsSeen`: `OnTimeNotSkipped`, if a call of `changes()` returns all rows
  (`WholePages`; with more rows the rest is never asked for, section 5).  A row that was committed
  in the millisecond of its stamp, and that the client will not ask for again, is
  one that the client shows or has passed (`BeforeLast`), or has been pulled by the
  sync that will move its time (`BeforeThis`).  A client closed and opened shows what it
  has shown (`SameShown`), so that neither is undone.

`PoliciesProofs` holds for any policies, users, owners, actions, attributes, and number of
processes and crashes.  First what rows mean:

- `ModAsPolicySays`: if the rows of `col_roles` are those of a policy, the statements of
  `modPermitted` answer as the policy says.
- `FeedAsPolicySays`: likewise the four joins of the feed and the order of the
  comment at `changes-query.js:130-133`.  It rests on each join finding
  something only where the ones before have found nothing (`ShownByFirst`).  It
  assumes of a user what the tables have: nobody has no roles, and the
  names of the reserved roles differ.

Then which rows are there.  It assumes that users are what `IsSubject` says and that no policy
has a rule for the name NULL (`PoliciesAssumption`, which TLC evaluates on the instances):

- `RowsAreUnique`: `TypeOK`, with one row for a collection, role, action and name.  It
  needs no order of the policies.
- `LatestPolicyDecides`, `FeedFollowsPolicies`: `LatestDecides` and
  `FeedAsPoliciesSay`, if `Blocking`: a policy is sent when the one before is in force.
  The rows of a policy under way are neither the old nor the new ones, so that
  the invariant has two parts.  `Carries`: the rows of a collection are those of
  its last policy, unless that policy is still in the queue.  `Replacing`: what a
  process that has compared the rows knows stays true whatever the others do; what is
  left over is a subset of what it will destroy, and every role action of the
  policy is there or among those it will create.  A process that dies leaves the record
  in the queue, and `Carries` promises nothing yet.  When one is done,
  `Replacing` with nothing left is `Carries`, and the two theorems above say what the
  rows mean.
- `AlwaysProtected`: `NeverUnprotected`, if besides every policy gives somebody something.
  A destruction comes after the creations of the same process, and spares
  what the policy says (`DestroyedUnsaid`).  `PoliciesRace` shows that it is false
  without `Blocking`; an empty policy takes every row away.
- `ChecksAgree`: `CheckedByOldOrNew`, also if `Blocking`.  At every moment the rows say nothing
  that neither the old nor the new policy says, and all that one of the two says
  (`Mixed`); what a check has read so far is justified by a policy that was in force
  since it began (`Ongoing`).

`ArchiveFeedProofs` holds for any deltas, and number of archives, deaths and resends:

- `TypeCorrect`: `TypeOK`, with a document's row there whenever a statement relies on it.
- `RecordingEnds`: `LoopBroken`.  A delta is recorded again when its row or the
  document's is gone; the ids of the document count the one (`IdsBound`), the
  recordings per id and the rows missing in RECENT the other (`TimesBound`).
- `HistoryComplete`: `FeedComplete`.  A row is not older than the processing that
  recorded it (`RowsLate`), what is not in ALL yet is still to be recorded there
  (`InAll`), and for what began after the latest removal the document's row (`DocKept`)
  and the attribute's (`RowKept`) are there.  An archive removes only what is older than its
  time, and what is older is in ALL; while the stored time lags behind the removal, there
  is the gap that `Hole` names and the property leaves out.

`DocLifecycleProofs` holds for any deltas and attributes, any number of chains at once and any
start in which the times of the document and its attributes agree (`AtRest`, part of
`DocLifecycleAssumption`).  `RestsAgain` proves that this is no choice of the instance:
whenever nothing is in process the document is in such a state again, also one that did not
exist at first.

- `TypeCorrect`, `DestroyedAgreesWithUpdated`, `LastDestroyedGrows`: `TypeOK`,
  `DestroyedAfterUpdate`, `LastDestroyedNeverDecreases`.  The times of a row
  agree in every interleaving (`TimesOK`) because the second statement of an update runs
  only when the first has left the row at least as late.
- `EditsBeforeRestores`: `RestoringChangesWin`, from `Recorded` (an edit that was recorded is
  in its row, or something not older is) and `Origin` (a row is the one of the start, an edit, or
  marked as restored).
- `DeletionsWin`: `DeletionsTakePriority`, for a document that exists and has been updated
  (`Created`).  One that begins with a deletion has no `updated_at`, and the property is false
  for it (section 5).  The invariant `Follows`: the row answers every edit that was
  tried and every deletion that was tried (`RowKnows`), each chain takes the way of its kind (`Ways`),
  and every time in the rows comes from an edit (`Sourced`).
- `AllRestored`: `AutoRestored`, under `Created` and `StartsRestored` (what the document
  starts with was restored after its last deletion, if it is not deleted).
  The hard case is a restore that reads the attributes while another is deleted and restored
  again.  `AllSafe`: for every deletion that was tried, every attribute the document had is later,
  or will be by a restore under way, or the document is destroyed, or some chain is on
  its way that will restore it: an edit that will find the deletion, a restore about to read,
  a deletion that will find a later change.

`ProcessQueueProofs` holds for any number of calls, deltas, documents, permissions that turn
and crashes:

- `TypeCorrect`: `TypeOK`.
- `NothingLost`: `NothingDropped`, if each call has an object of its own (`OwnObjects`); the run
  `ProcessQueueShared` shows that it is false otherwise.  The invariant says of each call what it
  knows and still owes (`Keeps`): its object has the deltas it has read (`Same`), the
  caches are clear before it lists what to look up (`Unknown`) and then ask for each
  delta's document (`AskedFor`), each document is found, or looked up still, or its
  deltas are refused, in every partition (`Answered`), and each delta that the call waits
  for is recorded, or will be, or was refused (`Owed`).

`AccountsProofs` holds for any scenarios, users, roles, collections, and number of
processes, deaths and retries.  `AccountsAssumption` says what a change is: nobody is given a
reserved role, a policy names one role of the application, and no document has
the id of an implicit role's, which is drawn at random (`users.js:172`).  What a process
still has to do is on its stack, so that the invariant is about stacks:

- `TypeCorrect`: `TypeOK`, which says that rows refer to rows that are there, and what is
  unique is unique.  The invariant `IInv` says of every stack (`Good`) that what its
  statements refer to is there (`Framed`), that each statement that finds something is followed by the one
  that needs it (`Follows`), and that a process which is about to use a result
  has it (`Ready`), also when an error has unwound the stack to a handler; and of all stacks that the
  document of an implicit role is made by one process at most, and not before the
  user (`NotMade`, `MadeOnce`).  The halves of a split change have what the preparation
  has found (`Forked`).  One lemma (`StepKept`) says so of every statement; the
  tables only grow (`Grows`), but for memberships and rows of policies, so that the others' stacks
  stay good.
- `ImplicitRolesGiven`: `UsersComplete`, if nobody is removed from the own implicit role
  (`OwnRolesKept`; the property is false otherwise).  `Complete`: a user has the role, or a stack
  has the statement that gives it, or a change of the user was refused, or a process died.
  An error never unwinds that statement unless it refuses the change: a collection may
  not be created, or an id is missing (`HasNoId`); the statements that `getOrCreateColId` catches
  the errors of are others.
- `CollectionsProtected`: `ColsProtected`, if no change sets an empty policy (`RulesGiven`; likewise).
  `Protected`: a collection of an application has rows, or a stack has the statement that looks
  for them or the one that puts them there, or the change it was made for was refused, or a
  process died.  `Seen`: rows that a process has read are there still, or others of the same collection.
- `DepthBounded`: `RecursionEnds`.  A role needs the collection of its users, which needs a
  default policy, which needs a role.  `Room` is how high a stack becomes over a
  statement: a role is inserted before the collection of its users is looked for, so that a
  statement needs room for the default role of the user once, and once for a role that is not that one;
  19 statements in all, which the scenarios reach.  What other processes insert meanwhile only
  makes it less (`RoomShrinks`).

TLC alone: `LastChangeWins`, which is false of other scenarios also when changes come in order
(section 5: a profile older than the change that made the user, two rows for one role);
`LostOnlyIfForbidden`, which compares what was dropped with the permissions at the end, and so is
about scenarios that do not grant what they have refused, and is true only of changes taken when
their users and the database were ready; all liveness (`EveryDeltaEnds`,
`EditsReachServer`, `WinnersConfirmed`, `OnlyForbiddenStay`, `AllInForce`), which is out of reach of
the provers; and the runs that must be violated.  The clocks, edits, failures and other
counters are bounded in the proofs by constants, of which nothing but that they are
numbers is assumed.

## 5. Observations

Three disagreements between code and documentation are shown by runs that TLC must
find violated, and are the findings of `PROJECT.json`.  Others came up while
modelling.  The models have them; the change of an instance that shows each is given
where there is one.

Attribute records and documents:

- `attr-rec.js:126` says "the data is completely deterministic and eventually
  consistent".  A deletion is stored as NULL, with which the WHERE clause
  (`attr-rec.js:141`) is never true, while an incoming deletion is compared
  as the text `null`.  With a value whose text sorts after `null` (true, an object)
  the row depends on the order of arrival: `SameRecordsSameRow` fails in `MCAttrStore` with
  `Changes <- ObjectChanges`, two names and a value above `NullText`.
- NOTES.md:77 says "after doc updated, check when doc was previously deleted and if
  the update was after the deletion date then auto restore".  When every attribute
  has become later than the restoring change, `AttrRecs.getDoc` answers null
  (`attr-recs.js:96-105`), `attrs.js:26` fails on it with a TypeError, `process()`
  fails and the delta stays: `NoChainFails` fails in `MCDocLifecycle` with
  `Deltas <- OneAttr`, one name and three chains.
- A document whose first delta is a deletion has a NULL `updated_at`, which
  `setDestroyedAt` (`doc-recs.js:197`) never matches: a later deletion is lost
  if an edit between the two comes last.  `DocLifecycle` starts with a document
  that has been updated.
- A restore records old values at the time of the change that caused it
  (`attrs.js:33`): an edit of another attribute between the old value's time and
  that time, processed later, loses to the old value.  A change of an attribute the
  document did not have, older than the last deletion and processed after the restore, comes in
  and keeps its old time (the reason for `StartsRestored`).  To RECENT and ALL it writes
  with the document id of LATEST (`attr.js:142-149`).
- Permission is looked up per partition (`attr.js:69`): revoked in between, a
  delta shows in LATEST and is not in ALL.

Archive:

- `doc-recs.js:139-141` sets `recorded_at` "so that old docs that haven't been updated
  in a while can be safely archived".  Only an update that is later than those before
  moves it; an edit out of order, a simultaneous one and a deletion do not.  An archive
  may then remove the document and keep the row of the delta, which no feed has any
  more: `SafelyArchived` fails in `MCArchiveFeed` as it is configured.
- "To prevent an infinite recording loop" (`attr-rec.js:168`) holds, but one archive may have
  a delta recorded twice more: once after its row was removed, once after the document was.
- Between the removal of the rows and the storing of the time an archive
  leaves a gap in the history feed, for good if it dies there (`Hole` in `ArchiveFeed`).

Client:

- `unset` does not move `updatedAt` (`client/doc.js:280-286`), so
  that a removal after a deletion revives the document or not depending on the
  order of the feed; `VisibleAsTimesTell` leaves it open.  Local edits
  do not move it either (`client/doc.js:273`): a deletion from elsewhere, made
  before the user's edit and received after it, hides the document.
- `destroy` takes whatever time it is given (`client/doc.js:291`): of two deletions the
  earlier may arrive last, and a change between the two brings the document back.
  A proof attempt showed it; the run `ClientDoc` has the case, and the property leaves
  it open.
- A deletion of the millisecond of the last update takes precedence
  ("Use >= as doc deletion takes precedence", `client/doc.js:188`), but only in memory:
  `_saveChange` compares with > (`client/doc.js:323-324`) and does not save.  The
  document is back when the client is opened again: with <= in place of < for values in
  `AllOlder` the run `ClientDoc` finds `VisibleAsTimesTell` violated.
- `_initProps` does not return its inner promise (`client/db.js:75`): a sync right
  after opening may find no `_props`, fail, and has to be repeated.
- `sync` asks once and persists its time (`client/db.js:203`), so with more rows
  than one page (`Limit`) the rest is never asked for.
- The feed has no sequence number (`changes-query.js:179-188`): of two edits in
  one millisecond a client that has applied the first ignores the second.
- A change that is overtaken by another before the client pulls is never
  confirmed and is sent by every sync (`client/doc.js:198`); so is one with a
  sequence number above 0.

Policies:

- A row that a new policy also needs keeps its `updated_at` (`col-roles.js:190-191`), which
  is behind `PoliciesRace`; the update of a row whose name is NULL never finds it
  (`col-roles.js:142-148` compares with the text `null`).
- A check takes several statements and may mix two policies where one has a rule
  for the attribute; next to an empty policy, or none, it may deny
  what both "everything" and the other policy allow.  `CheckedByOldOrNew` leaves these out.
- Somebody who is disabled may still do what everybody may, but is shown
  nothing; a super user need not be enabled to change things but must be to be
  shown them; the feed falls back to the policy of the database and `modPermitted` does
  not.  `PolicyRules` says all of this of the code as it is.
- An older policy in another document, sent again, is put in force again: times are compared
  per document (`doc-recs.js:137`) and per row.

Users, roles and collections:

- README.md:20 says "Uses a simple last-write-wins conflict resolution policy and is
  eventually consistent".  A removal destroys the row of `user_roles` by which the document of a
  membership is found (`user-roles.js:148`, `process.js:458-470`): an older addition that
  arrives after it gets a document of its own and gives the role back.
  `LastChangeWins` fails in `MCAccounts` with `Scenarios <- LateAddition` and
  `InOrder = FALSE`.
- The collection of a new user's roles is inserted, and its default policy fails
  once the database has a policy (`createRoleUsersCol` for nobody is forbidden, which
  `getOrCreateColId` swallows): it stays without one (`policy.js:150-152`).  `ColsProtected`
  is therefore about collections of applications.
- Somebody else's first mention of a user, when the database has a policy: the user is
  inserted, the ForbiddenError of the role goes through, and the implicit role is never
  given, nor on a retry (`users.js:164-183`).
  `UsersComplete` says this of the refused and the crashed.
- `_getOrCreateUser` creates the user also when it has found it (`process.js:73-84`): a
  user who may not create users loses every change, silently.  So do servers with
  users they are the first to mention.  `LostOnlyIfForbidden` counts these as forbidden.
- "A race condition caused by back-to-back changes on the same col can result in subsequent
  inserts failing so we do a lookup upon failure" (`cols.js:116-117`), but not every race has a winner
  for the look-up to find: of two default policies of the database at once
  the second fails with a TypeError (the time is a string, `policy.js:258`,
  `col-roles.js:147`), and who has lost the race to insert a user goes on before the user has the implicit
  role.  The collection then stays null and the delta is dropped, although it is permitted:
  a new user who writes to two collections at once may lose one of the two.  Without `log.early`
  `LostOnlyIfForbidden` fails in the run `Accounts`.
- The two halves of a role change have one record in the queue (`process.js:573-578`),
  and the first to be done destroys it (`process.js:694`).  If the half of the role is, and the process dies
  before the half of the user has changed `user_roles`, the membership is recorded but never in effect,
  and nothing is left to try it again.  Without `log.lost` `LastChangeWins` fails in the run `Accounts`.
  An error of one half likewise leaves the change half done, with or without its record.
- A process that dies after it has inserted a user or a collection and before the implicit role
  or the policy leaves the user without role for good, the collection open to everybody
  (`users.js:164`, `cols.js:139`); between the two statements it is open also if nothing fails.
- The uuid of a role is not unique (`roles.js:41-44`): the SQLError that `roles.js:132`
  waits for never comes, and a race leaves two rows.
- The permission to create the documents of a role change is that of the user who
  gets the role; they are checked before anything is recorded, and for creation, where the
  recording needs an update: the two sides may differ though `process.js:532-536` means to
  prevent it.
- `Users.update` does not set `updated_at` (`users.js:146-162`): of two profiles that are
  written at once the older may stay, and one older than the change that made the
  user is never stored.
- The removal of a role that does not exist is an error of the database, and its record is
  tried for ever, as is every forbidden one.

## 6. Not modelled

- Text of SQL, connections, schemas: what a statement does to a table is modelled
  where it is used.  The adapters of the client's stores likewise; Postgres is the
  only SQL adapter in use, and its partial indexes are what makes rows of
  `col_roles` without a name unique.
- Databases: `process()` cannot create one in this commit, as the look-up of the
  document of a `$db` change leaves it without an id where there is none
  (`process.js:627-638`).
- In `ProcessQueue` users and collections exist, and a permission is a bit that may
  turn; in `Accounts` a process handles one change at a time and policies
  are replaced in one step; in `Policies` the roles exist.  The product of the three is
  out of TLC's reach.
- Memberships of the reserved roles, and documents with the id of an implicit role's, in
  `Accounts`.
- Restores in RECENT and ALL.  Passwords and the status of users; `getPolicy`.
- Pages of the feed beyond the first.  Two overlapping syncs of one client.  The order in
  which stores load.
- Clocks of clients and servers that disagree.

## 7. Plan

Modelled: attribute records, documents, client with its store, sync, process,
archive, policies, accounts; every safety property of a run but two is proved.  Left:

1. `LastChangeWins` and `LostOnlyIfForbidden` of `Accounts` for any scenario: the first needs the
   weakest order of changes that makes it true, the second the permissions as they were when a
   change was dropped.
2. `DocLifecycle` for RECENT and ALL, and overlapping syncs in `Sync`.
