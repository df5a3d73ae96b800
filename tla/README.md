# Formal models of Unity Debugger Pure MCP

TLA+ models, TLC runs and TLAPS proofs for the repository's core: the VS Code
companion extension (`src/src`), the MCP server it is reached through
(`src/server/src`) and the Python launcher (`src/launcher`).  Paths below are
relative to the directory that holds `src/`.

## 1. The system

An MCP client (an agent) starts the launcher or the bridge executable.  The
bridge finds a VS Code window that has the companion, connects to its named
pipe, says hello with a token and forwards tool calls.  The companion's
dispatcher checks them, queues them per debug session, talks to the debug
adapter through VS Code and answers.

    MCP client -- stdio --> server.ts -- callTool --> RegistryBridgeClient
       --> BridgeClient == named pipe == BridgeHost --> ToolDispatcher
       --> SessionCommandQueue --> DapGateway --> VS Code --> debug adapter
    debug adapter -- messages --> tracker (extension.ts) --> StateProjector
       --> EventBuffer (waits) and ToolDispatcher.onSessionStateChanged

| Component | State | Operations | What makes it correct |
|---|---|---|---|
| Command queue `src/src/debug/commandQueue.ts` | per session: pending list, active readers, active writer | `read`, `write`, drain, completion | exclusion, no overtaking, no needless waiting, one queue per session, no starvation |
| State projector `stateProjector.ts` | phase, stop generation | `acceptAdapterMessage` | a stop never looks like an earlier one |
| Event buffer `eventBuffer.ts` | ring of 256 events, waiters with timers and abort listeners | `append`, `appendProjected`, `waitFor`, `invalidate` | no lost wake-up, one answer per wait, nothing outlives it |
| Tool dispatcher `src/src/tools/toolDispatcher.ts` | observed states, control transitions, clients, references | the tools, `onDisconnect`, `onSessionStateChanged` | what it publishes belongs to the current stop; nothing is inspected after a resume |
| Session registry and lifecycle `sessionRegistry.ts`, `extension.ts` | entries by id and by reference, runtimes | register, tracker creation, start and terminate events | the tables agree; references never change their meaning; waiters hear of the end |
| Bridge host `src/src/bridge/bridgeHost.ts` | connections, requests, cleanups | accept, frames, disconnect, close | no handler without a listener or an abort signal; every disconnect is cleaned up |
| Bridge client `src/server/src/bridgeClient.ts`, `registryBridgeClient.ts` | connection state, pending calls, the shared connect operation | `connect`, `callTool`, cancel, close | every call answered once, never replayed; one live connection |
| Live host publication `src/src/external/liveHostRegistration*.ts`, `src/server/src/liveHostRegistry.ts`, launcher `discovery.py` | one record file per host | heartbeat, prune, close, locate | a live host is found, what a dead one left goes, a closed one writes nothing more |
| Client configuration `src/src/external/config/*` | workspace files, ownership records | inspect; configure, adopt, update, remove | nothing but the extension's own entry changes; a command does all or nothing |
| Breakpoint registry `breakpointRegistry.ts` | breakpoints created by tools | add, remove, list, notices of the editor | what clients may remove is what they added and the editor still has |
| Target capabilities `toolDispatcher.ts`, `dependencyAdapter.ts` | per client: the editors of its newest listing, their expiry; the attach gate | `list_targets`, `attach` | a capability is used once, in time, by whom it was given to; a root has one session |
| Activation and disposal `extension.ts`, `bridgeHost.ts` | the host, the publisher, the provider, hooks, subscriptions | activate, deactivate, `BridgeHost.listen` and `close` | nothing is left behind; what is advertised listens; everybody is answered |
| Framing `src/src/bridge/framing.ts` | the decoder's buffer and offsets | `encodeFrame`, `push` | frames arrive whole and in order, however the bytes are cut |
| Result budget `src/src/tools/resultBudget.ts` | none | `boundedCollectionResult` | what leaves fits, says whether something is missing, and keeps as much as it can in the order of the keys |

Behaviours that are hard: everything runs on one JavaScript thread per process,
so steps interleave only at awaits, callbacks and microtasks, but every handler
has several; the debug adapter may send any message between a request and its
answer; VS Code reports session starts, trackers and ends in orders of its own;
pipes and processes end at any moment; timers race answers; records and files are
shared with other processes.  PROJECT.json lists these as hazards, each at its
line, with the properties that would catch them.

## 2. Modules

| Module | Models |
|---|---|
| `FairReadersWriters` | what the command queue promises: a lock in arrival order. `Granted` says which commands run; `Arrive` and `Finish` are its only steps |
| `CommandQueue` | `SessionCommandQueue` itself: lists, counters and flags, one action per synchronous stretch. Implements `FairReadersWriters` |
| `CommandQueueProofs` | the TLAPS proofs about it |
| `StateProjector` | `acceptAdapterMessage` as operators on a state record, shared by the next two |
| `SessionEvents` | the tracker's message handler feeding projector and `EventBuffer`, with waits |
| `SessionEventsProofs` | the TLAPS proofs about it |
| `Inspection` | the dispatcher's inspection and control tools on one session, over `FairReadersWriters` and `StateProjector` |
| `InspectionProofs` | the TLAPS proofs about it |
| `AtMostOnceCalls` | what a client of the bridge may rely on |
| `BridgeLink` | `RegistryBridgeClient`, `BridgeClient`, the pipe, and `BridgeHost`. Implements `AtMostOnceCalls` |
| `BridgeLinkProofs` | the TLAPS proofs about it and about `Framing` |
| `SessionLifecycle` | VS Code's session events, the tracker factory, `SessionRegistry`, waits, attach, status and disconnect |
| `SessionLifecycleProofs` | the TLAPS proofs about it |
| `LiveHosts` | the directory of records: `LiveHostRegistrationPublisher` in several hosts, and the scan of `LiveHostRegistry.locate` and the launcher |
| `ClientConfig` | the commands that configure Codex and Claude: `runCommand`, both editors, the ownership record and `AtomicWorkspaceFile`, against other writers |
| `ClientConfigProofs` | the TLAPS proofs about it |
| `Targets` | `list_targets` and `attach`: capabilities, the gate, the session that is reused or started, against everything that changes meanwhile |
| `TargetsProofs` | the TLAPS proofs about it |
| `Activation` | `activateWithDependencies`, `disposeResources`, VS Code's disposal of the subscriptions, and the host's server from `listen` to `close` |
| `Breakpoints` | `BreakpointRegistry` in the life that `Activation` describes (it extends that module) |
| `HostProofs` | the TLAPS proofs about `Activation`, `Breakpoints` and `LiveHosts` |
| `Framing` | `encodeFrame` and `FrameDecoder`, as operators |
| `MCFraming` | assumptions that TLC checks over small streams cut in every way; `MCBridgeLink`, whose model reads frames and not bytes, extends it |
| `ResultBudget`, `MCResultBudget` | `boundedCollectionResult`, and assumptions that compare it with a reference definition; `MCTargets` extends them |
| `MC*` | instances for TLC: symmetry sets and constants that are functions |

How state and actions correspond to the code:

- **CommandQueue.** `entry` is the map from sessions to `SessionQueueState`s, each
  named by the command that made it (the map makes a new one after deleting the
  old); `home` is the state a command was pushed to; `pending`, `readers` and
  `writer` are the fields of the states.  `Enqueue` is `read`/`write`
  with the drain it ends in; `Begin` is the microtask that calls the operation;
  `Complete` is the `finally` continuation with its drain.
- **SessionEvents.** `Deliver` is one adapter message through
  `acceptAdapterMessage`: projection, `appendProjected`, and the ordinary event,
  in that order and without an interruption, as in the code.  `WaitFor` is a call
  of `waitFor`, `TimeOut`, `Abort` and `Invalidate` the other ways it settles.
  `log` and `oldest` are history variables.  The sequence comparisons of the
  buffer are modelled, with the error they throw swallowed by the tracker.
- **Inspection.** Each action is a stretch of a handler between two awaits.
  `BeginInspection` and `BeginControl` run up to the request, `Answer` takes an
  answer and runs to the next await or the end.  `Deliver` is a projected
  adapter message followed by `onSessionStateChanged`; `Remove` is the removal of the
  session.  The generations at which a call's answers were asked (`gathered`) and
  the generations ended by a resume (`resumed`) are recorded as history.  snapshot's
  later requests are alike: the model keeps two of them.  Calls refused before they
  are queued change no state and are left out.  The adapter answers in any order,
  since each `customRequest` settles by itself (`src/src/debug/dapGateway.ts`), and may
  send any event at any time, also late or none at all.  A handler awaits one request at a
  time, so its `step` says which is with the adapter, and `asked` in which generation it
  was sent.
- **BridgeLink.** Link *n* is the *n*-th connect operation.  `up` and `down` are
  the two directions of its pipe, FIFO until an end is gone, when the rest is lost.
  Reading is frame by frame, a superset of what chunks of several frames do.  The
  acknowledgement and hello timers fire in any state in which they are armed.
  `HostProcessEnds` is a crash or a reload of the window, `HostProcessBegins` a new
  host with a new pipe; `connected[1]` must succeed before calls are served, as in
  `runServer`.  `Send` is separate from the microtask that ends the connect
  operation: a superset of the code's orders.
- **SessionLifecycle.** VS Code is external.  The microtasks a callback queues run
  in their order before the next callback.  One workspace root; two session objects may
  share an identifier, as they do when a session is restarted.  `Attach`,
  `AttachBegins` and `AttachEnds` are the stretches of attach under its gate, a
  queue in arrival order.
- **LiveHosts.** A host's process is unborn, up, down, or down with its process
  identifier in use by another program.  `at` follows `#reconcile` through the file
  operations other processes can see: `OpenDirectory` (mkdir and readdir),
  `Prune` and `Drop` for each name, `Look` (workspace and roots), `Resolve` (the
  bridge's paths), `Replace` (write, rename, removal of the temporary file),
  `Withdraw`.  `caller` says whether `start` or `#heartbeat` awaits it, `Unpublish` is
  what they do when it fails.  `Close` and `CloseRemoves` are the two halves of `close`.
  A record is its age in heartbeats; `Tick` may fall between any two steps.  The
  scan reads one record a step.  Every file operation may fail; `Removal` is `rm` of a
  record, whose failure the code swallows wherever it is called.  Assumed: all hosts have the
  client's workspace open and are of one version; less than a heartbeat passes between
  reading a record and judging it.  `steady` is history, and so is `stuck`, the hosts whose
  `close` could not remove the record.
- **ClientConfig.** One file, Codex's or Claude's (`client`).  A content is the entry
  under the extension's server name and the rest; the hash that serves as a revision
  is the content itself.  `pc` follows a command from await to await: `Read` and
  `Inspect` (file, then record), `Choose`, `Reread` and `Compare` (apply's own
  inspection), `Check`, `Recheck` and `Rename`, `Link` or `Unlink` (replace and remove),
  `Record`, `RecordFails`, `RestoreRecord`; restoring the file is the same replace or
  remove with `undo` set.  Temporary files have random names and nobody else sees
  them, so they are not state.  The last inspection of a command only reads and is
  left out.  `Recognized` has two versions in the runs, so that an entry can be
  outdated; this release recognises only the version it writes, which is the part of
  the same behaviours in which it is not.  A failed update of the record may have
  taken effect, which is what the code's restoring allows for.  `disturbed` and
  `raced` are history.
- **Targets.** `List` and `Listed` (or `ListFails`) are `#listTargets` before and after
  the discovery; `targetOperation` is the call that set it.  `Attach` is `#attach`, which
  spends the capability and queues; `AttachRuns` is `#attachUnderGate` up to `startAttach`
  and `Started` the rest.  The gate is a sequence whose head runs: what `CommandQueue`
  is proved to give writers of one key.  The debugger extension finds any editors, starts
  a session (`Starts`) at any time before it answers, and answers with an error or with
  that session; `dependencyAdapter.ts` turns malformed answers into errors.  A result
  over the budget loses its tail, which is any subset of it.  Trust, roots and
  connections only go: what comes back is read afresh by the code whenever it asks.
  The session's reference is the session; selections that a failing lookup clears are
  `SessionLifecycle`'s.  `told`, `latest`, `spent` and `maker` are history.
- **Activation.** `phase` is the await at which `activateWithDependencies` is;
  `Register` is everything from the debugger's activation to `host.listen`, and may fail
  after any number of hooks.  `waiting` is the await at which each caller of
  `disposeResources` is; `Undo` is the catch block.  `first` is who found `disposed`
  unset: only that call closes and disposes, and its continuations come before those of
  callers that await the same promises later.  `closingPublisher` and `closingHost` are
  the shared promises.  `ServerFails` is the `error` event after `listen`.  Neither
  `publisher.close` nor `host.close` is ever rejected (their bodies catch everything), so
  only a provider or a hook that throws makes a disposal fail.  What they catch is not
  lost from the model: `PublisherCloses` and `StartFails` may leave the record, and
  `unremoved` is the history of the former.  The removal with which a failed heartbeat ends
  may come after `close` has resolved (`Reconcile`).
- **Breakpoints.** `Add`, `Remove` and `AcceptRemoval` are `add`, `remove` and
  `acceptChanges`; a notice is of one breakpoint and comes as long as its hook is
  registered.  Every record has a reference of its own, so a record is its breakpoint.
- **Framing.** A decoder is its buffer and its two offsets; `Unsafe` is what
  `Buffer.allocUnsafe` leaves in a buffer.  A payload is its bytes; that the JSON in it
  can be parsed is that it is not in `Malformed`.  `Push` is one call of `push`: an error
  costs the frames before it too, as an exception does.
- **ResultBudget.** A collection is the lengths of its items, in bytes of JSON; the rest of
  a result is the constant `Envelope`.  References of items that are cut off are revoked by
  the dispatcher; nobody has seen them, and `Inspection` leaves them out.

## 3. Runs

| Run | Instance | Distinct states | Shows |
|---|---|---|---|
| `CommandQueueLock` | 4 commands, 2 sessions | 624 thousand | exact grants (and so exclusion), one queue per session, refinement of the fair lock with its fairness |
| `SessionEventsWaits` | 2 waits, ring of 2, event sequences to 3 | 1.1 million | no lost event or wake-up, nothing left behind, no stop twice, every wait answered |
| `InspectionCalls` | 2 calls, 3 stop generations | 142 thousand | results and references belong to one stop, nothing is inspected past a resume, references end with their stop or through an older answer, every call settles |
| `BridgeLinkCalls` | 2 calls, 3 connections; frames of up to 3 bytes | 765 thousand | at most once, one live link, nobody forgotten, every call answered; and `MCFraming`'s assumptions |
| `SessionTables` | 3 objects, 2 of them sharing an identifier, 1 client | 617 thousand | the tables agree, an entry goes only with its own session, waiters hear of the end |
| `LiveHostsSafety` | 2 hosts, records stale after 2 heartbeats, one scan after another, symmetry | 264 thousand | only the owner removes a live host's record; a closed host never writes its record again and leaves one only if it could not remove it; scans account for who was there |
| `LiveHostsLive` | 2 hosts, no scan | 30 thousand | dead hosts' records go, however many heartbeats and removals fail; close resolves |
| `ClientConfigRaces` | 2 commands, 2 versions, 2 writes by others, symmetry | 792 thousand | only the own entry changes; a command that was alone does all or nothing |
| `TargetsAttach` | 3 calls of 1 client, 2 editors of 1 root, 2 sessions, capabilities that last a tick of two, symmetry | 747 thousand | capabilities are the newest listing's and are spent once, in time; one session per root; nothing is attached where that is no longer allowed; and `MCResultBudget`'s assumptions |
| `ActivationTeardown` | 2 hooks, 2 callers of dispose beside the catch block, 2 breakpoints | 81 thousand | nothing is left behind but a record that could not be removed, what is advertised listens but for the cases named, ownership follows the editor, everybody is answered |
| `AttachReuse` | 2 objects sharing an identifier | (violation) | attach reuses a terminated session, against the design document |
| `HeartbeatRetry` | 1 host, no scan | (violation) | one failure to resolve the bridge's paths is kept for ever |

Why the bounds are enough.  Four commands give a session a running read, a
waiting writer and a read behind it, and a second session a command beside; the
proofs cover the rest.
A ring of two overflows at the third event, and a filter can match the dropped,
the kept, both or none.  Two calls in `Inspection` are an inspection in flight and a
control that moves the session under it, three generations the stop that issued a
reference, the one that replaces it and another; three calls with two generations were
checked once (1.1 million states) with the same result.  Two calls on two
links share a connect operation, cross a cancel with an answer and lose the
first link with one call sent and one not; three calls were checked once (3.8
million states) with the same result.  Three session objects give a replacement and
a bystander; two clients on two objects were checked once (580 thousand states) with
the same result.  Two configuration commands may overtake each other between check and
rename, and two writes by others are one that is noticed and one that is not.  Three calls
in `Targets` are a listing and two attaches that spend its two editors of one root, or a
listing that supersedes another and an attach; two clients and a clock of one tick
were checked once (1.3 million states) with the same result.  Two hooks can be
registered by half; two callers of dispose beside the catch block are one that finds
`disposed` unset and one that joins, whoever came first; a third breakpoint was checked
once (321 thousand states).  Streams of up to three frames of up to three bytes fill
the buffer's first eight bytes exactly, outgrow it and compact it; the proofs are about
any length.  Results of two collections of up to three items of up to three bytes, under a
budget of nine, are cut in the first collection, in the second, in both and in none.  Two hosts are one that prunes and one that is pruned, and the two a scan
may have to tell apart; the proofs cover any number.  Runs in which the system may really come to rest (all calls used, the
session gone) say CHECK_DEADLOCK FALSE; the command queue's runs check deadlock.

Fairness.  Microtasks, socket delivery and armed timers happen (weak fairness):
Node's event loop guarantees it.  `CommandQueue` further assumes that operations end,
`InspectionCalls` that the adapter answers each request; the code itself sets no
limit on that, so a request that is never answered holds its session's queue (a hazard
without a property).  In `BridgeLink` a handler need not end, a client need not
cancel, and a host need not come back.  No call, cancellation, adapter event or crash is
assumed to happen.  In `Activation` what VS Code, Node and the file system were asked for
ends, well or badly, and continuations run; nobody need deactivate the extension or break
the server.
In `LiveHosts` time passes and operations end; an operation tried for ever succeeds
again and again (strong fairness, for listing, reading and removing what dead hosts left, or
for the publishing steps); hosts need not end and nobody need scan.  Nothing is assumed
of the removal of a host's own record.

The findings.  The code disagrees with the repository's documents in five places.  Two have a
run of their own.

- `AttachReuse`.  `#matchingTrackedSessions` looks at the workspace root and the tracked
  flag and not at the phase.  When the adapter has sent `terminated` and VS Code has
  not yet reported the end of the session, attach returns that session with
  `reused: true`, where the design says that attach "first reuses a matching active
  debug session" and that a terminated session "requires an explicit new attach".
- `HeartbeatRetry`.  `#canonicalBridge ??=` keeps the promise of the first resolution of
  the bridge's paths, a rejected one too.  If that first resolution is made by a heartbeat
  (the workspace was not trusted, or had no root, at the start) and fails once, every later
  heartbeat awaits the same rejection, removes the record and schedules the next; the test
  of a heartbeat's failure and the design expect the retry to be able to succeed.

The other three stand in a passing property as the exception it makes: the property says
exactly when the code departs from the document, and that it never does otherwise.  Without
its exception TLC finds each property violated, by the trace given here.

- `ReferencesEndForCause`, without `EndsOutOfDate`.  `#recheckStopped` invalidates every
  reference of the session when it finds the state a handler captured out of date
  (`src/src/tools/toolDispatcher.ts:1049`).  The program stops; one call asks for its
  threads; the program runs on and stops again; a second call asks, is answered first (each
  request settles by itself, `src/src/debug/dapGateway.ts:183`) and publishes references.
  Then the first is answered: it is stale, and takes the references of the current stop with
  it.  The client is told that they are stale although their stop goes on, and has to
  inspect again.  The companion design lists what ends references: "Invalidates all
  inspection references on continue, step, reload, termination, or a new stopped event."
  `ReferencesAreCurrent` says that the error is on the safe side: what resolves is of the
  current stop.
- `AdvertisedHostsListen`, without the subscriptions.  VS Code disposes the subscriptions as
  soon as it has called `deactivate`, and `bridgeDisposable` (`src/src/extension.ts:410`) closes
  the host then and there, while the first disposal still awaits the publisher.  The plan of the
  external bridge says "stop heartbeats, remove this window's descriptor, and then close the
  pipe", and `src/tests/extension/extension.test.ts:683` keeps that order, but of the calls that
  begin the closes and not of their ends.  A bridge that scans in between is sent to a pipe
  that nobody serves.
- `OnlyOwnEntryChanges`, without `raced`.  `AtomicWorkspaceFile.replace` reads the file a last
  time, validates its temporary file and renames it
  (`src/src/external/config/atomicWorkspaceFile.ts:192`).  What another program writes in
  between is lost, where the design of the commands says "A file changed between read and
  write returns a retryable conflict and keeps the newer file intact."  The window is a few
  file operations wide; creating a file, by a hard link, has none.

Some properties are weaker than one might wish, because the code is, though no document
says otherwise.  `AdvertisedHostsListen` lets the provider name a dead pipe when the server
has failed after it had listened: the host then closes itself and tells nobody, until the
extension is disposed.  It allows for a record that could not be removed, too, and so
do `NothingIsLeft` and `ClosedIsWithdrawn`, since a failed `rm` is swallowed: what they say is
that a record that is left is one whose removal by `close` failed, and the last that no
reconciliation freshens it, so that it ages and other hosts prune it.  And
`OneSessionPerRoot` is about sessions that an attach has reported: when `startAttach` names a
session that is not tracked yet, attach fails and the session lives on, so a retry may
find it later or start another.

Mutants.  Each property is checked against a plausible bug of the code it is about:
the definitions named in the mutants stand before the ones they would replace, under
a comment, and are used nowhere else.

## 4. Proofs

`CommandQueueProofs` proves, for any sets of commands and sessions, `TypeCorrect`,
`Exclusion`, `OneQueue`, `ExactGrants` and `RefinesFairReadersWriters`.  The
assumptions are those of the modules: `NoQueue` is not a command, and commands have
modes.  None of the properties is inductive alone.  The invariant adds what relates
lists, counters and tickets: a command that is pending stands in exactly one list and
lists are in arrival order; the command that made a queue state is the earliest of
those it has served; the counters are the sizes of the sets of running commands; a
list's head is blocked whenever the list is not empty (`DrainedAt`), which is
what makes grants *exact* rather than merely safe; and a session's table entry names
the state in use (`EntryInUse`), without which a deleted state could be found
again.  Each action preserves each part; the theorems follow, and the refinement uses
the exact grants to show that a step that moves no command across the abstract lock is a
stutter.

The first part of `HostProofs` is about `Activation` and `Breakpoints` and proves, for any
number of hooks, any callers of dispose and any breakpoints, `NothingIsLeft`,
`AdvertisedHostsListen` and `OwnershipFollowsTheEditor`.  The only assumptions are that
there is a hook and that "nobody" and the catch block are no callers of `dispose`.
`ActivationInv` has five parts besides the types.  `PhaseInv`: what has been made at each
phase, so that a failure has nothing to take back that its phase does not tell.
`DisposalInv`: until a first caller nothing is on its way down, and from then on the
provider is gone and activation over.  `PublisherInv` and `ServerInv` tie the memoised promises
of `closePublisher` and `closeBridge` to the states of publisher, host and server: a
record outlives the publisher's close only if its removal failed, and nobody closes the host
before the publisher is closed but VS Code, which disposes the subscriptions.  `CallersInv` is what makes the word of a second caller good: its
continuations run behind the first one's, so when it hears of the end the first has
disposed the hooks.  `OwnershipInv` adds the editor's breakpoints, and needs of the
others that the hooks outlive an open host (`HookedWhileOpen`) and are never put back
(`HookedOnce`).

The second part of `HostProofs` proves, for any set of hosts and any staleness, `TypeCorrect`,
`Withdrawal`, `PruneIsSafe` and, for a finite set, `ScansAreSound`.  The invariant `HostInv`
adds that only a process that is up works, closes or has a timer; that the record
being dropped belongs to a process that has ended, which cannot come back, so the
gap between the judgement and the removal does no harm; and that a closed publisher
is at rest or cleaning up, so nothing is on its way to a rename.  `Withdrawal` is then an
action property: `RecordChanges` says that only a rename can make a record fresh, whoever's
removal fails, and `DoneByRemoval` that `close` resolves only with an attempt to remove.  For the scan,
`ScanInv` keeps every steady host among those matched or still to read; the lemma
`RecordGoes` shows that no record goes while its replacement is being written.

`ClientConfigProofs` proves, for any commands, launcher versions and number of
writes by others, `TypeCorrect`, `OwnEntry` (`OnlyOwnEntryChanges`) and `Applied`
(`AllOrNothing`).  The
assumptions are that the version written is one recognised, that versions have
names of their own (`NameAssumption`) and that no content is the absence of a file.
The property says what holds at the last step of a command, but the reasons lie at its
earlier ones, so the invariant `ConfigInv` carries along what each command knows: the
action was offered for the state seen, that state is the one of the content inspected
and the record gone by, and unless the command has been raced the file is as the last
check found it.  `OfferedMayTouch` turns the first two into the permission to touch the
entry; `OthersPassedBy` shows that a step of another command leaves that knowledge
alone and marks whom it races.  `AllOrNothing` is about a command that was left alone
from its beginning, and `IntactInv` says what that is worth at each of its steps: the file
is the one it read, after the mutation the one it wrote, after a failed record the one to be
taken back, and the ownership record is the one it goes by.  `WritesDisturb` is the
counterpart of `OthersPassedBy`; `GoalReached` and `AdoptionReached` say that what was
written and recorded is the state asked for.  TLC checked `IntactInv` first, on the
instance of `ClientConfigRaces`.

`BridgeLinkProofs` proves, for any calls and any number of connections,
`OneLiveLink`, `PeersAgree`, `NobodyIsForgotten` and that `BridgeLink` implements
`AtMostOnceCalls`, with every crash, cancellation and loss of a link the model has; the
theorems are about `SafeSpec`, without fairness.  The invariant `Inv` has, besides the
types, six parts.  `LinkInv`: a link is connecting only while its operation is under
way, and a ready one is the current one.  `CallInv`: a call that waits or is pending has
a link in that state, and a handler belongs to a call that was sent.  `PipeInv`: how a pipe begins, on
both ends.  `FrameInv`, the heart of it: a request stands in one place of one pipe and only
until its handler starts, its cancel stands behind it, and a response is its handler's.
That is what makes a call run at most once and a result its own.  `HostInv`: whose
requests and cleanups the host holds.  `NoticeInv`: a call that was given up and
that the host works on, or has yet to read, has its cancel under way.  Frames are moved by
appending to a pipe's end and taking its head only, so the lemmas about those two
(`RequestFirst...`, `OneRequest...`) are cited wherever a step moves one; `NextSplits`
divides the actions by what they leave alone.  Handlers, outcomes and withdrawals are
mapped as they are; a loss that reports several calls at once maps to one
`ReportUnavailable`.  TLC checked `Inv` first, on the instance of `BridgeLinkCalls`.

The second part of `BridgeLinkProofs` is about `Framing` and proves, for any frame limit of at most 2^31 - 1 and any state of the
decoder, what one chunk and one frame do.  `ChunksAreAppended`: a chunk of any length
adds exactly its bytes to the unread ones, also when the buffer is replaced or compacted
under them (`RoomForMore`, from `CopyCells` about the copy onto itself).
`FramesAreTaken`: if the unread bytes begin with an encoded frame, `push` finds it
complete, takes the payload that was encoded, and leaves what followed (`HeaderDigits`
is the arithmetic of the four length bytes).  `PartialFramesWait`: a proper part of a
frame is left alone.  `LargeFramesAreRefused`: a header over the limit fails at once.
Since what these say is about the unread bytes only, the cutting does not matter; that a
whole stream comes out as the payloads that went in is the induction over them, which
TLC checks on small streams (`FramesSurviveCutting`, `BrokenStreamsGiveWhatIsComplete`,
`BadFramesAreRefused` in `MCFraming`): an induction over data is out of the prover's reach.

`TargetsProofs` proves the four properties of `Targets` for any clients, calls, editors,
roots, sessions and times.  The invariant has five parts besides the types.  `GateInv`: the gate holds
exactly the attaches that wait or start, each once, and only the first starts.
`ListingInv`: what a listing told had been asked for, and what a client holds comes from its newest
listing.  `SpentInv`: what an attach spent was told its client, and no capability is spent
twice, nor held after it was spent - which is why consuming it before anything else
matters.  `MakerInv`: a session an attach had started is in the root of its editor.  `RootInv`
is what `OneSessionPerRoot` needs to be inductive: no attach is starting a
session in a root that has a reported one.  The lemma `NextIsStep` first takes apart what an attach may come to
(`FindsNone`, `Spends`, `Begins`, `Leaves`), and each part is then shown to survive each case.

`InspectionProofs` proves, for any calls and any number of stops, the four invariants of `Inspection` and `ReferencesEndForCause`.  The
assumptions are that a call is not `None` (nor a state or a transition `None`,
`NoneAssumption`).  The four depend on each other and on what no property says, so
`Inv` has besides the types and the history's bounds: `QueueInv`, that whoever
awaits an answer is granted by the queue - an inspection then has no control beside it
(`ControlsAreAlone`); `HandlerInv`, that an inspection has captured a stop and has gathered
from it alone; `FlightInv`, that what a handler awaits was asked in the generation it captured, which is
not a later one than the current; `TransitionInv`, that the transition is the one of the
only control under way and that a stop ended by a resume keeps it; and `ReferenceInv`, that
references are bound to the state last synchronised with.  Nothing is said of the order of
answers.  `StaleAnswersAreLate` is what `LastingReferences` turns on: an answer that is found
stale in a stop that has references was awaited since an earlier state, for within the
stop itself `StillMay` can fail only through the transition of a resume, which has ended the
references before.
The lemma `HandlerSteps` reduces the stretches of the
handlers to a few shapes.  TLC checked `Inv` first, on the instance of
`InspectionCalls`.

`SessionLifecycleProofs` proves the four properties of `SessionLifecycle` for any session
objects, whatever identifiers they share, any finite number of clients and any sessions
that were under way before.  The assumptions are that `None` is neither an entry nor
a runtime and that every object has an identifier.  What a wait hears depends on the order of the
microtasks, so beside `TableInv` (an entry stands under its object's identifier, with a
reference of its own, and the runtimes agree with it) the invariant says what is queued:
`TaskInv`, that a removal is the last task, behind the continuations of the waits it
might disappoint, and that these still find their runtime; `EndInv`, that a
session that has ended is gone or its removal is queued; `WaitInv`, that who waits has a
runtime to hear from, and who waits for an end waits only until the adapter has told of it;
and `ObservedInv`, that the dispatcher remembers no reference that is not in use.
`WaitersHearOfTheEnd` is inductive with these.  `Registers` and `Released` say what
`register` and the release of waits do to the tables and the queue; the clients' other
steps are `Quiet`: they leave both alone.  TLC checked both invariants first, on the instances
of `ActivationTeardown` and `SessionTables`.

`SessionEventsProofs` proves, for any waits and filters, any capacity and any number of
events, the four invariants of `SessionEvents` and `StatesNeverReturn`.  `LogInv` makes
`NoEventIsLost` inductive: it relates counter, log and ring element by element, so that
neither comparison that could throw at the tracker ever fails.  `WaitInv` adds that a wait
that settled was asked, and `MatchInv` that what it was resolved with stands in the log
at its own number with nothing that matches between the oldest event retained when it was asked and
it.  `LeastIndex`, by well-founded induction, is what `waitFor`'s search for the first
match rests on; `NoLostWakeup` is inductive with these.

The types of `CommandQueue` and `ClientConfig` and the queue's `MutualExclusion` are proved
and need no run of their own: the types are what the proofs' invariants begin with,
the last follows from `GrantsAreExact`.

With these, every invariant and every other safety property that a passing run checks is
proved for all constants that the modules' assumptions admit.  Model-checked only are:
liveness, which rests on fairness and is out of the prover's reach
(`EveryWaitIsAnswered`, `EveryCallSettles`, `EveryCallIsAnswered`, `DeadRecordsGo`,
`CloseResolves`, `EveryoneIsAnswered`, and the part of `ImplementsFairReadersWriters` that
promises progress); what the definitions of `Framing` and `ResultBudget` compute for
whole streams and results; and the two disagreements with the documents that have a run,
which are counterexamples.

## 5. Not modelled, and the plan

The plan has little left: no theorem, and of the code the waits that a disposal ends and
the provider's resolution of a server definition (`src/src/mcpProvider.ts`), which
`Activation` leaves out, and the tool `set_exception_breakpoints`, which is one request made
as a writer of the session's queue, without a look at phase, references or transitions
(`CommandQueue` has such writers, `Inspection` does not).

Left out for good: schemas, error records and the tool catalogue (tables), the MCP SDK,
packaging and tests.
