# A TLA+ model of pal-shell-native

This directory specifies the concurrent and distributed core of the shell
plugin: what happens to a command between the moment a turn asks for it and the
moment its output has been delivered, when the command runs on a remote target
behind a connection that breaks, in a worker and a hub that are replaced; and
what a remote file tool may change, given what the model has been shown.

The code is the reference. Paths below are relative to the repository.

## 1. The system

| Part | Code | State | What makes it hard |
|---|---|---|---|
| Request admission | `pal_plugin/pal_shell_remote/admission.py` | permits, deque of futures | a granted caller is cancelled before it resumes; close |
| Lifecycle reducer | `pal_plugin/pal_shell_contracts/remote_lifecycle.py`, `_remote_transitions.py` | none (a table) | a public state and an unsigned flag stand for a phase |
| Execution gate | `pal_shell_remote/execution_gate.py` | operations, retired ids, epochs | evidence out of order, stale, repeated, of another worker |
| Slot and hub | `pal_shell_remote/slot.py`, `hub.py` | connection, locks, requests in flight | awaits between claim, bind, send and answer |
| Shell router | `pal_shell_native/router.py`, `recovery.py` | tickets, sessions, outputs, cursors | lost answers, hub replacement, records restored later |
| Worker client, transport | `python/pal_shell_worker/client.py`, `transport.py`, `rpc_transport.h`, `rpc_module.cpp` | a channel | timeouts, broken connections: effect unknown |
| Worker | `pal_shell_worker/worker.py` | journal, tasks, outputs, events, reservations | repeated requests, callbacks before tasks resume, full tables |
| Privileges | `pal_shell_worker/privilege.py` | grants, reservations, draining | single use of a grant, shutdown against running work |
| Management helper | `pal_shell_worker/management_helper.py`, `management.py` | a journal on disk | crash between record and child, expiry of records |
| Native runtime | `runtime.cpp`, `session_lifecycle.h` | sessions, timers, output slots | one reactor thread, timers racing posted commands |
| Shell adapter | `pal_shell_native/adapter.py` | local requests | cancellation racing native answers |
| Native owner | `pal_shell_native/runtime.py` | staged and committed turns | interruption, retirement of transient work |
| Observations | `pal_shell_native/observation_owner.py`, `events.py` | slots, claims, acknowledgements | superseded loads, lost wake-ups, retried acks |
| Approvals | `pal_shell_native/approval.py` | requests to the user | a decision racing its expiry |
| Remote files | `pal_shell_native/files.py`, `pal_shell_worker/files.py`, `_file_core/file_registry.py` | revisions, authorities | syncs overtaking each other, lost answers, retirement |
| File operations | `_file_core/file_state.py`, `file_edit.py`, `file_read.py`, `file_write.py`, `session_state.py` | read coverage | compare and swap between writers |
| Process and output primitives | `process_posix.cpp`, `process_windows.cpp`, `output_files.h`, ... | the kernel's | none that a model would show |
| Wiring, texts, installation | `capabilities.py`, `tools.py`, `guidance.py`, `*_setup.py`, `metadata.py`, ... | none | sequential I/O |

A submission passes: router (ticket, epoch from `metadata`) -> slot (`claim` in
the gate, `RequestAdmission`, the slot lock, connect, `bind`) -> client ->
worker (`_record`, a task, native code) -> answer -> gate (`result`, `snapshot`)
-> router (`_outcome`, `_adopt`). Completions travel back as events the router
polls. A privileged request is prepared, approved by the user, signed and
committed. The output is released after it has been delivered, and only then
does the gate retire the operation. A hub that is replaced is told, by
`execution_records` and `restore`, what the shell side still holds.

An event of a background session goes from the native runtime to the adapter,
which keeps the last one, to the observation owner, which loads its output and
lets one claimant have it, and into the conversation: in a turn of its own, or
before the next model request of a turn that runs. A tool result that covers the
event takes its place. The acknowledgement of the last event frees the output.

A file call brings the worker up to the plugin's revision of the context, uploads
its arguments and is submitted under that revision. Its result is staged in the
worker and gives authority over the lines it shows once the host has put it in the
conversation; the authority ends when the result leaves the conversation.

What has to be right: an operation has its effect at most once; nothing is shown
as not started, cancellable or over that has run or may still run; answers of a
replaced worker are not taken for the new one's; no permit, slot or completion
is lost; the end of a session is told once and its output freed only afterwards;
no line is overwritten that the model was not shown.

## 2. Modules

| Module | Models |
|---|---|
| `RequestAdmission` | admission.py: `acquire` up to its await, interruption, resumption, `release`, `close` |
| `RemoteLifecycle` | `next_phase` with the table it reads, `store_phase`, `operation_phase`, `permitted` |
| `ExecutionGate` | the methods of the class as functions from gate to gate |
| `GateEvidence` | the gate alone, under any order of calls: the environment is every claim, answer, snapshot, record and connection |
| `WorkerJournal` | worker.py with the Linux path of privilege.py: handlers, tasks, native callbacks |
| `RemoteTarget` | the composition: tickets, slot requests, link, `ExecutionGate` (EXTENDS) and `WorkerJournal` (INSTANCE) |
| `ManagementJournal` | management_helper.py: helpers, the journal on disk, the grant in the worker, death of a helper, the worker or the machine |
| `NativeRuntime` | runtime.cpp with session_lifecycle.h: sessions, timers, result slots, answers, close |
| `ObservationDelivery` | observation_owner.py and events.py with the parts of runtime.py, adapter.py, capabilities.py and role_sessions.py that touch one session's events, output and failures |
| `LineText` | file_state.py: logical lines, offsets, what lines an interval touches |
| `FileEdits` | file_edit.py: matches, overlaps, a batch of replacements, the authority after it |
| `FileSession` | the worker's read_file, edit_file and write_file over one file, manifests and their slices, grants, compare and swap (EXTENDS the two above) |
| `FileAuthority` | files.py of plugin and worker with file_registry.py: one scope, its revisions, calls, wire, journal and checkpoints |
| `ResultLifecycle` | abstract: the life of an operation and the authority of its result |
| `MC*` | values of the constants for TLC |
| `*Proofs` | the theorems |

**Steps.** All of the Python runs on event loops, so a step is what one task does
between two awaits. `RequestAdmission` has a step for the part of `acquire`
before the await and one for the part after it, and the future may be completed,
cancelled or timed out in between. `WorkerJournal` separates the moment native
code answers (the snapshot is frozen) from the moment the waiting task resumes
(the journal is written); callbacks run in between. In `RemoteTarget` a request
is `queued` (claimed, waiting for admission and the slot lock), `out` (sent),
`back` (answered) or `orphan` (given up by its caller, and still able to reach
the worker).

`NativeRuntime` has a step for each callback of the reactor thread. The flow
library it is built on is not part of the repository: starting a flow and
spawning its process is one step, and the flow handing over a settled result
(`complete`) another. Its times are relative, and a timer that is due may be
served after commands that were posted later.

`ObservationDelivery` has a step for each callback and each resumption: a posted
event, a load or read that ends, a tool call that is answered and later committed,
the opening, the projection and the end of a turn, the park of a role.
`FileSession` holds the registry lock over a whole tool call, as the code does, but
a foreign program may write between the read, the last comparison and the rename.
In `FileAuthority` the coroutine that holds the scope's lock has a step for each
await; requests stay on the `wire` when their sender has given up.

**State.** The gate is one record with `operations` and `current_epoch`; the
class's `retired` dict is the operations whose item is a `Tombstone`. An item has
the public `state` and the `unsigned` flag the code stores, not the phase; `Phase`
derives the phase with `operation_phase`, and every change goes through
`store_phase`. An output
token in `RemoteTarget` is the pair of operation and epoch, a session id is a
number that a new worker counts from one again, as the native runtime does.

**Abstractions.** Payloads, arguments, fingerprints, signatures and texts are
left out: a model operation id always comes with its own arguments, so the
fingerprint conflicts of `_record` do not arise. Requests the slot refuses before
its first await change nothing and are not steps. Whether the shell side learns
an answer is a choice (the caller may be gone). The session action `read` is
part of `HandleEvents`. Submissions carry an explicit epoch, as the router's
always do. The hub's port allows an operation to be submitted again while it is
unresolved; the router does not use that, the model does (`BeginClaim`), and the
router's extra check of the observed epoch in `_adopt` is left out: both only add
behaviours. `except Exception` in the worker's `_execute` is reached only while
the worker closes, which the model has as the end of an epoch.

In the file modules a text is a short sequence of characters and stands for its
digest; line coverage, which the code keeps as merged ranges, is the set of lines.
Rendered lines, patches and reports have fixed lengths (`LineUnits`, `PatchUnits`,
`ReportUnits`), different ones, so that fragments of a patch and of a line do not
share coordinates by accident. A result is named by its operation. Uploads and
blob reservations are the request they carry. A scope belongs to one worker epoch: a
restarted worker refuses it, which is a lost request. In `ObservationDelivery`
output is a count, a retried read is its final outcome, appending a result and
committing it is one step (the host runs tool calls one at a time,
`docs/pal-integration.md:54`), and releasing references to snapshots does not fail.

## 3. Runs

| Run | Question |
|---|---|
| `admission` | are permits neither lost nor invented, and does every waiter get an answer |
| `gate_evidence` | does the gate stay consistent under any evidence in any order, two operations, two epochs |
| `worker_journal` | does one worker execute once, reserve outputs, name events, shut down alone and resolve every record |
| `remote_operation` | a command, a privileged command or a shutdown, two requests in flight, a worker and a hub replaced: once, known is real, unsigned has not run, retired is over |
| `remote_control` | two controls of one session with lost answers |
| `management` | does a helper attempt an operation once, and do records and exit codes tell the truth (`ReportTruthful`), through crashes, unsynced renames and purged records |
| `native` | two sessions for one result slot, timers served late: is a slot there for every end, is no unseen result evicted, is each request answered once, does only the last deadline count, do stops, wake-ups and close come to an end |
| `observations` | one watched session under both hosts, tool calls and turns: is output freed only when shown, is each event told once and in order, does no parked role miss one, is the end never left behind |
| `file_session` | three calls on one file, cut and withdrawn results, a foreign writer: is authority only over shown lines, does a batch do what it says, do unread lines survive |
| `file_authority` | two calls of a scope, lost and late requests, retirement, crash and restore: can one call at most run, under the view it was sent with, never after a rejection; is the life of a result one-way (`ResultLifecycle`), is the lock given back |
| `worker_completion` | (violated) is the end of a session kept until someone has seen it |
| `remote_stale` | (violated) is a submission shown as `submitting` still being submitted |

*Bounds.* Every bound is a constant: `MaxEpoch` worker processes, `HubRestarts`
hubs after the first, `Requests` in flight, `Reads` callers make, `JournalLimit`
and `OutputSlots` of the worker. Two epochs let evidence of an old worker arrive
under a new one; two requests let a read or a repetition overtake a mutation;
`MaxOps = 1` makes `remote_operation` choose one of three operations in each
behaviour; `OutputSlots = 2` lets admission fail; the five operations of `worker_journal`
are two commands, a control of their sessions, a privileged command and a
shutdown, in a journal for four. `remote_control`
has one worker and no event reads because its property is about the lock and the
busy check. Requests are interchangeable, hence `SYMMETRY` in runs that check no
liveness property. `CHECK_DEADLOCK FALSE` is there where the bounds let
everything come to rest; `admission` checks deadlock.

In `management` two operations compete for a journal of one record, so that the
second is refused until the first is purged. A grant is `valid`, then `expired`,
then expired for more than a `day`; the one assumption about time is that no
helper takes a day from `verify` to the lock.

`native` has waits of zero or one unit, deadlines of one unit or none, `MaxBudget`
for what extensions may add up to, `MaxWatches` changes of the watch, and one more
session than result slots, so that admission fails, evicts or waits for an end.

`observations`: two events (one before the end, and the end), two watch
generations so that a watch can replace another, `MaxCalls` tool calls and user
turns together. More output per event (`MaxOut = 2`) reaches more states and
nothing else. It has no fairness: `NothingStranded` says what must be true when
nothing is left to happen (`Quiet`).

`file_session`: a text of four lines with a repeated character, a CR beside an LF
and no terminator at the end; batches that join, split, delete and overlap lines;
results shown whole or cut in the middle of a rendered line; one foreign write.
Three calls are a read, an edit that inherits its authority, and an edit or write
that uses it. `file_authority`: two calls, one change of the view that no call asks
for, one crash and one given-up request that still arrives: enough for a stale
checkpoint to meet a late submission.

*Fairness.* `RequestAdmission`: a task whose future is done is resumed by the
event loop, and a permit holder returns it since each request is bounded by the
transport's timeout. `WorkerJournal`: the loop runs scheduled tasks, native code
answers calls, and the initial wait is a timer of at most 300 s. Nothing is
assumed of requests, of how long a process runs, or of the shutdown helper,
which the code waits for without a deadline: `PendingResolves` therefore
promises nothing once the helper is launched. `RemoteTarget` has no liveness
property. `NativeRuntime`: time passes, the reactor serves timers that are due and
flows that settled, and the kernel ends a process that got SIGKILL. A process that
leaves its group may keep a pipe open; `CloseEnds` promises nothing then. Fairness is
for the reactor as a whole (some timer that is due, some flow that settled), not for
each session. `FileAuthority`: the coroutine that holds the lock is resumed, a
request that is not answered ends at its deadline, and the worker runs the task of
an operation it has accepted. Nothing makes a request arrive.

*Findings.*

- `worker_completion`: native code answers a `watch`; before the task resumes
  the process ends and `_deliver` stores the completion; the task then drops the
  session's event (`worker.py:378`). `README.md:398` says that terminal snapshots
  still reach the delivery adapter. A later read of the session shows the end.
- `remote_stale`: a submission whose epoch was read before the worker was
  replaced stays `submitting` after its request has failed, as `failed` ignores
  an epoch that is not the current one (`slot.py:195`). `docs/remote-state-machine.md`
  reserves the phase for a request that is being submitted. `CurrentIsInFlight` is
  what holds: the phase is right for the connected worker.

*Observed behaviour.* Met while modelling delivery and edits; the models have it,
and the properties are stated so that they say what does hold.

- A read re-exports the oldest failed snapshot of a session first
  (`capabilities.py:216`). When the terminal event's own delivery has failed and
  was reported, a success of that older export clears the session's failure
  (`runtime.py:219`), a failure of it drops the entry kept for the terminal one
  (`runtime.py:215`). A role then has `completion_blocked` and no event left to
  wake it. `docs/pal-integration.md:86` says that a reported output error does not
  demand a recovery call, and line 101 that failed output stays retained.
  `NothingStranded` excuses an event whose failed delivery was shown (`excused`).
- A failure of an older observation blocks a newer event that is pending already,
  where `docs/pal-integration.md:87` has new execution events restore tracking.
- `docs/output_cleanup.md:15` abandons a terminal output that failed; the code,
  like `docs/pal-integration.md:100`, keeps it.
- After a terminate, the adapter's kept waiting event has the sequence number of
  the new state and is recorded again, so `latest_status` reads `running` until the
  end is posted.
- An edit that removes the text behind a lone CR can turn it into a CR LF: the
  unread line above changes its terminator. `UnreadSurvives` compares lines up to
  that.
- Restoring an old checkpoint can leave a scope whose syncs the worker refuses
  (tombstones) until another scope replaces it. It only refuses work.
- The replacement of a file leaves a gap between the last comparison and the
  rename, in which only cooperating writers are locked out (`file_state.py:152`); `UnreadSurvives` excludes exactly that (`raced`).

## 4. Theorems

For every set of callers, every capacity and queue limit
(`RequestAdmissionProofs`):

- `PermitsAccountedAlways`: `active` is the number of callers that hold a permit
  or were granted one, never more than the capacity. The accounting is not
  inductive alone: a release hands its permit to a caller of the deque, which
  must be waiting and without one. The inductive invariant `IInv` adds the type,
  `NoIdlePermit` (else a release could return a permit others wait for) and
  `WaitersReachable` (a future exists exactly while its caller waits).
- `NoWaiterIsLost` (`NoWaiterLost`): while somebody is parked no permit is idle, and a pending
  future is in the deque of an open admission, so that a release or close
  reaches it.

For every set of operations, epochs, sessions, outputs, snapshots and records
(`GateEvidenceProofs`):

- `GateConsistent`: the gate's type and `PhasesValid`, `KnownHasOutput`. The
  argument is one lemma per method over the relation `Moves`: every item stays
  `Good` (typed, in a phase of its kind, with an output where one is known) and
  moves `Later` (tombstones stay, signatures stay, bindings stay). It rests on
  `NextPhase` and `RoundTrip` about the reducer and the stored form of a phase.
- `RetirementIsIrreversible`, `SigningIsIrreversible`, `BindingIsStable`: the
  action properties, from the same lemmas.

For every set of operations and views, any number of view changes, crashes and
late requests (`FileAuthorityProofs`; it assumes that operations are numbers, the
first view is a view and `None` is no operation):

- `AuthorityConsistent`: the inductive invariant `Inv`. Its centre is `Confirmed`:
  the worker has reached revision r, and if it is still there it holds view v. A
  confirmed revision is never lost, as the worker's revision only grows, whatever
  the plugin forgets. `PluginInv` says when the plugin's `acked` is confirmed,
  `JobInv` what the coroutine under the lock may rely on at each await,
  `FlightInv` that every submission on the wire or in the journal is confirmed
  under the view it was sent with, `RegistryInv` that live results are staged and
  not tombstoned.
- `OneIsRunnable` (`OneRunnable`), `RejectedCallsNeverRun` (`RejectedNeverRuns`),
  `RunUnderDispatchedView` (`RunsAsDispatched`): from `Inv`. Two operations that
  can run are confirmed at the same revision, hence under one view, and in each
  one's view every other pending operation is done.
- `LifecycleImplemented` (`ImplementsLifecycle`): under the mapping `Phase` every
  step is one of `ResultLifecycle` or changes no phase.

Only model-checked: `OldEpochFenced`, everything in `WorkerJournal`,
`ManagementJournal`, `NativeRuntime`, `RemoteTarget`, `ObservationDelivery` and
`FileSession`, and the liveness properties (fairness and ENABLED are beyond the
prover). What the recursive definitions of the file modules compute for every text
needs induction over data, which is beyond it too.

## 5. Not modelled

- `adapter.py`: the hand-off of a cancelled run, output windows, validation of
  input. `write`, `resize` and the write leases of the native runtime: they change
  nothing that the properties tell apart.
- Router: the poll cursor and deferred events, transient retirement. Transient
  turns and borrowed readers of `runtime.py`; state-revision messages; `close`; the
  cancellation of a background turn before it starts, which is the host's code.
- The status a model is shown between two events (`snapshot_is_older` is in
  `ObservationDelivery`, and no property is about it).
- Two workers whose session numbers coincide are covered by `gate_evidence` and the
  proofs about the gate, not by a run of the composition.
- `approval.py`: a prompt of the host; `RemoteTarget` takes its outcome at any
  moment.
- `rpc_transport.h`: partial frames, channel threads and deadlines; to the
  protocols above they are one lost, late or failed request.
- File tools: encodings, notebooks and images, rendering, the least-recently-used
  cache of `file_state.py` and `snapshot_state`/`prepare_restore`, which the worker's
  registry does not use.
- Process and output primitives, wiring, texts and installation: calls into the
  operating system or sequential I/O without shared state.
