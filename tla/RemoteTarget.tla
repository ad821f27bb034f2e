----------------------------- MODULE RemoteTarget -----------------------------
(***************************************************************************)
(* One remote target end to end: the shell side's tickets (router.py), the *)
(* hub's slot with its requests in flight (slot.py, hub.py) around the     *)
(* ExecutionGate, a connection that breaks and loses answers (client.py),  *)
(* and the worker (WorkerJournal) behind it.                               *)
(*                                                                         *)
(* A request is claimed or signed, queues for admission and the slot lock, *)
(* connects if needed, binds, is sent, is handled by the worker and comes  *)
(* back; at every point it can be cancelled, time out or lose its          *)
(* connection, and then the worker may still handle what was sent.  The    *)
(* worker and the hub can be replaced at any time.  A request the slot     *)
(* refuses at once changes nothing and is not a step.                      *)
(***************************************************************************)
EXTENDS ExecutionGate, FiniteSets

CONSTANTS Requests,       \* bound: requests in flight or unanswered
          Reads,          \* bound: the reads callers make, of query, events and release
          MaxOps,         \* bound: how many of the operations a behaviour has
          KindOf, ActionOf, MaxEpoch, JournalLimit, OutputSlots,
          HoldOutput,     \* owner.require_output_delivery
          HubRestarts     \* bound: plugin generations after the first

VARIABLES
    epoch, journal, task, process, sid, armed, owned, outputs, events,
    reservations, draining, starts,          \* the worker
    link,      \* the slot's connection: down, up, broken (closed, not yet retired)
    request,   \* the requests of the slot
    ticket,    \* what the shell side knows of each operation
    known,     \* the epochs that metadata has told so far
    spent,     \* operations submitted to an earlier hub: only queried since
    restarts,
    effects    \* how often each operation had its effect, in any worker

W == INSTANCE WorkerJournal

worker == <<epoch, journal, task, process, sid, armed, owned, outputs, events,
            reservations, draining, starts>>
vars == <<gate, worker, link, request, ticket, known, spent, restarts, effects>>

Mutations == {"submit", "session", "prepare", "commit"}

Token(o, e) == <<o, e>>
AllOutputs  == {Token(o, e) : o \in Ops, e \in Epochs}

NoSnapshot == [epoch |-> 1, execution |-> NoOp, session |-> NoSession,
               output |-> NoOutput, status |-> "none"]
NoReply    == [raised |-> "none", error |-> "none", state |-> "complete", result |-> NoSnapshot]
Raise(effect) == [NoReply EXCEPT !.raised = effect]

IdleRequest == [pc |-> "idle", method |-> "query", op |-> NoOp, epoch |-> NoEpoch, via |-> NoEpoch,
                session |-> NoSession, tracked |-> FALSE, reply |-> NoReply]

NewTicket == [stage |-> "new", resolved |-> FALSE, epoch |-> NoEpoch,
              session |-> NoSession, output |-> NoOutput, ended |-> FALSE]

Init ==
    /\ gate = InitGate /\ W!Init
    /\ link = "down"
    /\ request = [r \in Requests |-> IdleRequest]
    /\ ticket = [o \in Ops |-> NewTicket]
    /\ known = {} /\ spent = {} /\ restarts = 0
    /\ effects = [o \in Ops |-> 0]

-------------------------------------------------------------------------------
(* slot.request up to its first await.                                     *)
Active(r) == request[r].pc \in {"queued", "out", "back"}

(* "epoch or self.epoch", with self.epoch the gate's current epoch.        *)
SlotEpoch(g, e) == IF e # NoEpoch THEN e ELSE g.current_epoch

InFlight(o) == \E r \in Requests :
    Active(r) /\ request[r].method \in Mutations /\ request[r].op = o

Queue(r, method, o, e, s, tracked) ==
    /\ request[r].pc = "idle"
    /\ request' = [request EXCEPT ![r] = [IdleRequest EXCEPT !.pc = "queued", !.method = method,
          !.op = o, !.epoch = e, !.session = s, !.tracked = tracked]]

Submitted(o, e, s, out) ==
    ticket' = [ticket EXCEPT ![o] =
        IF @.stage = "new" THEN [@ EXCEPT !.stage = "submitted", !.epoch = e, !.session = s, !.output = out]
        ELSE @]

(* submit and prepare_privileged, under the epoch that metadata gave the   *)
(* ticket, which may be stale by now; and again while it is unresolved.    *)
BeginClaim(r, o) == \E e \in known :
    /\ KindOf[o] # "control" /\ o \notin spent /\ ~InFlight(o)
    /\ ticket[o].epoch \in {NoEpoch, e}
    /\ ~ClaimRaises(gate, o, e, KindOf[o])
    /\ gate' = claim(gate, o, e, HoldOutput, KindOf[o])
    /\ Queue(r, IF KindOf[o] = "execution" THEN "submit" ELSE "prepare", o, e, NoSession, ~Owned(gate, o))
    /\ Submitted(o, e, NoSession, NoOutput)
    /\ UNCHANGED <<worker, link, known, spent, restarts, effects>>

(* Mutant: a control with a lost answer does not keep its session busy.    *)
SessionBusyInFlight(e, s) == \E x \in Ops :
    LET item == gate.operations[x] IN
    /\ Owned(gate, x) /\ item.epoch = e /\ item.session = s
    /\ item.kind = "control" /\ item.state \in {"submitting", "pending"}

(* A session is busy while one of its controls is unresolved; terminate is *)
(* exempt.  Only one request at a time holds the session's lock.           *)
SessionBusy(e, s) == \E x \in Ops :
    LET item == gate.operations[x] IN
    /\ Owned(gate, x) /\ item.epoch = e /\ item.session = s
    /\ item.state = "unknown" \/ (item.kind = "control" /\ item.state \in {"submitting", "pending"})

SessionLocked(e, s) == \E r \in Requests :
    /\ Active(r) /\ request[r].method = "session" /\ request[r].session = s
    /\ request[r].epoch = e

BeginControl(r, c) == \E x \in Ops :
    LET e == ticket[x].epoch  s == ticket[x].session IN
    /\ KindOf[c] = "control" /\ KindOf[x] # "control" /\ ticket[x].stage # "dropped" /\ s # NoSession
    /\ c \notin spent /\ ~InFlight(c)
    /\ ActionOf[c] # "terminate" => ~SessionBusy(e, s)
    /\ ~SessionLocked(e, s)
    /\ ~ClaimControlRaises(gate, c, e, s)
    /\ gate' = claim_control(gate, c, e, s)
    /\ Queue(r, "session", c, e, s, ~Owned(gate, c))
    /\ Submitted(c, e, s, ticket[x].output)
    /\ UNCHANGED <<worker, link, known, spent, restarts, effects>>

(* The user's decision; then hub approve, for a preparation of the worker  *)
(* that is still connected.                                                *)
Approve(o) ==
    /\ ticket[o].stage = "prepared"
    /\ ticket' = [ticket EXCEPT ![o].stage = "signed"]
    /\ UNCHANGED <<gate, worker, link, request, known, spent, restarts, effects>>

BeginCommit(r, o) ==
    LET e == gate.current_epoch IN
    /\ ticket[o].stage = "signed" /\ ticket[o].epoch = e
    /\ ~InFlight(o) /\ ~SignRejected(gate, o, e) /\ Phase(gate, o) # "preparing"
    /\ gate' = sign(gate, o, e)
    /\ Queue(r, "commit", o, e, NoSession, Signs(gate, o))
    /\ UNCHANGED <<worker, link, ticket, known, spent, restarts, effects>>

BeginQuery(r, o) ==
    /\ "query" \in Reads
    /\ ticket[o].stage \notin {"new", "dropped"}
    /\ Queue(r, "query", o, ticket[o].epoch, NoSession, FALSE)
    /\ UNCHANGED <<gate, worker, link, ticket, known, spent, restarts, effects>>

(* metadata, which tells the epoch; events and observe.                    *)
BeginMetadata(r) ==
    /\ Queue(r, "metadata", NoOp, NoEpoch, NoSession, FALSE)
    /\ UNCHANGED <<gate, worker, link, ticket, known, spent, restarts, effects>>

BeginEvents(r) == \E e \in known :
    /\ "events" \in Reads
    /\ Queue(r, "events", NoOp, e, NoSession, FALSE)
    /\ UNCHANGED <<gate, worker, link, ticket, known, spent, restarts, effects>>

BeginRelease(r, o) ==
    /\ "release" \in Reads
    /\ ticket[o].stage # "dropped" /\ ticket[o].output # NoOutput /\ ticket[o].ended
    /\ Queue(r, "release", o, ticket[o].epoch, NoSession, FALSE)
    /\ UNCHANGED <<gate, worker, link, ticket, known, spent, restarts, effects>>

CancelPrepared(o) ==
    /\ KindOf[o] \in Approved /\ ticket[o].stage \in {"submitted", "prepared"}
    /\ gate' = cancel_prepared(gate, o)
    /\ ticket' = [ticket EXCEPT ![o].stage = "dropped"]
    /\ UNCHANGED <<worker, link, request, known, spent, restarts, effects>>

-------------------------------------------------------------------------------
(* What the shell side makes of an answer, if it still listens: _outcome,  *)
(* reconcile, _adopt, the event poll and forget_output.                    *)
Adopt(t, snap) ==
    IF snap.status = "none" \/ t.stage \in {"new", "dropped"} \/ t.epoch \notin {NoEpoch, snap.epoch} THEN t
    ELSE [t EXCEPT !.resolved = TRUE, !.epoch = snap.epoch, !.output = snap.output,
                   !.session = IF snap.session # NoSession THEN snap.session ELSE @,
                   !.ended = @ \/ snap.status = "exited"]

Drop(t) == [t EXCEPT !.stage = "dropped"]

Outcome(t, method, reply) ==
    IF method = "prepare" THEN [t EXCEPT !.stage = IF @ = "submitted" THEN "prepared" ELSE @]
    ELSE IF \/ reply.state = "approval_required"
            \/ reply.error = "not_started"
            \/ reply.state = "complete" /\ reply.result.status = "accepted" THEN Drop(t)
    ELSE IF reply.state = "complete" THEN Adopt(t, reply.result)
    ELSE t

(* An event belongs to the operation it names, else to the execution known *)
(* to have its session.                                                    *)
EventOwner(x, snap) ==
    /\ KindOf[x] # "control" /\ ticket[x].epoch = snap.epoch
    /\ IF snap.execution # NoOp THEN x = snap.execution
       ELSE snap.session # NoSession /\ ticket[x].session = snap.session

Forgotten(x, o) ==
    /\ ticket[x].epoch = ticket[o].epoch /\ ticket[x].output = ticket[o].output
    /\ ~(KindOf[x] = "control" /\ ~ticket[x].resolved)

Learn(q) ==
    CASE q.method = "metadata" -> ticket
      [] q.method = "events"  -> [x \in Ops |->
            IF EventOwner(x, q.reply.result) THEN Adopt(ticket[x], q.reply.result) ELSE ticket[x]]
      [] q.method = "release" -> [x \in Ops |->
            IF Forgotten(x, q.op) THEN Drop(ticket[x]) ELSE ticket[x]]
      [] OTHER -> [ticket EXCEPT ![q.op] =
            IF @.stage = "dropped" THEN @ ELSE Outcome(@, q.method, q.reply)]

(* A request that failed before it had an effect takes its ticket along; a *)
(* failed read says nothing of the operation.                              *)
LearnFailure(q, effect) ==
    IF q.tracked /\ effect = "not_started" /\ q.method \in Mutations
    THEN [ticket EXCEPT ![q.op] = Drop(@)] ELSE ticket

-------------------------------------------------------------------------------
(* slot.request's exits.                                                   *)
Fail(r, g, effect, pc) ==
    LET q == request[r]  e == SlotEpoch(g, q.epoch) IN
    /\ gate' = IF q.method = "query" THEN query_failed(g, q.op, e)
               ELSE IF q.tracked THEN failed(g, q.op, effect, e)
               ELSE g
    /\ request' = [request EXCEPT ![r] = IF pc = "orphan" THEN [@ EXCEPT !.pc = "orphan"] ELSE IdleRequest]
    /\ ticket' \in {ticket, LearnFailure(q, effect)}

Return(r) ==
    LET q == request[r]  e == SlotEpoch(gate, q.epoch)
        answer == [error |-> q.reply.error, state |-> q.reply.state, result |-> q.reply.result]
        told == IF q.op = NoOp \/ q.method = "release" THEN gate ELSE result(gate, q.op, answer, e)
    IN  /\ gate' = CASE q.method = "query" /\ answer.state = "approval_required" -> reconcile_prepared(told, q.op, e)
                     [] q.method \in {"session", "events"} ->
                            snapshot(told, answer.result, e, answer.result.execution)
                     [] q.method = "release" -> release(told, ticket[q.op].output, e)
                     [] OTHER -> told
        /\ request' = [request EXCEPT ![r] = IdleRequest]
        /\ ticket' \in {ticket, Learn(q)}
        /\ known' = IF q.method = "metadata" THEN known \cup {q.via} ELSE known

Receive(r) ==
    /\ request[r].pc = "back"
    /\ IF request[r].reply.raised # "none" THEN Fail(r, gate, request[r].reply.raised, "idle") /\ UNCHANGED known
       ELSE Return(r)
    /\ UNCHANGED <<worker, link, spent, restarts, effects>>

-------------------------------------------------------------------------------
(* slot._request: the slot lock, the connection, the epoch checks, bind.   *)
Unsent(r, g, effect) == request[r].pc = "queued" /\ Fail(r, g, effect, "idle")

(* Cancelled while it waits for admission, or for the slot lock.           *)
CancelQueued(r) ==
    /\ \E effect \in {"not_started", "unknown"} : Unsent(r, gate, effect)
    /\ UNCHANGED <<worker, link, known, spent, restarts, effects>>

Stale(r) == /\ request[r].epoch # NoEpoch
            /\ gate.current_epoch \notin {NoEpoch, request[r].epoch}

SendStale(r) ==
    /\ Stale(r)
    /\ Unsent(r, gate, "unknown")
    /\ link' = IF link = "broken" THEN "down" ELSE link
    /\ UNCHANGED <<worker, known, spent, restarts, effects>>

ConnectFails(r) ==
    /\ link # "up" /\ ~Stale(r)
    /\ Unsent(r, gate, "not_started")
    /\ link' = "down"
    /\ UNCHANGED <<worker, known, spent, restarts, effects>>

(* Mutant: whatever worker answers the connection is taken.                *)
NeverRefused(q, g) == FALSE

(* runtime_changed, and bind's ValueError.                                 *)
Refused(q, g) ==
    \/ q.epoch \notin {NoEpoch, g.current_epoch}
    \/ q.method \in Mutations /\ BindRaises(g, q.op, g.current_epoch)

(* With a connection that existed or was just made: refuse another epoch,  *)
(* bind, and either send or find the transport already retired.            *)
Send(r) ==
    LET q == request[r]
        g == IF link = "up" THEN gate ELSE connected(gate, epoch)
        now == g.current_epoch
        bound == IF q.method \in Mutations THEN bind(g, q.op, now) ELSE g
    IN  /\ ~Stale(r) /\ q.pc = "queued"
        /\ link' = "up"
        /\ IF Refused(q, g) THEN Fail(r, g, "unknown", "idle")
           ELSE \/ Fail(r, bound, "not_started", "idle")
                \/ /\ gate' = bound
                   /\ request' = [request EXCEPT ![r].pc = "out", ![r].via = now]
                   /\ UNCHANGED ticket
        /\ UNCHANGED <<worker, known, spent, restarts, effects>>

(* The connection breaks, the answer is late or lost, or the caller is     *)
(* cancelled: the worker may still handle what was sent.                   *)
Lose(r) ==
    /\ request[r].pc \in {"out", "back"}
    /\ Fail(r, gate, "unknown", IF request[r].pc = "out" /\ request[r].via = epoch THEN "orphan" ELSE "idle")
    /\ UNCHANGED <<worker, link, known, spent, restarts, effects>>

LinkBreaks ==
    /\ link = "up" /\ link' = "broken"
    /\ UNCHANGED <<gate, worker, request, ticket, known, spent, restarts, effects>>

-------------------------------------------------------------------------------
(* The worker handles a request that reached it.                           *)
Snap(x, status, session, named) ==
    [epoch |-> epoch, execution |-> IF named THEN x ELSE NoOp, session |-> session,
     output |-> Token(x, epoch), status |-> status]

(* Operation.snapshot, of the record as the handler leaves it.             *)
SessionOwner(o, entry) ==
    IF KindOf[o] = "control" THEN CHOOSE x \in W!Executions : sid'[x] = entry.session ELSE o

RecordReply(o, entry) ==
    [raised |-> "none", error |-> entry.error, state |-> entry.state,
     result |-> IF entry.result.status \in {"none", "accepted"}
                THEN [NoSnapshot EXCEPT !.epoch = epoch, !.status = entry.result.status]
                ELSE Snap(SessionOwner(o, entry), entry.result.status, entry.result.session, TRUE)]

Answer(r, reply) ==
    request' = [request EXCEPT ![r] =
        IF @.pc = "orphan" THEN IdleRequest ELSE [@ EXCEPT !.pc = "back", !.reply = reply]]

HandleRecorded(o, q) ==
    CASE q.method \in {"submit", "session"} ->
            W!SubmitFresh(o, q.session) \/ W!SubmitRejected(o, q.session) \/ W!SubmitKnown(o, q.session)
      [] q.method = "prepare" -> W!PrepareFresh(o) \/ W!PrepareKnown(o)
      [] q.method = "commit"  -> W!CommitKnown(o) \/ W!CommitExpired(o) \/ W!CommitAccepted(o)
      [] q.method = "query"   -> o \in W!Recorded /\ UNCHANGED worker
      [] OTHER                -> FALSE

HandleRaises(o, q) ==
    CASE q.method \in {"submit", "session"} -> W!SubmitRaises(o, q.session)
      [] q.method = "prepare" -> W!PrepareRaises(o)
      [] q.method = "commit"  -> W!CommitRaises(o)
      [] q.method = "query"   -> o \notin W!Recorded /\ UNCHANGED worker
      [] q.method = "release" -> o \in outputs /\ process[o] # "exited" /\ UNCHANGED worker
      [] OTHER                -> FALSE

Reached(r) == request[r].pc \in {"out", "orphan"} /\ request[r].via = epoch

Handle(r) ==
    LET q == request[r] IN
    /\ Reached(r)
    /\ \/ HandleRecorded(q.op, q) /\ Answer(r, RecordReply(q.op, journal'[q.op]))
       \/ HandleRaises(q.op, q) /\ Answer(r, Raise(IF q.method = "query" THEN "unknown" ELSE "not_started"))
    /\ UNCHANGED <<gate, link, ticket, known, spent, restarts, effects>>

(* events and observe: an event, the session's present state, or nothing.  *)
HandleEvents(r) ==
    /\ Reached(r) /\ request[r].method \in {"metadata", "events"}
    /\ \/ Answer(r, NoReply)
       \/ \E x \in {y \in outputs : request[r].method = "events"} :
            \/ /\ events[x].status # "none"
               /\ Answer(r, [NoReply EXCEPT !.result = Snap(x, events[x].status, sid[x], events[x].named)])
            \/ /\ sid[x] \in {task[x].result.session, journal[x].result.session}
               /\ Answer(r, [NoReply EXCEPT !.result =
                    Snap(x, IF process[x] = "exited" THEN "exited" ELSE "running", sid[x], x \in owned)])
    /\ UNCHANGED <<gate, worker, link, ticket, known, spent, restarts, effects>>

HandleRelease(r) ==
    LET o == request[r].op IN
    /\ Reached(r) /\ request[r].method = "release"
    /\ W!Release(o) \/ (o \notin outputs /\ UNCHANGED worker)
    /\ Answer(r, NoReply)
    /\ UNCHANGED <<gate, link, ticket, known, spent, restarts, effects>>

(* The worker's own steps.  An effect counts when it happens.              *)
Work(o) ==
    /\ W!Run(o)
    /\ effects' = [effects EXCEPT ![o] = @ + (starts'[o] - starts[o])]
    /\ UNCHANGED <<gate, link, request, ticket, known, spent, restarts>>

(* The worker process is replaced; what was sent to the old one is gone.   *)
WorkerRestart ==
    /\ W!Restart
    /\ request' = [r \in Requests |-> IF request[r].pc = "orphan" THEN IdleRequest ELSE request[r]]
    /\ UNCHANGED <<gate, link, ticket, known, spent, restarts, effects>>

-------------------------------------------------------------------------------
(* execution_records: what the shell side would tell a hub that forgot.    *)
HasRecord(o) ==
    LET t == ticket[o] IN
    /\ t.stage \notin {"new", "dropped"}
    /\ IF KindOf[o] = "control" THEN ~t.resolved
       ELSE t.output = NoOutput \/ (t.session # NoSession /\ ~t.ended) \/ HoldOutput

RecordState(o) ==
    LET t == ticket[o] IN
    IF KindOf[o] = "control" THEN "unknown"
    ELSE IF t.output # NoOutput /\ (t.session = NoSession \/ t.ended) THEN "delivery"
    ELSE IF t.session # NoSession /\ ~t.ended THEN "running" ELSE "unknown"

(* Mutant: an approval is restored as unsigned.                            *)
RecordsUnsigned == [o \in {x \in Ops : HasRecord(x)} |->
    [kind |-> KindOf[o], state |-> RecordState(o), unsigned |-> KindOf[o] \in Approved,
     hold |-> HoldOutput, epoch |-> ticket[o].epoch,
     session |-> ticket[o].session, output |-> ticket[o].output]]

execution_records == [o \in {x \in Ops : HasRecord(x)} |->
    [kind |-> KindOf[o], state |-> RecordState(o),
     unsigned |-> KindOf[o] \in Approved /\ ticket[o].stage # "signed",
     hold |-> HoldOutput, epoch |-> ticket[o].epoch,
     session |-> ticket[o].session, output |-> ticket[o].output]]

(* sync_target, before every submission.                                   *)
SyncTarget ==
    /\ gate' = restore(gate, execution_records)
    /\ UNCHANGED <<worker, link, request, ticket, known, spent, restarts, effects>>

(* The plugin is detached and attached again: _attach restores the records *)
(* before the new hub takes any request.  No approval survives.            *)
HubRestart ==
    /\ restarts < HubRestarts /\ restarts' = restarts + 1
    /\ gate' = restore(InitGate, execution_records)
    /\ link' = "down"
    /\ request' = [r \in Requests |->
          IF request[r].pc = "out" /\ request[r].via = epoch THEN [request[r] EXCEPT !.pc = "orphan"]
          ELSE IF request[r].pc = "orphan" THEN request[r] ELSE IdleRequest]
    /\ spent' = {o \in Ops : ticket[o].stage # "new"}
    /\ UNCHANGED <<worker, ticket, known, effects>>

-------------------------------------------------------------------------------
(* Idle requests and, within the bound, operations to make them for.       *)
Idle == {r \in Requests : request[r].pc = "idle"}
Used == {o \in Ops : ticket[o].stage # "new"}
Turn == IF Cardinality(Used) < MaxOps THEN Ops ELSE Used

Begin(r, o) ==
    BeginClaim(r, o) \/ BeginControl(r, o) \/ BeginCommit(r, o) \/ BeginQuery(r, o) \/ BeginRelease(r, o)

Progress(r) ==
    \/ CancelQueued(r) \/ SendStale(r) \/ ConnectFails(r) \/ Send(r) \/ Lose(r) \/ Receive(r)
    \/ Handle(r) \/ HandleEvents(r) \/ HandleRelease(r)

Next ==
    \/ \E r \in Idle : BeginMetadata(r) \/ BeginEvents(r) \/ \E o \in Turn : Begin(r, o)
    \/ \E r \in Requests \ Idle : Progress(r)
    \/ \E o \in Used : Approve(o) \/ CancelPrepared(o) \/ Work(o)
    \/ LinkBreaks \/ WorkerRestart \/ SyncTarget \/ HubRestart

Spec == Init /\ [][Next]_vars

-------------------------------------------------------------------------------
(* An operation has its effect at most once, in whichever worker: not      *)
(* again after a lost answer, a repeated submission, a signature sent      *)
(* twice, a new worker with an empty journal or a new hub.                 *)
AtMostOnce == \A o \in Ops : effects[o] <= 1

(* The gate lets go of an operation only when nothing can happen any more: *)
(* it never starts an effect after that.                                   *)
RetiredNeverStarts == [][\A o \in Ops :
    Retired(gate, o) => effects'[o] = effects[o]]_vars

(* What the gate says it knows is so: an operation in running or delivery  *)
(* names its own output, of its own worker, never one of a session of the  *)
(* same number; and while that worker lives, delivery means it has exited. *)
KnownIsReal == \A o \in Ops : LET item == gate.operations[o] IN
    (Phase(gate, o) \in Known) =>
        /\ item.output = Token(o, item.epoch) /\ effects[o] = 1
        /\ (Phase(gate, o) = "delivery" /\ item.epoch = epoch) => process[o] \in {"exited", "released"}

(* The gate lets go of an operation only when it is over: the worker has   *)
(* no unresolved record or live process of it and, when the output is held *)
(* for delivery, the output was released.                                  *)
RetiredIsSettled == \A o \in Ops : Retired(gate, o) =>
    /\ journal[o].state # "pending"
    /\ process[o] \in {"none", "released"} \/ (~HoldOutput /\ process[o] = "exited")

(* sign, restore: an operation the gate shows as unsigned, which a user    *)
(* may cancel as not started, has had no effect.                           *)
UnsignedHasNoEffect == \A o \in Ops : Phase(gate, o) \in Unsigned => effects[o] = 0

(* The session lock and the busy check: the worker never has two           *)
(* unresolved mutations of a session, whatever answers were lost, unless   *)
(* one of them terminates it.                                              *)
OneMutationPerSession == \A c, d \in W!Controls :
    (/\ c # d /\ journal[c].session = journal[d].session
     /\ "terminate" \notin {ActionOf[c], ActionOf[d]})
        => "pending" \notin {journal[c].state} \cap {journal[d].state}

(* claim, sign, failed: an operation of the connected worker that is shown *)
(* as being submitted or signed has its request in flight; when the request*)
(* ends, in whatever way, the phase moves on.                              *)
CurrentIsInFlight == \A o \in Ops :
    (/\ Phase(gate, o) \in {"submitting", "preparing", "signing"}
     /\ gate.current_epoch \in {NoEpoch, gate.operations[o].epoch}) => InFlight(o)

(* The same of every worker: submitting means that an ordinary request is  *)
(* being submitted (docs/remote-state-machine.md).                         *)
SubmittingIsInFlight == \A o \in Ops : Phase(gate, o) = "submitting" => InFlight(o)
===============================================================================
