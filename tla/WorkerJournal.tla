---------------------------- MODULE WorkerJournal ----------------------------
(***************************************************************************)
(* The remote worker (pal_shell_worker/worker.py, with the Linux path of   *)
(* privilege.py): its operation journal, the tasks that execute recorded   *)
(* operations, the native sessions and outputs they own, the completion    *)
(* events, the output reservations and the draining flag.  One event loop: *)
(* a step is what one handler, task or callback does between two awaits.   *)
(* Everything is memory, so a new worker process starts a new epoch empty. *)
(*                                                                         *)
(* A control operation acts on the session of an execution; its result is  *)
(* the session's snapshot.  A snapshot is frozen when native code takes    *)
(* it, and reaches the journal only when the waiting task resumes: other   *)
(* callbacks, the session's completion among them, run in between.         *)
(***************************************************************************)
EXTENDS Naturals, FiniteSets

CONSTANTS Ops,            \* operation identities
          KindOf,         \* execution, control, privileged or shutdown
          ActionOf,       \* what a control does: write, watch, unwatch, terminate
          MaxEpoch,       \* bound: worker processes
          JournalLimit,   \* config.operation_limit
          OutputSlots     \* config.retained_limit \div config.output_limit

VARIABLES epoch,          \* which worker process this is
          journal,        \* operations: the record of each operation
          task,           \* the executing task of each operation
          process,        \* the native session of each operation
          sid,            \* its session id
          armed,          \* sessions with a watch timer
          owned,          \* native_owners: sessions whose operation is recorded
          outputs,        \* outputs/native_outputs: outputs with a token
          events,         \* the latest event of each session
          reservations,
          draining,
          starts          \* effects each operation had in this process

native == <<process, sid, armed>>
views  == <<owned, outputs, events>>
vars   == <<epoch, journal, task, native, views, reservations, draining, starts>>

Executions == {o \in Ops : KindOf[o] \in {"execution", "privileged"}}
Controls   == {o \in Ops : KindOf[o] = "control"}
Signed     == {o \in Ops : KindOf[o] \in {"privileged", "shutdown"}}

(* A frozen snapshot: the status, and the session it names (0 when the     *)
(* process ended before it became a session).                              *)
Nothing == [status |-> "none", session |-> 0]
Absent  == [state |-> "none", error |-> "none", session |-> 0, result |-> Nothing]

Idle == [stage |-> "none", result |-> Nothing]

NoEvent == [status |-> "none", named |-> FALSE]

Init ==
    /\ epoch = 1
    /\ journal = [o \in Ops |-> Absent]
    /\ task = [o \in Ops |-> Idle]
    /\ process = [o \in Ops |-> "none"] /\ sid = [o \in Ops |-> 0] /\ armed = {}
    /\ owned = {} /\ outputs = {} /\ events = [o \in Ops |-> NoEvent]
    /\ reservations = {} /\ draining = FALSE
    /\ starts = [o \in Ops |-> 0]

(* The worker process ends and another one takes over the endpoint.        *)
Restart ==
    /\ epoch < MaxEpoch /\ epoch' = epoch + 1
    /\ journal' = [o \in Ops |-> Absent]
    /\ task' = [o \in Ops |-> Idle]
    /\ process' = [o \in Ops |-> "none"] /\ sid' = [o \in Ops |-> 0] /\ armed' = {}
    /\ owned' = {} /\ outputs' = {} /\ events' = [o \in Ops |-> NoEvent]
    /\ reservations' = {} /\ draining' = FALSE
    /\ starts' = [o \in Ops |-> 0]

-------------------------------------------------------------------------------
Recorded == {o \in Ops : journal[o].state # "none"}

(* native_outputs: the execution whose session the worker knows by id s.   *)
InSession(s) == {x \in outputs : sid[x] = s}

Finish(o, result)      == journal' = [journal EXCEPT ![o].state = "complete", ![o].result = result]
FinishError(o, effect) == journal' = [journal EXCEPT ![o].state = "failed", ![o].error = effect]

(* Mutant: one output too many.                                            *)
FullLate(o) == o \in Executions /\ Cardinality(reservations) > OutputSlots

Full(o) == o \in Executions /\ Cardinality(reservations) + 1 > OutputSlots

Schedule(o) ==
    /\ task' = [task EXCEPT ![o].stage = "scheduled"]
    /\ reservations' = reservations \cup ({o} \cap Executions)

(* submit and session, once the arguments are valid and, for a control,    *)
(* its session exists: record the operation, and execute it if it is new.  *)
SubmitGuard(o, s) ==
    \/ o \in Executions \ Signed /\ s = 0
    \/ o \in Controls /\ InSession(s) # {}

(* Mutant: a resolved operation is executed again.                         *)
SubmitAgain(o, s) ==
    /\ SubmitGuard(o, s) /\ journal[o].state # "pending"
    /\ ~draining /\ ~Full(o)
    /\ journal' = [journal EXCEPT ![o].state = "pending", ![o].session = s]
    /\ Schedule(o)
    /\ UNCHANGED <<epoch, native, views, draining, starts>>

SubmitFresh(o, s) ==
    /\ SubmitGuard(o, s) /\ o \notin Recorded
    /\ Cardinality(Recorded) < JournalLimit
    /\ ~draining /\ ~Full(o)
    /\ journal' = [journal EXCEPT ![o].state = "pending", ![o].session = s]
    /\ Schedule(o)
    /\ UNCHANGED <<epoch, native, views, draining, starts>>

SubmitRejected(o, s) ==
    /\ SubmitGuard(o, s) /\ o \notin Recorded
    /\ Cardinality(Recorded) < JournalLimit
    /\ draining \/ Full(o)
    /\ FinishError(o, "not_started")
    /\ UNCHANGED <<epoch, task, native, views, reservations, draining, starts>>

SubmitKnown(o, s) ==
    /\ SubmitGuard(o, s) /\ o \in Recorded
    /\ UNCHANGED vars

(* operation_capacity, invalid_session: raised, nothing recorded.          *)
SubmitRaises(o, s) ==
    /\ o \notin Signed
    /\ \/ SubmitGuard(o, s) /\ o \notin Recorded /\ Cardinality(Recorded) >= JournalLimit
       \/ o \in Controls /\ InSession(s) = {}
    /\ UNCHANGED vars

(* prepare_privileged: record the request and wait for a signature.        *)
PrepareFresh(o) ==
    /\ o \in Signed \ Recorded /\ Cardinality(Recorded) < JournalLimit
    /\ journal' = [journal EXCEPT ![o].state = "approval_required"]
    /\ UNCHANGED <<epoch, task, native, views, reservations, draining, starts>>

PrepareKnown(o) == o \in Signed \cap Recorded /\ UNCHANGED vars

(* The request is not supported or not ready, or the journal is full.      *)
PrepareRaises(o) == o \in Signed /\ UNCHANGED vars

(* commit_privileged: a consumed grant cannot repeat its effect.           *)
CommitKnown(o) ==
    /\ o \in Signed \cap Recorded /\ journal[o].state # "approval_required"
    /\ UNCHANGED vars

CommitExpired(o) ==
    /\ o \in Signed /\ journal[o].state = "approval_required"
    /\ FinishError(o, "not_started")
    /\ UNCHANGED <<epoch, task, native, views, reservations, draining, starts>>

CommitAccepted(o) ==
    /\ o \in Signed /\ journal[o].state = "approval_required"
    /\ ~draining /\ ~Full(o)
    /\ journal' = [journal EXCEPT ![o].state = "pending"]
    /\ Schedule(o)
    /\ UNCHANGED <<epoch, native, views, draining, starts>>

(* No preparation, a rejected signature, draining, no room for its output. *)
CommitRaises(o) == o \in Signed /\ journal[o].state \in {"none", "approval_required"} /\ UNCHANGED vars

-------------------------------------------------------------------------------
(* _execute and execute_privileged: the task of a recorded operation.      *)
Stage(o, stage) == task[o].stage = stage

Started(o) == starts' = [starts EXCEPT ![o] = @ + 1]

Resolve(o, status, session) ==
    task' = [task EXCEPT ![o] = [stage |-> "resolved",
                                 result |-> [status |-> status, session |-> session]]]

(* Native code starts the process under the next session id.               *)
StartProcess(o) ==
    /\ o \in Executions /\ Stage(o, "scheduled")
    /\ process' = [process EXCEPT ![o] = "running"]
    /\ sid' = [sid EXCEPT ![o] = 1 + Cardinality({x \in Ops : sid[x] # 0})]
    /\ task' = [task EXCEPT ![o].stage = "started"]
    /\ Started(o)
    /\ UNCHANGED <<epoch, journal, armed, views, reservations, draining>>

(* Native code acts on a session and answers with its snapshot.            *)
RunControl(c) ==
    /\ c \in Controls /\ Stage(c, "scheduled")
    /\ \E x \in Executions :
        /\ sid[x] = journal[c].session
        /\ process[x] \in (IF ActionOf[c] \in {"write", "watch"} THEN {"exposed"}
                           ELSE {"exposed", "exited"})
        /\ armed' = CASE ActionOf[c] = "watch"                    -> armed \cup {x}
                      [] ActionOf[c] \in {"unwatch", "terminate"} -> armed \ {x}
                      [] OTHER                                    -> armed
        /\ Resolve(c, IF ActionOf[c] = "write" THEN "other"
                      ELSE IF process[x] = "exited" THEN "exited"
                      ELSE "running", sid[x])
    /\ Started(c)
    /\ UNCHANGED <<epoch, journal, process, sid, views, reservations, draining>>

(* Native code rejects the command or the action: a RemoteError that       *)
(* returns the reservation.                                                *)
NativeRejects(o) ==
    /\ KindOf[o] # "shutdown" /\ Stage(o, "scheduled")
    /\ FinishError(o, "not_started")
    /\ task' = [task EXCEPT ![o] = Idle]
    /\ reservations' = reservations \ {o}
    /\ UNCHANGED <<epoch, native, views, draining, starts>>

(* The initial wait ends first: the command becomes a session.             *)
Expose(o) ==
    /\ process[o] = "running" /\ Stage(o, "started")
    /\ process' = [process EXCEPT ![o] = "exposed"]
    /\ Resolve(o, "running", sid[o])
    /\ UNCHANGED <<epoch, journal, sid, armed, views, reservations, draining, starts>>

(* _deliver of an unsolicited snapshot: it replaces the session's event,   *)
(* and names its operation only if the worker already knows the owner.     *)
Deliver(o, status) ==
    /\ events' = [events EXCEPT ![o] = [status |-> status, named |-> o \in owned]]
    /\ outputs' = outputs \cup {o}

(* The process ends: the initial answer if it still waits, else an event.  *)
ExitForeground(o) ==
    /\ process[o] = "running" /\ Stage(o, "started")
    /\ process' = [process EXCEPT ![o] = "exited"]
    /\ Resolve(o, "exited", 0)
    /\ UNCHANGED <<epoch, journal, sid, armed, views, reservations, draining, starts>>

ExitSession(o) ==
    /\ process[o] = "exposed"
    /\ process' = [process EXCEPT ![o] = "exited"]
    /\ armed' = armed \ {o}
    /\ Deliver(o, "exited")
    /\ UNCHANGED <<epoch, journal, task, sid, owned, reservations, draining, starts>>

WatchExpires(o) ==
    /\ process[o] = "exposed" /\ o \in armed
    /\ armed' = armed \ {o}
    /\ Deliver(o, "running")
    /\ UNCHANGED <<epoch, journal, task, process, sid, owned, reservations, draining, starts>>

(* Mutant: an event queued before the owner was known stays anonymous.     *)
ResumeAnonymous(o) ==
    /\ o \in Executions /\ Stage(o, "resolved")
    /\ owned' = owned \cup {o} /\ outputs' = outputs \cup {o}
    /\ Finish(o, task[o].result)
    /\ task' = [task EXCEPT ![o] = Idle]
    /\ UNCHANGED <<epoch, native, events, reservations, draining, starts>>

(* The task resumes with the answer: register the owner, name the event    *)
(* that may have been queued meanwhile, finish the record.                 *)
ResumeProcess(o) ==
    /\ o \in Executions /\ Stage(o, "resolved")
    /\ owned' = owned \cup {o} /\ outputs' = outputs \cup {o}
    /\ events' = [events EXCEPT ![o].named = @ \/ events[o].status # "none"]
    /\ Finish(o, task[o].result)
    /\ task' = [task EXCEPT ![o] = Idle]
    /\ UNCHANGED <<epoch, native, reservations, draining, starts>>

(* watch and unwatch drop the event of the session they answered for.      *)
ResumeControl(c) ==
    /\ c \in Controls /\ Stage(c, "resolved")
    /\ events' = [x \in Ops |-> IF sid[x] = journal[c].session /\ ActionOf[c] \in {"watch", "unwatch"}
                                THEN NoEvent ELSE events[x]]
    /\ Finish(c, task[c].result)
    /\ task' = [task EXCEPT ![c] = Idle]
    /\ UNCHANGED <<epoch, native, owned, outputs, reservations, draining, starts>>

-------------------------------------------------------------------------------
(* Mutant: an operation that is still executing does not count.            *)
BusyWithOutputs(o) == reservations # {} \/ outputs # {}

(* Shutdown: admission and the busy check have no intervening await.       *)
Busy(o) == reservations # {} \/ outputs # {} \/ \E x \in Ops \ {o} : journal[x].state = "pending"

(* The worker is busy, or the launcher of the helper cannot start.         *)
ShutdownRefused(o) ==
    /\ KindOf[o] = "shutdown"
    /\ (Stage(o, "scheduled") /\ Busy(o)) \/ Stage(o, "started")
    /\ FinishError(o, "not_started")
    /\ task' = [task EXCEPT ![o] = Idle]
    /\ draining' = FALSE
    /\ UNCHANGED <<epoch, native, views, reservations, starts>>

ShutdownStarts(o) ==
    /\ KindOf[o] = "shutdown" /\ Stage(o, "scheduled") /\ ~Busy(o)
    /\ draining' = TRUE
    /\ task' = [task EXCEPT ![o].stage = "started"]
    /\ UNCHANGED <<epoch, journal, native, views, reservations, starts>>

ShutdownLaunches(o) ==
    /\ KindOf[o] = "shutdown" /\ Stage(o, "started")
    /\ task' = [task EXCEPT ![o].stage = "launched"]
    /\ Started(o)
    /\ UNCHANGED <<epoch, journal, native, views, reservations, draining>>

ShutdownAccepted(o) ==
    /\ KindOf[o] = "shutdown" /\ Stage(o, "launched")
    /\ Finish(o, [status |-> "accepted", session |-> 0])
    /\ task' = [task EXCEPT ![o] = Idle]
    /\ UNCHANGED <<epoch, native, views, reservations, draining, starts>>

(* Mutant: the failed helper leaves its record unresolved.                 *)
ShutdownForgotten(o) ==
    /\ KindOf[o] = "shutdown" /\ Stage(o, "launched")
    /\ task' = [task EXCEPT ![o] = Idle]
    /\ draining' = FALSE
    /\ UNCHANGED <<epoch, journal, native, views, reservations, starts>>

ShutdownFails(o) ==
    /\ KindOf[o] = "shutdown" /\ Stage(o, "launched")
    /\ FinishError(o, "unknown")
    /\ task' = [task EXCEPT ![o] = Idle]
    /\ draining' = FALSE
    /\ UNCHANGED <<epoch, native, views, reservations, starts>>

(* release: native code gives the output up, then the worker forgets it.   *)
(* Answers come back in the order native code gave them, so those of the   *)
(* session resume before this one.                                         *)
Release(o) ==
    /\ o \in outputs /\ process[o] = "exited" /\ ~Stage(o, "resolved")
    /\ \A c \in Controls : Stage(c, "resolved") => journal[c].session # sid[o]
    /\ process' = [process EXCEPT ![o] = "released"]
    /\ owned' = owned \ {o} /\ outputs' = outputs \ {o}
    /\ events' = [events EXCEPT ![o] = NoEvent]
    /\ reservations' = IF o \in owned THEN reservations \ {o} ELSE reservations
    /\ UNCHANGED <<epoch, journal, task, sid, armed, draining, starts>>

-------------------------------------------------------------------------------
(* Requests, tasks and native callbacks in any order.                      *)
Handle(o) ==
    \/ \E s \in 0..Cardinality(Ops) :
        SubmitFresh(o, s) \/ SubmitRejected(o, s) \/ SubmitKnown(o, s) \/ SubmitRaises(o, s)
    \/ PrepareFresh(o) \/ PrepareKnown(o) \/ PrepareRaises(o)
    \/ CommitKnown(o) \/ CommitExpired(o) \/ CommitAccepted(o) \/ CommitRaises(o)
    \/ Release(o)

Run(o) ==
    \/ StartProcess(o) \/ RunControl(o) \/ NativeRejects(o)
    \/ Expose(o) \/ ExitForeground(o) \/ ExitSession(o) \/ WatchExpires(o)
    \/ ResumeProcess(o) \/ ResumeControl(o)
    \/ ShutdownRefused(o) \/ ShutdownStarts(o) \/ ShutdownLaunches(o)
    \/ ShutdownAccepted(o) \/ ShutdownFails(o)

Next == Restart \/ \E o \in Ops : Handle(o) \/ Run(o)

Spec == Init /\ [][Next]_vars

(* The event loop runs every scheduled task, native code answers every     *)
(* call, and the initial wait is a timer; nothing is assumed of requests,  *)
(* or of how long a process or the shutdown helper runs.                   *)
Fairness == \A o \in Ops :
    /\ WF_vars(StartProcess(o) \/ RunControl(o) \/ NativeRejects(o))
    /\ WF_vars(Expose(o) \/ ExitForeground(o))
    /\ WF_vars(ResumeProcess(o) \/ ResumeControl(o))
    /\ WF_vars(ShutdownRefused(o) \/ ShutdownStarts(o) \/ ShutdownLaunches(o))

FairSpec == Spec /\ Fairness

-------------------------------------------------------------------------------
(* _record, commit_privileged: however often a request is repeated, a      *)
(* worker process executes an operation at most once, and an operation     *)
(* whose record says not_started never had an effect.                      *)
ExecutesOnce == \A o \in Ops :
    starts[o] <= 1 /\ (journal[o].error = "not_started" => starts[o] = 0)

(* reservations: every process and every retained output holds one of the  *)
(* slots of the retained limit, from before the process starts until the   *)
(* output is released.                                                     *)
OutputsReserved ==
    /\ Cardinality(reservations) <= OutputSlots
    /\ \A o \in Executions :
        process[o] \in {"running", "exposed", "exited"} \/ o \in outputs => o \in reservations

(* _execute: once the owner of a session is recorded its event names the   *)
(* operation, even when the completion was queued before the owner was; an *)
(* event without a name would hold back every later one of the target.     *)
EventsNamed == \A o \in owned : events[o].status # "none" => events[o].named

(* execute_privileged: while the shutdown helper runs nothing else does:   *)
(* no process, no unresolved operation, no output left to deliver.         *)
ShutdownAlone == \A s \in Ops :
    (KindOf[s] = "shutdown" /\ task[s].stage \in {"started", "launched"}) =>
    /\ draining /\ outputs = {}
    /\ \A o \in Ops \ {s} : journal[o].state # "pending" /\ process[o] \notin {"running", "exposed"}

(* _execute, _deliver: the end of a session is in its event, or some       *)
(* control already answered with it.                                       *)
CompletionKept == \A o \in owned :
    (process[o] = "exited" /\ journal[o].result.status = "running") =>
        \/ events[o].status = "exited"
        \/ \E c \in Controls : "exited" \in {journal[c].result.status, task[c].result.status}

(* query: every recorded operation is resolved, and its caller answered,   *)
(* however long its process runs, unless the worker process ends; only the *)
(* answer to a shutdown waits for the helper, which has no deadline.       *)
PendingResolves == \A o \in Ops :
    journal[o].state = "pending" ~> (journal[o].state # "pending" \/ Stage(o, "launched"))
===============================================================================
