---------------------------- MODULE NativeRuntime ----------------------------
(***************************************************************************)
(* The native shell runtime (runtime.cpp, session_lifecycle.h).  One       *)
(* reactor thread owns every session: posted commands, timers, pipe reads  *)
(* and the exits a waiter thread reports run one at a time, in any order.  *)
(* Answers and events are counted when they are emitted.                   *)
(*                                                                         *)
(* Times are relative: a deadline, a wake-up or a timer is what is left of *)
(* it, and a timer that is due may be served late, after commands that     *)
(* were posted later.                                                      *)
(***************************************************************************)
EXTENDS Integers, Sequences, FiniteSets

CONSTANTS Ids,         \* sessions; each is also the request that runs it
          Reads,       \* requests that read a session
          NoId,        \* neither of them
          Capacity,    \* completed_capacity
          Waits,       \* the waits requests ask for
          Budgets,     \* the timeouts they ask for; Never is none
          MaxBudget,   \* bound: what a deadline may be extended to
          MaxWatches   \* bound: changes of the watch of a session

ASSUME CapacityAssumption == Capacity \in Nat \ {0}
ASSUME NoIdAssumption == NoId \notin Ids \cup Reads

VARIABLES session,     \* the sessions, with their lifecycle and their timers
          completed,   \* the finished ones that are retained, in order
          stopping, ended,
          reading,     \* the session each read was made of
          replies,     \* answers to each request
          terminals    \* terminal events of each session

vars == <<session, completed, stopping, ended, reading, replies, terminals>>

Never     == -1
KillAfter == 1
Requests  == Ids \cup Reads

Timer(kind, left, request, generation) ==
    [kind |-> kind, left |-> left, request |-> request, generation |-> generation]

(* stage: live from spawn until the leader has exited and its pipes are    *)
(* closed, settled until the flow has delivered the result, finished.      *)
New == [stage |-> "none", held |-> FALSE, exposed |-> FALSE, exit_seen |-> FALSE, pipe |-> FALSE,
        killed |-> FALSE, reason |-> "none", error |-> FALSE, deadline |-> Never, wake |-> Never,
        generation |-> 0, watching |-> TRUE, stopped |-> FALSE, delivered |-> FALSE,
        result_delivered |-> FALSE, timers |-> {}]

Init ==
    /\ session = [s \in Ids |-> New]
    /\ completed = << >> /\ stopping = FALSE /\ ended = FALSE
    /\ reading = [r \in Reads |-> NoId]
    /\ replies = [r \in Requests |-> 0] /\ terminals = [s \in Ids |-> 0]

-------------------------------------------------------------------------------
Held == {s \in Ids : session[s].held}

Without(x, kind) == [x EXCEPT !.timers = {t \in @ : t.kind # kind}]
With(x, timer)   == [x EXCEPT !.timers = @ \cup {timer}]

(* sessions.erase: what remains is that it finished, and how.              *)
Erased(x) == [New EXCEPT !.stage = x.stage, !.exposed = x.exposed]

Set(s, x) == session' = [session EXCEPT ![s] = x]

Emit(requests) == replies' = [r \in Requests |-> replies[r] + IF r \in requests THEN 1 ELSE 0]

(* SessionLifecycle.stop.                                                  *)
Stopped(x) == [x EXCEPT !.stopped = TRUE, !.wake = Never]

(* Mutant: a session that is told to stop is not killed if it does not.    *)
StopMildly(x, why) ==
    IF x.stage # "live" THEN x
    ELSE Without([Stopped(x) EXCEPT !.reason = IF @ = "none" THEN why ELSE @], "watch")

(* request_stop: SIGTERM now, SIGKILL if that does not help.               *)
request_stop(x, why) ==
    IF x.stage # "live" THEN x
    ELSE With(Without([Stopped(x) EXCEPT !.reason = IF @ = "none" THEN why ELSE @], "watch"),
              Timer("kill", KillAfter, NoId, x.generation))

(* settle: the leader has exited and nobody can write any more.            *)
settle(x) == IF x.stage = "live" /\ x.exit_seen /\ ~x.pipe THEN [x EXCEPT !.stage = "settled"] ELSE x

(* Mutant: the old deadline timer is left armed.                           *)
ResetKeeping(x) ==
    IF x.deadline = Never THEN x ELSE With(x, Timer("deadline", x.deadline, NoId, x.generation))

reset_deadline(x) ==
    IF x.deadline = Never THEN Without(x, "deadline")
    ELSE With(Without(x, "deadline"), Timer("deadline", x.deadline, NoId, x.generation))

-------------------------------------------------------------------------------
(* begin: a result slot first, evicting the oldest delivered result if     *)
(* need be; then the process, with its wait and its deadline.              *)
Evictable == {i \in 1..Len(completed) : session[completed[i]].result_delivered}

Drop(i) == SubSeq(completed, 1, i - 1) \o SubSeq(completed, i + 1, Len(completed))

(* Mutant: only finished sessions take up a slot.                          *)
MakeRoomLate(s, x) ==
    \/ Len(completed) < Capacity /\ UNCHANGED completed /\ Set(s, x)
    \/ /\ Len(completed) >= Capacity
       /\ \E i \in Evictable :
            /\ \A j \in Evictable : i <= j
            /\ completed' = Drop(i)
            /\ session' = [session EXCEPT ![completed[i]] = Erased(@), ![s] = x]


MakeRoom(s, x) ==
    \/ Cardinality(Held) < Capacity /\ UNCHANGED completed /\ Set(s, x)
    \/ /\ Cardinality(Held) >= Capacity
       /\ \E i \in Evictable :
            /\ \A j \in Evictable : i <= j
            /\ completed' = Drop(i)
            /\ session' = [session EXCEPT ![completed[i]] = Erased(@), ![s] = x]

begin(s) == \E wait \in Waits, budget \in Budgets, pipe \in BOOLEAN :
    /\ ~stopping /\ session[s].stage = "none"
    /\ MakeRoom(s, reset_deadline([New EXCEPT !.stage = "live", !.held = TRUE, !.pipe = pipe,
                      !.deadline = budget, !.timers = {Timer("wait", wait, s, 0)}]))
    /\ UNCHANGED <<stopping, ended, reading, replies, terminals>>

(* The process cannot be created: the flow ends without it.                *)
SpawnFails(s) ==
    /\ ~stopping /\ session[s].stage = "none"
    /\ MakeRoom(s, [New EXCEPT !.stage = "settled", !.held = TRUE, !.error = TRUE])
    /\ UNCHANGED <<stopping, ended, reading, replies, terminals>>

-------------------------------------------------------------------------------
(* The waiter thread reports the leader's exit; the rest of the group is   *)
(* killed.  The pipes close before or after that.                          *)
ExitSeen(s) ==
    /\ session[s].stage = "live" /\ ~session[s].exit_seen
    /\ Set(s, settle([session[s] EXCEPT !.exit_seen = TRUE]))
    /\ UNCHANGED <<completed, stopping, ended, reading, replies, terminals>>

PipeCloses(s) ==
    /\ session[s].stage = "live" /\ session[s].pipe
    /\ Set(s, settle([session[s] EXCEPT !.pipe = FALSE]))
    /\ UNCHANGED <<completed, stopping, ended, reading, replies, terminals>>

(* The output limit, or a failing file, pipe or terminal.                  *)
OutputFails(s) ==
    /\ session[s].stage = "live" /\ session[s].pipe /\ ~session[s].error
    /\ Set(s, request_stop([session[s] EXCEPT !.error = TRUE], "cancelled"))
    /\ UNCHANGED <<completed, stopping, ended, reading, replies, terminals>>

(* maybe_shutdown, once every retained session is finished.                *)
Finished(sessions) == \A s \in Ids : sessions[s].held => sessions[s].stage = "finished"

Shutdown(sessions, done) ==
    IF stopping' /\ Finished(sessions)
    THEN /\ session' = [s \in Ids |-> IF sessions[s].held THEN Erased(sessions[s]) ELSE sessions[s]]
         /\ completed' = << >> /\ ended' = TRUE
    ELSE session' = sessions /\ completed' = done /\ UNCHANGED ended

(* Mutant: the initial request is answered again.                          *)
AnsweredAgain(s) == {t.request : t \in {u \in session[s].timers : u.kind = "wait"}} \cup {s}

(* Every wait is answered with the end; the initial one if it was not yet. *)
Answered(s) == {t.request : t \in {u \in session[s].timers : u.kind = "wait"}}
               \cup IF session[s].exposed THEN {} ELSE {s}

FinishedSession(s) ==
    [Stopped(session[s]) EXCEPT !.stage = "finished", !.timers = {},
        !.result_delivered = @ \/ ~session[s].watching]

(* complete, when the flow delivers the settled result.                    *)
complete(s) ==
    /\ session[s].stage = "settled"
    /\ Emit(Answered(s))
    /\ terminals' = [terminals EXCEPT ![s] = @ + IF session[s].exposed THEN 1 ELSE 0]
    /\ UNCHANGED <<stopping, reading>>
    /\ Shutdown([session EXCEPT ![s] = FinishedSession(s)], Append(completed, s))

-------------------------------------------------------------------------------
(* Timers.  Time passes whether or not a timer that is due was served.     *)
Less(time) == IF time > 0 THEN time - 1 ELSE time

Tick ==
    /\ \E s \in Ids : \E t \in session[s].timers : t.left > 0
    /\ session' = [s \in Ids |-> [session[s] EXCEPT !.deadline = Less(@), !.wake = Less(@),
          !.timers = {[t EXCEPT !.left = Less(@)] : t \in session[s].timers}]]
    /\ UNCHANGED <<completed, stopping, ended, reading, replies, terminals>>

Due(s, kind) == {t \in session[s].timers : t.kind = kind /\ t.left = 0}

(* A wait is over: its request is answered, and the initial one makes the  *)
(* command a session.                                                      *)
WaitFires(s) == \E t \in Due(s, "wait") :
    /\ Set(s, [session[s] EXCEPT !.timers = @ \ {t}, !.exposed = @ \/ t.request = s])
    /\ Emit({t.request})
    /\ UNCHANGED <<completed, stopping, ended, reading, terminals>>

(* SessionLifecycle.fire.                                                  *)
fire(x, generation) ==
    /\ ~x.stopped /\ x.watching /\ generation = x.generation
    /\ x.wake = 0 /\ x.deadline # 0

WatchFires(s) == \E t \in Due(s, "watch") :
    LET x == [session[s] EXCEPT !.timers = @ \ {t}] IN
    /\ Set(s, IF ~x.exit_seen /\ fire(x, t.generation) THEN [x EXCEPT !.wake = Never] ELSE x)
    /\ UNCHANGED <<completed, stopping, ended, reading, replies, terminals>>

DeadlineFires(s) == \E t \in Due(s, "deadline") :
    /\ Set(s, request_stop([session[s] EXCEPT !.timers = @ \ {t}], "timed_out"))
    /\ UNCHANGED <<completed, stopping, ended, reading, replies, terminals>>

KillFires(s) == \E t \in Due(s, "kill") :
    /\ Set(s, [session[s] EXCEPT !.timers = @ \ {t}, !.killed = @ \/ session[s].stage = "live"])
    /\ UNCHANGED <<completed, stopping, ended, reading, replies, terminals>>

-------------------------------------------------------------------------------
(* Commands.  One that throws is answered as rejected and changes nothing. *)
Lookup(s) == ~stopping /\ session[s].held /\ session[s].exposed

Read(r, s) == \E wait \in Waits :
    /\ Lookup(s) /\ reading[r] = NoId
    /\ reading' = [reading EXCEPT ![r] = s]
    /\ IF session[s].stage = "finished" THEN Emit({r}) /\ UNCHANGED session
       ELSE Set(s, With(session[s], Timer("wait", wait, r, 0))) /\ UNCHANGED replies
    /\ UNCHANGED <<completed, stopping, ended, terminals>>

Running(x) == ~x.exit_seen /\ ~x.stopped /\ x.deadline # 0

(* Mutant: the deadline has passed, and is extended all the same.          *)
ExtendLate(x, delta) ==
    /\ ~x.exit_seen /\ ~x.stopped
    /\ x.deadline # Never /\ x.deadline + delta <= MaxBudget

CanExtend(x, delta) ==
    Running(x) /\ x.deadline # Never /\ x.deadline + delta <= MaxBudget

Extended(x, delta) == reset_deadline([x EXCEPT !.deadline = @ + delta])

Extend(s) == \E delta \in Waits \ {0} :
    /\ Lookup(s) /\ CanExtend(session[s], delta)
    /\ Set(s, Extended(session[s], delta))
    /\ UNCHANGED <<completed, stopping, ended, reading, replies, terminals>>

Watched(x, wait) ==
    With(Without([x EXCEPT !.watching = TRUE, !.wake = wait, !.generation = @ + 1], "watch"),
         Timer("watch", wait, NoId, x.generation + 1))

Watch(s) == \E wait \in Waits \ {0}, delta \in Waits :
    /\ Lookup(s) /\ Running(session[s]) /\ session[s].generation < MaxWatches
    /\ delta > 0 => CanExtend(session[s], delta)
    /\ Set(s, Watched(IF delta > 0 THEN Extended(session[s], delta) ELSE session[s], wait))
    /\ UNCHANGED <<completed, stopping, ended, reading, replies, terminals>>

Unwatch(s) ==
    /\ Lookup(s) /\ session[s].generation < MaxWatches
    /\ Set(s, Without([session[s] EXCEPT !.watching = FALSE, !.wake = Never, !.generation = @ + 1,
                  !.result_delivered = @ \/ session[s].stage = "finished"], "watch"))
    /\ UNCHANGED <<completed, stopping, ended, reading, replies, terminals>>

Terminate(s) ==
    /\ Lookup(s)
    /\ Set(s, request_stop(session[s], "cancelled"))
    /\ UNCHANGED <<completed, stopping, ended, reading, replies, terminals>>

Remaining(s) == SelectSeq(completed, LAMBDA x : x # s)

(* release of a session, and release_output also of one that finished      *)
(* before it was exposed.                                                  *)
Release(s) ==
    /\ ~stopping /\ session[s].held /\ session[s].stage = "finished"
    /\ Set(s, Erased(session[s]))
    /\ completed' = Remaining(s)
    /\ UNCHANGED <<stopping, ended, reading, replies, terminals>>

Acknowledge(s) == \E terminal \in BOOLEAN :
    /\ Lookup(s)
    /\ Set(s, [session[s] EXCEPT !.delivered = TRUE,
                  !.result_delivered = @ \/ (terminal /\ session[s].stage = "finished")])
    /\ UNCHANGED <<completed, stopping, ended, reading, replies, terminals>>

(* cancel_request of a run that was not handed over yet, and of a read.    *)
CancelRun(s) ==
    /\ ~stopping /\ session[s].held /\ ~session[s].delivered
    /\ Set(s, request_stop(session[s], "cancelled"))
    /\ UNCHANGED <<completed, stopping, ended, reading, replies, terminals>>

CancelRead(r) ==
    /\ ~stopping /\ reading[r] # NoId /\ session[reading[r]].held
    /\ \E t \in session[reading[r]].timers :
        /\ t.kind = "wait" /\ t.request = r
        /\ Set(reading[r], [session[reading[r]] EXCEPT !.timers = @ \ {t}])
    /\ Emit({r})
    /\ UNCHANGED <<completed, stopping, ended, reading, terminals>>

(* close: stop everything; the reactor ends when the last one is finished. *)
Close ==
    /\ ~stopping /\ stopping' = TRUE
    /\ Shutdown([s \in Ids |-> IF session[s].held THEN request_stop(session[s], "cancelled")
                               ELSE session[s]], completed)
    /\ UNCHANGED <<reading, replies, terminals>>

-------------------------------------------------------------------------------
Timeouts(s) == WaitFires(s) \/ WatchFires(s) \/ DeadlineFires(s) \/ KillFires(s)

Commands(s) ==
    \/ begin(s) \/ SpawnFails(s) \/ Extend(s) \/ Watch(s) \/ Unwatch(s) \/ Terminate(s)
    \/ Release(s) \/ Acknowledge(s) \/ CancelRun(s) \/ \E r \in Reads : Read(r, s)

Next ==
    \/ \E s \in Ids : Timeouts(s) \/ Commands(s) \/ ExitSeen(s) \/ PipeCloses(s) \/ OutputFails(s) \/ complete(s)
    \/ \E r \in Reads : CancelRead(r)
    \/ Tick \/ Close

Spec == Init /\ [][Next]_vars

(* Time passes, the reactor serves timers that are due and flows that have *)
(* settled, in any order, and the kernel ends a process that got SIGKILL.  *)
(* Nothing is assumed of a process otherwise, nor of who keeps its pipes   *)
(* open.                                                                   *)
Fairness ==
    /\ WF_vars(Tick)
    /\ WF_vars(\E s \in Ids : Timeouts(s))
    /\ WF_vars(\E s \in Ids : session[s].killed /\ ExitSeen(s))
    /\ WF_vars(\E s \in Ids : complete(s))

FairSpec == Spec /\ Fairness

-------------------------------------------------------------------------------
(* timer, complete, cancel_request: the initial wait, the end of the       *)
(* process, a cancellation and a slow reactor race, and each request is    *)
(* answered once: a run when it is exposed or finished, a read when its    *)
(* timer is gone; and a session has its terminal event once it finished.   *)
AnsweredOnce ==
    /\ \A s \in Ids :
        /\ replies[s] = IF session[s].exposed \/ session[s].stage = "finished" THEN 1 ELSE 0
        /\ terminals[s] = IF session[s].exposed /\ session[s].stage = "finished" THEN 1 ELSE 0
    /\ \A r \in Reads : reading[r] # NoId =>
        replies[r] + Cardinality({t \in session[reading[r]].timers : t.request = r}) = 1

(* begin: every process and every retained result has one of the slots, so *)
(* that no completion finds the runtime full.                              *)
SlotsReserved ==
    /\ Cardinality(Held) <= Capacity
    /\ \A s \in Ids : session[s].stage \in {"live", "settled"} => session[s].held


(* extend, watch: a session is timed out only by its last deadline, not by *)
(* one that was extended in time.                                          *)
TimedOutIsDue == \A s \in Ids : session[s].reason = "timed_out" => session[s].deadline = 0

(* reset_deadline, request_stop: a process that is past its deadline, or   *)
(* was told to stop, ends, however often it is extended or watched before; *)
(* watch: a wake-up that was asked for comes, or the session ends first.   *)
TimersEnd == \A s \in Ids :
    /\ (session[s].stage = "live" /\ (session[s].deadline = 0 \/ session[s].stopped))
           ~> (session[s].exit_seen \/ session[s].stage # "live")
    /\ session[s].wake # Never ~> session[s].wake = Never \/ session[s].exit_seen

(* close: the reactor ends, unless something outside of the process group  *)
(* keeps a pipe of a dead process open.                                    *)
CloseEnds == stopping ~> (ended \/ \E s \in Ids : session[s].exit_seen /\ session[s].pipe)
===============================================================================
