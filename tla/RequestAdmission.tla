--------------------------- MODULE RequestAdmission ---------------------------
(***************************************************************************)
(* The bounded admission every request of a remote target passes before it *)
(* touches the transport (pal_shell_remote/admission.py).  One event loop  *)
(* runs all callers, so a step of this module is what one caller does      *)
(* between two awaits; what interleaves is the order in which callers are  *)
(* resumed, timed out, cancelled and detached.                             *)
(*                                                                         *)
(* A caller that finds no permit parks on a future.  A release hands its   *)
(* permit over by completing the first pending future, but the caller of   *)
(* that future only resumes later: in between it may be cancelled or time  *)
(* out, and the permit it was granted must go on to the next caller.       *)
(***************************************************************************)
EXTENDS Naturals, Sequences, FiniteSets

CONSTANTS Callers,      \* the tasks that ask for permits
          Capacity,     \* RequestAdmission.capacity
          QueueLimit    \* RequestAdmission.queue_limit

ASSUME CapacityAssumption == Capacity \in Nat \ {0}
ASSUME QueueLimitAssumption == QueueLimit \in Nat
ASSUME CallersAssumption == IsFiniteSet(Callers)

VARIABLES active,       \* permits handed out
          waiters,      \* the deque of parked futures, named by their caller
          closed,
          pc,           \* where each caller is: idle, waiting, holding
          future,       \* the future a waiting caller is parked on
          interrupted   \* the caller was cancelled or its wait timed out

vars == <<active, waiters, closed, pc, future, interrupted>>

Future == {"none", "pending", "granted", "failed", "cancelled"}

TypeOK ==
    /\ active \in Nat
    /\ waiters \in Seq(Callers)
    /\ closed \in BOOLEAN
    /\ pc \in [Callers -> {"idle", "waiting", "holding"}]
    /\ future \in [Callers -> Future]
    /\ interrupted \in [Callers -> BOOLEAN]

Init ==
    /\ active = 0
    /\ waiters = << >>
    /\ closed = FALSE
    /\ pc = [c \in Callers |-> "idle"]
    /\ future = [c \in Callers |-> "none"]
    /\ interrupted = [c \in Callers |-> FALSE]

-------------------------------------------------------------------------------
(* release: give the permit back, then hand it to the first future that is *)
(* not done; the done ones in front of it (their callers were cancelled)   *)
(* are dropped.  A closed admission hands nothing over.  f is the futures  *)
(* as the releasing caller leaves its own.                                 *)

Pending(f, i) == f[waiters[i]] = "pending"

HandOver(f) ==
    /\ ~closed
    /\ \E i \in 1..Len(waiters) :
        /\ Pending(f, i)
        /\ \A j \in 1..(i - 1) : ~Pending(f, j)
        /\ waiters' = SubSeq(waiters, i + 1, Len(waiters))
        /\ future' = [f EXCEPT ![waiters[i]] = "granted"]
    /\ UNCHANGED active

GiveBack(f) ==
    /\ closed \/ \A i \in 1..Len(waiters) : ~Pending(f, i)
    /\ waiters' = IF closed THEN waiters ELSE << >>
    /\ future' = f
    /\ active' = active - 1

(* Mutant: the permit returns to the pool past the callers that wait.      *)
ReleasePastWaiters(f) ==
    /\ active' = active - 1 /\ future' = f
    /\ UNCHANGED waiters

release(f) == HandOver(f) \/ GiveBack(f)

-------------------------------------------------------------------------------
(* acquire, up to its await.                                               *)

AcquireClosed(c) ==
    /\ pc[c] = "idle" /\ closed
    /\ UNCHANGED vars

AcquireFree(c) ==
    /\ pc[c] = "idle" /\ ~closed
    /\ active < Capacity /\ waiters = << >>
    /\ active' = active + 1
    /\ pc' = [pc EXCEPT ![c] = "holding"]
    /\ UNCHANGED <<waiters, closed, future, interrupted>>

AcquireFull(c) ==
    /\ pc[c] = "idle" /\ ~closed
    /\ ~(active < Capacity /\ waiters = << >>)
    /\ Len(waiters) >= QueueLimit
    /\ UNCHANGED vars

AcquireWait(c) ==
    /\ pc[c] = "idle" /\ ~closed
    /\ ~(active < Capacity /\ waiters = << >>)
    /\ Len(waiters) < QueueLimit
    /\ waiters' = Append(waiters, c)
    /\ pc' = [pc EXCEPT ![c] = "waiting"]
    /\ future' = [future EXCEPT ![c] = "pending"]
    /\ UNCHANGED <<active, closed, interrupted>>

(* wait_for's timer fires, or the caller's task is cancelled: a pending    *)
(* future is cancelled with it, a completed one keeps its outcome and the  *)
(* caller learns of both when it resumes.                                  *)
Interrupt(c) ==
    /\ pc[c] = "waiting" /\ ~interrupted[c]
    /\ interrupted' = [interrupted EXCEPT ![c] = TRUE]
    /\ future' = [future EXCEPT ![c] = IF @ = "pending" THEN "cancelled" ELSE @]
    /\ UNCHANGED <<active, waiters, closed, pc>>

-------------------------------------------------------------------------------
(* acquire, after its await.                                               *)

Clear(c) == [future EXCEPT ![c] = "none"]

(* The future carries a permit.  An interrupted caller keeps it where      *)
(* wait_for returns the result of a completed future (Python 3.11) ...     *)
ResumeGranted(c) ==
    /\ pc[c] = "waiting" /\ future[c] = "granted"
    /\ pc' = [pc EXCEPT ![c] = "holding"]
    /\ future' = Clear(c)
    /\ interrupted' = [interrupted EXCEPT ![c] = FALSE]
    /\ UNCHANGED <<active, waiters, closed>>

(* Mutant: an interrupted caller forgets the permit it was granted.        *)
ResumeForgetting(c) ==
    /\ pc[c] = "waiting" /\ future[c] = "granted" /\ interrupted[c]
    /\ pc' = [pc EXCEPT ![c] = "idle"]
    /\ interrupted' = [interrupted EXCEPT ![c] = FALSE]
    /\ future' = Clear(c)
    /\ UNCHANGED <<active, waiters, closed>>

(* ... and raises where the cancellation wins (Python 3.12 and later): the *)
(* except branch returns the permit it was granted.                        *)
ResumeReturning(c) ==
    /\ pc[c] = "waiting" /\ future[c] = "granted" /\ interrupted[c]
    /\ pc' = [pc EXCEPT ![c] = "idle"]
    /\ interrupted' = [interrupted EXCEPT ![c] = FALSE]
    /\ release(Clear(c))
    /\ UNCHANGED closed

(* The future was cancelled, or failed by close: it leaves the deque if it *)
(* is still parked there.                                                  *)
Unpark(c) ==
    \/ \E i \in 1..Len(waiters) :
        /\ waiters[i] = c
        /\ waiters' = SubSeq(waiters, 1, i - 1) \o SubSeq(waiters, i + 1, Len(waiters))
    \/ (\A i \in 1..Len(waiters) : waiters[i] # c) /\ UNCHANGED waiters

ResumeRaising(c) ==
    /\ pc[c] = "waiting" /\ future[c] \in {"cancelled", "failed"}
    /\ pc' = [pc EXCEPT ![c] = "idle"]
    /\ interrupted' = [interrupted EXCEPT ![c] = FALSE]
    /\ future' = Clear(c)
    /\ Unpark(c)
    /\ UNCHANGED <<active, closed>>

(* permit: the body of the "async with" ends, normally or by an exception. *)
permit(c) ==
    /\ pc[c] = "holding"
    /\ pc' = [pc EXCEPT ![c] = "idle"]
    /\ release(future)
    /\ UNCHANGED <<closed, interrupted>>

(* Mutant: close drops the parked futures without failing them.            *)
CloseSilently ==
    /\ closed' = TRUE
    /\ waiters' = << >>
    /\ UNCHANGED <<active, pc, future, interrupted>>

(* close: fail every parked future that is not done.                       *)
close ==
    /\ closed' = TRUE
    /\ waiters' = << >>
    /\ future' = [c \in Callers |->
          IF future[c] = "pending" /\ \E i \in 1..Len(waiters) : waiters[i] = c
          THEN "failed" ELSE future[c]]
    /\ UNCHANGED <<active, pc, interrupted>>

-------------------------------------------------------------------------------
Next ==
    \/ \E c \in Callers :
        \/ AcquireClosed(c) \/ AcquireFree(c) \/ AcquireFull(c) \/ AcquireWait(c)
        \/ Interrupt(c)
        \/ ResumeGranted(c) \/ ResumeReturning(c) \/ ResumeRaising(c)
        \/ permit(c)
    \/ close

(* The event loop resumes every ready task, and every request the permit   *)
(* guards ends (the transport bounds it by its own timeout).  Nothing is   *)
(* assumed of new requests, cancellations or the wait's timer.             *)
Fairness == \A c \in Callers :
    /\ WF_vars(ResumeGranted(c) \/ ResumeReturning(c))
    /\ WF_vars(ResumeRaising(c))
    /\ WF_vars(permit(c))

Spec == Init /\ [][Next]_vars
FairSpec == Spec /\ Fairness

-------------------------------------------------------------------------------
(* The permits in circulation: held, or granted to a caller that has not   *)
(* resumed yet.                                                            *)
Permits == {c \in Callers : pc[c] = "holding" \/ future[c] = "granted"}

(* acquire/release: the counter is exactly the permits in circulation,     *)
(* however a grant races a cancellation, a timeout or close, and it never  *)
(* exceeds the capacity of the target.                                     *)
PermitsAccounted == active = Cardinality(Permits) /\ active <= Capacity

(* release hands over before anyone can be left behind: a caller is parked *)
(* on an open admission only while every permit is in circulation.         *)
NoIdlePermit == ~closed /\ waiters # << >> => active = Capacity

(* acquire parks exactly the callers that wait, and a pending future is    *)
(* parked on an open admission, so that some release or close completes    *)
(* it: no caller waits on a future that nobody will complete.              *)
WaitersReachable == \A c \in Callers :
    /\ pc[c] = "waiting" <=> future[c] # "none"
    /\ future[c] = "pending" => ~closed /\ \E i \in 1..Len(waiters) : waiters[i] = c

(* Together: whoever is parked is parked for a reason, and is not lost.    *)
NoWaiterLost == NoIdlePermit /\ WaitersReachable

(* Every parked caller leaves the queue by the releases alone, without its *)
(* timer and however often others arrive or are cancelled.                 *)
NoStarvation == \A c \in Callers : pc[c] = "waiting" ~> pc[c] # "waiting"
===============================================================================
