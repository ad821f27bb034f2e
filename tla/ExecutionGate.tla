----------------------------- MODULE ExecutionGate -----------------------------
(***************************************************************************)
(* The owner of a target's operations inside the remote hub                *)
(* (pal_shell_remote/execution_gate.py): which operation exists, which     *)
(* worker process (epoch), session and output it is bound to, and which    *)
(* phase the evidence so far puts it in.  Evidence arrives in any order:   *)
(* replies, events of the same session, restored records, a new worker.    *)
(*                                                                         *)
(* Every method is an operator from a gate to a gate, so that the owner of *)
(* the requests (RemoteTarget) can apply several of them in one step;      *)
(* GateEvidence takes them one by one with any evidence.                   *)
(***************************************************************************)
EXTENDS Naturals, RemoteLifecycle

CONSTANTS Ops,        \* operation identities
          NoOp,       \* an event whose execution_id is still empty
          Epochs,     \* runtime_epoch of the worker processes, oldest first
          Sessions,   \* native session ids; they start again in every epoch
          Outputs     \* output tokens, never reused

NoEpoch   == 0        \* None
NoSession == 0
NoOutput  == << >>

ASSUME NoOpAssumption == NoOp \notin Ops
ASSUME EpochsAssumption == Epochs \subseteq Nat \ {0}
ASSUME SessionsAssumption == Sessions \subseteq Nat \ {0}
ASSUME OutputsAssumption == NoOutput \notin Outputs

VARIABLE gate

States == {"absent", "submitting", "awaiting_approval", "pending", "unknown",
           "running", "delivery", "retired"}

Item == [kind : Kinds, state : States, unsigned : BOOLEAN, hold : BOOLEAN,
         epoch : Epochs \cup {NoEpoch}, session : Sessions \cup {NoSession},
         output : Outputs \cup {NoOutput}]

(* What a worker says of a session, and what it answers to a request: an   *)
(* error with its effect, a journal state, a snapshot.  running stands for *)
(* running and terminating, exited for every TERMINAL status, other for    *)
(* the remaining ones (input_accepted); none is an empty result.           *)
Statuses == {"none", "running", "exited", "accepted", "other"}
Snapshot == [epoch : Epochs, execution : Ops \cup {NoOp}, session : Sessions \cup {NoSession},
             output : Outputs \cup {NoOutput}, status : Statuses]
Errors   == {"none", "not_started", "unknown"}
Answers  == {"approval_required", "pending", "complete", "failed"}
Response == [error : Errors, state : Answers, result : Snapshot]

Blank == [kind |-> "execution", state |-> "absent", unsigned |-> FALSE, hold |-> FALSE,
          epoch |-> NoEpoch, session |-> NoSession, output |-> NoOutput]

(* The retired dict: only membership is ever read.                         *)
Tombstone == [Blank EXCEPT !.state = "retired"]

InitGate == [operations |-> [o \in Ops |-> Blank], current_epoch |-> NoEpoch]

-------------------------------------------------------------------------------
Owned(g, o)   == g.operations[o].state \notin {"absent", "retired"}
Retired(g, o) == g.operations[o].state = "retired"
Phase(g, o)   == operation_phase(g.operations[o])

Step(item, event) ==
    LET phase == next_phase(item.kind, item.hold, operation_phase(item), event)
    IN  IF phase = "retired" THEN Tombstone ELSE store_phase(item, phase)

advance(g, o, event) ==
    IF Owned(g, o) THEN [g EXCEPT !.operations[o] = Step(@, event)] ELSE g

(* Mutant: the connected worker is not considered.                         *)
SameEpochOfItem(g, item, epoch) == item.epoch = epoch

same_epoch(g, item, epoch) ==
    item.epoch = epoch /\ g.current_epoch \in {NoEpoch, epoch}

connected(g, epoch) ==
    [current_epoch |-> epoch,
     operations |-> [o \in Ops |-> LET item == g.operations[o] IN
        IF Owned(g, o) /\ item.epoch \notin {NoEpoch, epoch}
        THEN Step(item, "epoch_changed") ELSE item]]

(* restore: records the shell side kept, after the hub lost its memory.    *)
RestoreEvent(record) ==
    IF record.unsigned
    THEN IF record.state = "awaiting_approval" THEN "restore_prepared" ELSE "restore_unsigned"
    ELSE IF record.output = NoOutput THEN "restore_unknown"
    ELSE CASE record.state = "running"  -> "restore_running"
           [] record.state = "delivery" -> "restore_delivery"
           [] OTHER                     -> "restore_unknown"

(* Mutant: restore does not look at the retired identities.                *)
RestoreRetired(g, records) ==
    [g EXCEPT !.operations = [o \in Ops |->
        IF o \notin DOMAIN records \/ Owned(g, o) THEN g.operations[o]
        ELSE Step([records[o] EXCEPT !.state = "absent"], RestoreEvent(records[o]))]]

restore(g, records) ==
    [g EXCEPT !.operations = [o \in Ops |->
        IF o \notin DOMAIN records \/ Owned(g, o) \/ Retired(g, o)
        THEN g.operations[o]
        ELSE LET item == Step([records[o] EXCEPT !.state = "absent"], RestoreEvent(records[o]))
             IN  IF g.current_epoch # NoEpoch /\ item.epoch # g.current_epoch
                 THEN Step(item, "epoch_changed") ELSE item]]

-------------------------------------------------------------------------------
(* claim raises for a settled identity and for one of another epoch or     *)
(* kind; it returns whether it created the item.                           *)
ClaimRaises(g, o, epoch, kind) ==
    \/ Retired(g, o)
    \/ Owned(g, o) /\ (g.operations[o].epoch # epoch \/ g.operations[o].kind # kind)

claim(g, o, epoch, hold, kind) ==
    IF Owned(g, o) THEN g
    ELSE [g EXCEPT !.operations[o] =
            Step([Blank EXCEPT !.kind = kind, !.epoch = epoch, !.hold = hold],
                 IF kind \in Approved THEN "prepare" ELSE "claim")]

ClaimControlRaises(g, o, epoch, session) ==
    \/ ClaimRaises(g, o, epoch, "control")
    \/ Owned(g, o) /\ g.operations[o].session # session

claim_control(g, o, epoch, session) ==
    IF Owned(g, o) THEN g
    ELSE [claim(g, o, epoch, FALSE, "control") EXCEPT !.operations[o].session = session]

(* Mutant: bind only compares with the connected worker.                   *)
BindRaisesLate(g, o, epoch) == Owned(g, o) /\ g.current_epoch \notin {NoEpoch, epoch}

BindRaises(g, o, epoch) ==
    /\ Owned(g, o)
    /\ \/ g.operations[o].epoch \notin {NoEpoch, epoch}
       \/ g.current_epoch \notin {NoEpoch, epoch}

bind(g, o, epoch) ==
    IF Owned(g, o) THEN [g EXCEPT !.operations[o].epoch = epoch] ELSE g

(* sign raises after its bind when the preparation is not confirmed, and   *)
(* returns whether this call was the one that signed.                      *)
SignRejected(g, o, epoch) ==
    ~Owned(g, o) \/ g.operations[o].kind \notin Approved \/ BindRaises(g, o, epoch)

sign(g, o, epoch) == advance(bind(g, o, epoch), o, "sign")

Signs(g, o) == Phase(g, o) \in {"prepared", "unsigned_unknown"}

-------------------------------------------------------------------------------
(* Mutant: a lost request counts as one that was not sent.                 *)
LostIsNotStarted(effect) == "not_started"

Lost(effect) == IF effect = "not_started" THEN "not_started" ELSE "lost"

(* Mutant: a failed request leaves its operation alone.                    *)
FailedIgnored(g, o, effect, epoch) == g

failed(g, o, effect, epoch) ==
    LET e == IF epoch # NoEpoch THEN epoch ELSE g.operations[o].epoch
        unbound == g.operations[o].epoch = NoEpoch
        bound == IF unbound THEN bind(g, o, e) ELSE g
    IN  IF ~Owned(g, o) \/ (unbound /\ BindRaises(g, o, e)) THEN g
        ELSE IF same_epoch(bound, bound.operations[o], e)
        THEN advance(bound, o, Lost(effect)) ELSE bound

cancel_prepared(g, o) == advance(g, o, "cancel_unsigned")

(* Mutant: a query without an answer settles the operation.                *)
QueryFailedSettles(g, o, epoch) ==
    IF same_epoch(g, g.operations[o], epoch) THEN advance(g, o, "not_started") ELSE g

query_failed(g, o, epoch) ==
    IF same_epoch(g, g.operations[o], epoch) THEN advance(g, o, "query_failed") ELSE g

reconcile_prepared(g, o, epoch) ==
    IF same_epoch(g, g.operations[o], epoch) THEN advance(g, o, "cancel_unsigned") ELSE g

(* Mutant: a process with an output counts as ended.                       *)
EvidenceEager(result) ==
    CASE result.status = "accepted"                                       -> "accepted"
      [] result.status \in {"exited", "running"} /\ result.output # NoOutput -> "terminal"
      [] result.status = "exited" /\ result.output = NoOutput             -> "terminal_empty"
      [] OTHER                                                            -> "missing"

(* snapshot: the evidence one result gives, to the operation it names and  *)
(* to the operations known to run in its session.                          *)
Evidence(result) ==
    CASE result.status = "accepted"                             -> "accepted"
      [] result.status = "exited" /\ result.output # NoOutput   -> "terminal"
      [] result.status = "exited" /\ result.output = NoOutput   -> "terminal_empty"
      [] result.status = "running" /\ result.output # NoOutput  -> "running"
      [] OTHER                                                  -> "missing"

Relation(o, item, result, owner) ==
    IF o = owner THEN "exact"
    ELSE IF result.session # NoSession /\ item.session = result.session THEN "session"
    ELSE "foreign"

Concerns(g, o, result, epoch, owner) ==
    LET item == g.operations[o] IN
    /\ Owned(g, o)
    /\ permitted(item.kind, Phase(g, o), Relation(o, item, result, owner),
                 same_epoch(g, item, epoch))
    /\ item.output \in {NoOutput, result.output} \/ result.output = NoOutput
    /\ item.session \in {NoSession, result.session} \/ result.session = NoSession

Observed(item, result) ==
    LET event == Evidence(result)
        after == next_phase(item.kind, item.hold, operation_phase(item), event)
        taken == \/ event = "running" /\ after = "running"
                 \/ event = "terminal" /\ after \in {"delivery", "retired"}
                 \/ event = "accepted" /\ after = "retired"
        bound == [item EXCEPT !.output = result.output,
                              !.session = IF @ # NoSession THEN @ ELSE result.session]
    IN  Step(IF taken THEN bound ELSE item, event)

snapshot(g, result, epoch, owner) ==
    IF result.epoch # epoch THEN g
    ELSE [g EXCEPT !.operations = [o \in Ops |->
            IF Concerns(g, o, result, epoch, owner)
            THEN Observed(g.operations[o], result) ELSE g.operations[o]]]

(* result: the answer to a request of operation o.                         *)
ControlResult(g, o, response, epoch) ==
    LET seen == snapshot(g, response.result, epoch, response.result.execution)
    IN  IF response.state = "complete" THEN advance(seen, o, "control_complete") ELSE seen

Reported(g, o, response, epoch) ==
    IF response.error # "none" THEN advance(g, o, Lost(response.error))
    ELSE IF response.state = "approval_required" THEN advance(g, o, "approval")
    ELSE IF response.state = "pending" THEN advance(g, o, "pending")
    ELSE IF response.result.status = "none" THEN advance(g, o, "missing")
    ELSE IF g.operations[o].kind = "control" THEN ControlResult(g, o, response, epoch)
    ELSE snapshot(g, response.result, epoch, o)

result(g, o, response, epoch) ==
    LET unbound == g.operations[o].epoch = NoEpoch
        bound == IF unbound THEN bind(g, o, epoch) ELSE g
    IN  IF \/ ~Owned(g, o)
           \/ response.result.status # "none" /\ response.result.epoch # epoch
           \/ unbound /\ BindRaises(g, o, epoch)
        THEN g
        ELSE IF same_epoch(bound, bound.operations[o], epoch)
        THEN Reported(bound, o, response, epoch) ELSE bound

release(g, output, epoch) ==
    [g EXCEPT !.operations = [o \in Ops |-> LET item == g.operations[o] IN
        IF Owned(g, o) /\ output # NoOutput /\ item.output = output /\ same_epoch(g, item, epoch)
        THEN Step(item, "release") ELSE item]]

-------------------------------------------------------------------------------
GateOK == gate \in [operations : [Ops -> Item], current_epoch : Epochs \cup {NoEpoch}]

(* store_phase and operation_phase round-trip through every method: the    *)
(* phase read back from a record is one its kind can be in, so next_phase  *)
(* never raises in the middle of a loop over the operations.               *)
PhasesValid == \A o \in Ops : ValidPhase(gate.operations[o].kind, Phase(gate, o))

(* A known process is known by its output: whatever the order of events,   *)
(* an operation in running or delivery names the output whose release will *)
(* retire it, and only an operation that holds its output awaits delivery. *)
KnownHasOutput == \A o \in Ops :
    /\ Phase(gate, o) \in Known => gate.operations[o].output # NoOutput
    /\ Phase(gate, o) = "delivery" => gate.operations[o].hold

(* claim and restore: a settled identity is never owned again.             *)
RetirementIrreversible == [][\A o \in Ops :
    Retired(gate, o) => Retired(gate, o)']_gate

(* sign: once an approval was signed, no reply, query, event, restore or   *)
(* new worker makes the operation look unsigned (and cancellable) again.   *)
SigningIrreversible == [][\A o \in Ops :
    (Owned(gate, o) /\ gate.operations[o].kind \in Approved /\ Phase(gate, o) \notin Unsigned)
        => Phase(gate, o)' \notin Unsigned]_gate

(* bind, restore and snapshot: an operation keeps the worker, the session  *)
(* and the output it was first bound to until it retires, even when        *)
(* another worker reuses the session id.                                   *)
BindingStable == [][\A o \in Ops : (Owned(gate, o) /\ Owned(gate, o)') =>
    LET old == gate.operations[o] new == gate'.operations[o] IN
    /\ old.epoch # NoEpoch => new.epoch = old.epoch
    /\ old.session # NoSession => new.session = old.session
    /\ old.output # NoOutput => new.output = old.output]_gate

(* same_epoch: once a newer worker has connected, no evidence moves an     *)
(* operation of an older one; it can only lose knowledge, or be cancelled  *)
(* while it is unsigned.                                                   *)
OldEpochFenced == [][\A o \in Ops :
    (/\ Owned(gate, o) /\ gate.current_epoch # NoEpoch
     /\ gate.operations[o].epoch \notin {NoEpoch, gate.current_epoch}
     /\ Phase(gate, o)' # Phase(gate, o))
        => \/ Phase(gate, o)' \in {"unknown", "unsigned_unknown"}
           \/ Phase(gate, o) \in Unsigned /\ Retired(gate, o)']_gate
===============================================================================
