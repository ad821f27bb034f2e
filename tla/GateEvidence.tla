----------------------------- MODULE GateEvidence -----------------------------
(***************************************************************************)
(* The ExecutionGate alone, under any evidence in any order: what its      *)
(* methods guarantee whoever calls them, and whatever a worker answers.    *)
(***************************************************************************)
EXTENDS ExecutionGate

CONSTANTS Snapshots,  \* what workers report of their sessions
          Records     \* what the shell side may restore

ASSUME SnapshotsAssumption == Snapshots \subseteq Snapshot

(* Records come from ShellRouter.execution_records; a worker epoch never   *)
(* comes back once a newer one has connected; evidence may belong to any.  *)
Record(record) ==
    /\ record.state \in {"unknown", "running", "delivery"}
    /\ record.unsigned => record.kind \in Approved
    /\ record.kind = "control" => record.state = "unknown"
    /\ record.state = "running" => record.session # NoSession
    /\ record.state = "delivery" => record.hold /\ record.output # NoOutput

ASSUME RecordsAssumption == Records \subseteq Item /\ \A r \in Records : Record(r)

Connected == \E e \in Epochs :
    gate.current_epoch <= e /\ gate' = connected(gate, e)

RestoreRecord == \E o \in Ops, record \in Records :
    gate' = restore(gate, [x \in {o} |-> record])

(* "epoch or self.epoch": no epoch at all only before the first connection. *)
EpochArgument(e) == e # NoEpoch \/ gate.current_epoch = NoEpoch

Claim == \E o \in Ops, e \in Epochs \cup {NoEpoch}, hold \in BOOLEAN, kind \in Kinds \ {"control"} :
    /\ EpochArgument(e) /\ ~ClaimRaises(gate, o, e, kind)
    /\ gate' = claim(gate, o, e, hold, kind)

ClaimControl == \E o \in Ops, e \in Epochs \cup {NoEpoch}, s \in Sessions :
    /\ EpochArgument(e) /\ ~ClaimControlRaises(gate, o, e, s)
    /\ gate' = claim_control(gate, o, e, s)

Bind == \E o \in Ops, e \in Epochs :
    ~BindRaises(gate, o, e) /\ gate' = bind(gate, o, e)

Sign == \E o \in Ops, e \in Epochs :
    ~SignRejected(gate, o, e) /\ gate' = sign(gate, o, e)

Failed == \E o \in Ops, effect \in {"not_started", "unknown"}, e \in Epochs \cup {NoEpoch} :
    EpochArgument(e) /\ gate' = failed(gate, o, effect, e)

CancelPrepared == \E o \in Ops : gate' = cancel_prepared(gate, o)

QueryFailed == \E o \in Ops, e \in Epochs : gate' = query_failed(gate, o, e)

ReconcilePrepared == \E o \in Ops, e \in Epochs : gate' = reconcile_prepared(gate, o, e)

(* A record is complete with a result, failed with an error, or neither.   *)
Responses ==
    {[error |-> "none", state |-> "complete", result |-> r] : r \in Snapshots}
    \cup {[error |-> IF state = "failed" THEN effect ELSE "none", state |-> state, result |-> r] :
          state \in Answers \ {"complete"}, effect \in Errors \ {"none"},
          r \in {x \in Snapshots : x.status = "none"}}

Result == \E o \in Ops, response \in Responses, e \in Epochs :
    gate' = result(gate, o, response, e)

Observe == \E r \in Snapshots, e \in Epochs : gate' = snapshot(gate, r, e, r.execution)

Release == \E output \in Outputs, e \in Epochs : gate' = release(gate, output, e)

Init == gate = InitGate

Next ==
    \/ Connected \/ RestoreRecord \/ Claim \/ ClaimControl \/ Bind \/ Sign \/ Failed
    \/ CancelPrepared \/ QueryFailed \/ ReconcilePrepared \/ Result \/ Observe \/ Release

Spec == Init /\ [][Next]_gate
===============================================================================
