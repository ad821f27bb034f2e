---------------------------- MODULE RemoteLifecycle ----------------------------
(***************************************************************************)
(* The reducer of a remote operation: which phase follows a phase when a   *)
(* piece of evidence arrives (pal_shell_contracts/remote_lifecycle.py and  *)
(* the table _remote_transitions.py it reads), and how a phase is stored   *)
(* in a record and read back from it.  A pure module: the owners of the    *)
(* identities, the epochs and the evidence are elsewhere.                  *)
(***************************************************************************)

Kinds == {"execution", "control", "privileged", "shutdown"}

(* Kinds that need a signature, and kinds that run a process.              *)
Approved == {"privileged", "shutdown"}
Executes == {"execution", "privileged"}

Unsigned    == {"preparing", "prepared", "unsigned_unknown"}   \* UNSIGNED_PHASES
Known       == {"running", "delivery"}
Unconfirmed == {"submitting", "signing", "pending", "unknown"}
Live        == Unsigned \cup Known \cup Unconfirmed
Phases      == Live \cup {"absent", "retired"}

Restores == {"restore_prepared", "restore_unsigned", "restore_submitting",
             "restore_running", "restore_delivery", "restore_unknown"}

(* VALID_PHASES: the phases an operation of each kind can be in; next_phase *)
(* raises ValueError on any other pair.                                    *)
ValidPhase(kind, phase) ==
    \/ phase \in {"absent", "retired", "pending", "unknown"}
    \/ phase = "submitting" /\ kind \notin Approved
    \/ phase \in Unsigned \cup {"signing"} /\ kind \in Approved
    \/ phase \in Known /\ kind \in Executes

-------------------------------------------------------------------------------
(* TRANSITIONS, one row per event: the phases it moves, and where to.      *)

Only(kinds, kind, phases) == IF kind \in kinds THEN phases ELSE {}

Sources(kind, event) ==
    CASE event = "claim"            -> Only(Kinds \ Approved, kind, {"absent"})
      [] event = "prepare"          -> Only(Approved, kind, {"absent"})
      [] event \in Restores         -> {"absent"}
      [] event = "sign"             -> {"prepared", "unsigned_unknown"}
      [] event = "approval"         -> Unsigned
      [] event = "pending"          -> Unconfirmed
      [] event = "running"          -> Only(Executes, kind, Unconfirmed)
      [] event = "terminal"         -> Only(Executes, kind, Unconfirmed \cup Known)
      [] event = "accepted"         -> Only({"shutdown"}, kind, Unconfirmed)
      [] event = "control_complete" -> Only({"control"}, kind, Live)
      [] event \in {"not_started", "lost", "missing", "terminal_empty"}
                                    -> Unsigned \cup Unconfirmed
      [] event = "query_failed"     -> Unconfirmed
      [] event = "release"          -> Known
      [] event = "cancel_unsigned"  -> Unsigned
      [] event = "epoch_changed"    -> Live
      [] OTHER                      -> {}

Restored(kind, event) ==
    LET phase == CASE event = "restore_prepared" -> "prepared"
                   [] event = "restore_unsigned" -> "unsigned_unknown"
                   [] event = "restore_running"  -> "running"
                   [] event = "restore_delivery" -> "delivery"
                   [] OTHER                      -> "unknown"
    IN  IF ValidPhase(kind, phase) THEN phase ELSE "unknown"

Target(kind, hold, phase, event) ==
    CASE event = "claim"    -> "submitting"
      [] event = "prepare"  -> "preparing"
      [] event \in Restores -> Restored(kind, event)
      [] event = "sign"     -> "signing"
      [] event = "approval" -> "prepared"
      [] event = "pending"  -> "pending"
      [] event = "running"  -> "running"
      [] event = "terminal" -> IF hold THEN "delivery" ELSE "retired"
      [] event \in {"accepted", "control_complete", "not_started", "release",
                    "cancel_unsigned"} -> "retired"
      [] OTHER -> IF phase \in Unsigned THEN "unsigned_unknown" ELSE "unknown"

(* Mutant: a late answer to the preparation undoes the signature.          *)
NextPhaseLateApproval(kind, hold, phase, event) ==
    IF event = "approval" /\ phase = "signing" THEN "prepared"
    ELSE IF phase \in Sources(kind, event) THEN Target(kind, hold, phase, event) ELSE phase

next_phase(kind, hold, phase, event) ==
    IF phase \in Sources(kind, event)
    THEN Target(kind, hold, phase, event) ELSE phase

-------------------------------------------------------------------------------
(* How much of a snapshot an operation may take: its own, or, once its     *)
(* process is known, one of its session.                                   *)
permitted(kind, phase, relation, same_epoch) ==
    /\ same_epoch
    /\ \/ relation = "exact"
       \/ relation = "session" /\ kind \in Executes /\ phase \in Known

(* PUBLIC_PHASE and the unsigned flag: two phases may share one public     *)
(* state, and operation_phase tells them apart by the kind and the flag.   *)
PublicPhase(phase) ==
    CASE phase = "prepared"                 -> "awaiting_approval"
      [] phase \in {"preparing", "signing"} -> "submitting"
      [] phase = "unsigned_unknown"         -> "unknown"
      [] OTHER                              -> phase

store_phase(item, phase) ==
    [item EXCEPT !.state = PublicPhase(phase),
                 !.unsigned = IF item.kind \in Approved THEN phase \in Unsigned ELSE @]

operation_phase(item) ==
    CASE item.state = "submitting" /\ item.kind \in Approved ->
             IF item.unsigned THEN "preparing" ELSE "signing"
      [] item.state = "awaiting_approval" ->
             IF item.unsigned THEN "prepared" ELSE "signing"
      [] item.state = "unknown" /\ item.unsigned /\ item.kind \in Approved ->
             "unsigned_unknown"
      [] OTHER -> item.state
===============================================================================
