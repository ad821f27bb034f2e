---------------------------- MODULE ResultLifecycle ---------------------------
(***************************************************************************)
(* What the remote file protocol promises about one operation and the      *)
(* authority of its result, without revisions, messages or crashes: an     *)
(* operation takes effect at most once, one that was rejected never does,  *)
(* and authority moves one way, from a staged result through a live one to *)
(* retirement.                                                             *)
(***************************************************************************)
CONSTANT Ops

VARIABLE phase

Phases == {"new", "void", "spent", "staged", "live", "retired"}

Init == phase = [o \in Ops |-> "new"]

(* The operation takes effect, with or without a result to stage.          *)
Run(o) ==
    /\ phase[o] = "new"
    /\ \E p \in {"spent", "staged"} : phase' = [phase EXCEPT ![o] = p]

(* It is settled that the operation has no effect.                         *)
Reject(o) ==
    /\ phase[o] = "new"
    /\ phase' = [phase EXCEPT ![o] = "void"]

(* Results enter the conversation and others leave it, all at once.        *)
Sync ==
    /\ phase' \in [Ops -> Phases]
    /\ \A o \in Ops :
        \/ phase'[o] = phase[o]
        \/ phase[o] = "staged" /\ phase'[o] \in {"live", "retired"}
        \/ phase[o] = "live" /\ phase'[o] = "retired"

Next == Sync \/ \E o \in Ops : Run(o) \/ Reject(o)

Spec == Init /\ [][Next]_phase

===============================================================================
