---------------------------- MODULE MCRemoteTarget ----------------------------
(* RemoteTarget for a choice of operations, each named for what it is.     *)
EXTENDS RemoteTarget, TLC

MCKindOf == [o \in Ops |-> CASE o \in {"write", "watch", "terminate"} -> "control"
                             [] o = "sudo" -> "privileged"
                             [] o = "halt" -> "shutdown"
                             [] OTHER      -> "execution"]
MCActionOf == [o \in Ops |-> o]
MCSessions == 1..Cardinality(Ops)
MCSymmetry == Permutations(Requests)
MCEpochs == 1..MaxEpoch
===============================================================================
