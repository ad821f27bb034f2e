---------------------------- MODULE MCGateEvidence -----------------------------
(* GateEvidence with two operations and two workers.  Both workers use     *)
(* session 1 for the first process they run; each operation has an output  *)
(* of its own, and an event may arrive before its owner is recorded.       *)
EXTENDS GateEvidence

MCOps == {"a", "b"}
MCEpochs == {1, 2}
MCSessions == {1}
MCOutputs == {<<"x">>, <<"y">>}

Report(e, o, s, out, status) ==
    [epoch |-> e, execution |-> o, session |-> s, output |-> out, status |-> status]

MCSnapshots ==
    {Report(e, "a", 1, <<"x">>, st) : e \in MCEpochs, st \in {"running", "exited"}}
    \cup {Report(1, NoOp, 1, <<"x">>, st) : st \in {"running", "exited"}}
    \cup {Report(2, "b", 1, <<"y">>, st) : st \in {"running", "exited", "other"}}
    \cup {Report(2, NoOp, 0, NoOutput, st) : st \in {"none", "accepted", "exited"}}

MCRecords == {r \in Item : Record(r) /\ r.epoch = 1 /\ r.hold /\ r.output # <<"y">>
                           /\ (r.session = NoSession <=> r.output = NoOutput)}
===============================================================================
