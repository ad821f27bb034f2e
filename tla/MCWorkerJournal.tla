---------------------------- MODULE MCWorkerJournal ----------------------------
(* WorkerJournal with two commands, a control of their sessions, a         *)
(* privileged command and a shutdown, in two worker processes; the three   *)
(* outputs compete for two slots, and the journal holds one operation less *)
(* than there are.                                                         *)
EXTENDS WorkerJournal

MCOps == {"run", "job", "watch", "sudo", "halt"}
MCKindOf == [run |-> "execution", job |-> "execution", watch |-> "control",
             sudo |-> "privileged", halt |-> "shutdown"]
MCActionOf == [watch |-> "watch"]
===============================================================================
