-------------------------- MODULE ManagementJournal --------------------------
(***************************************************************************)
(* The protected helper that runs an approved management action            *)
(* (pal_shell_worker/management_helper.py) and the grant the worker lets   *)
(* it use once (privilege.py, consume_authentication).  Every helper is a  *)
(* process of its own; they share a directory with one record per          *)
(* operation and a lock.  A helper, the worker or the machine can die      *)
(* between any two steps, and a rename reaches the disk only when its      *)
(* directory is synced.                                                    *)
(***************************************************************************)
EXTENDS Naturals, FiniteSets

CONSTANTS Grants,     \* signed approvals; a worker prepares one per operation and
                      \* epoch, so that a grant stands for the key of its record
          NoGrant,
          Helpers,    \* bound: helper processes at a time
          Limit       \* the records the journal retains (4096)

ASSUME NoGrantAssumption == NoGrant \notin Grants
ASSUME LimitAssumption == Limit \in Nat

VARIABLES disk,       \* the records as processes see them
          synced,     \* the records that survive a power failure
          temp,       \* records with a temporary file
          helper,     \* where each helper is, for which grant, what it saves
          auth,       \* auth_available, auth_consumed of the worker's operation
          age,        \* of a grant: valid, expired, or for more than a day
          outcome,    \* the child process of a grant
          attempts,   \* helpers that went on from the journal to the child
          children    \* processes created for a grant

files == <<disk, synced, temp>>
vars  == <<files, helper, auth, age, outcome, attempts, children>>

NoRecord == [state |-> "none", code |-> "none"]

Fresh == [pc |-> "idle", grant |-> NoGrant, writing |-> NoRecord, exit |-> "none"]

Init ==
    /\ disk = [g \in Grants |-> NoRecord] /\ synced = disk /\ temp = {}
    /\ helper = [h \in Helpers |-> Fresh]
    /\ auth = [g \in Grants |-> "none"] /\ age = [g \in Grants |-> "valid"]
    /\ outcome = [g \in Grants |-> "none"]
    /\ attempts = [g \in Grants |-> 0] /\ children = [g \in Grants |-> 0]

-------------------------------------------------------------------------------
At(h, pc)     == helper[h].pc = pc
Key(h)        == helper[h].grant
Goto(h, pc)   == helper' = [helper EXCEPT ![h].pc = pc]
Exit(h, code) == helper' = [helper EXCEPT ![h].pc = "idle", ![h].writing = NoRecord, ![h].exit = code]

(* verify: the signature, the policy and the time.                         *)
verify(h, g) ==
    /\ At(h, "idle")
    /\ age[g] = "valid"
    /\ helper' = [helper EXCEPT ![h] = [Fresh EXCEPT !.pc = "verified", !.grant = g]]
    /\ UNCHANGED <<files, auth, age, outcome, attempts, children>>

(* flock: the journal is read and the pending record saved by one helper   *)
(* at a time.                                                              *)
LockFree == \A h \in Helpers :
    At(h, "writing") \/ At(h, "renamed") => helper[h].writing.state # "pending"

(* The operation is on record, after a crash perhaps: the code it ended    *)
(* with, or 125 while there is none.                                       *)
Code(record) == IF record.code = "none" THEN "unknown" ELSE record.code

Replay(h) ==
    /\ At(h, "verified") /\ LockFree /\ disk[Key(h)].state # "none"
    /\ Exit(h, Code(disk[Key(h)]))
    /\ UNCHANGED <<files, auth, age, outcome, attempts, children>>

(* Mutant: a record is purged before its grant has expired.                *)
PurgedEarly == [g \in Grants |->
    IF disk[g].state \in {"complete", "not_started"} THEN NoRecord ELSE disk[g]]

(* A finished record is kept for a day after its grant expired.            *)
Purged == [g \in Grants |->
    IF disk[g].state \in {"complete", "not_started"} /\ age[g] = "day" THEN NoRecord ELSE disk[g]]

Save(h, state, code) ==
    /\ Key(h) \notin temp /\ temp' = temp \cup {Key(h)}
    /\ helper' = [helper EXCEPT ![h].pc = "writing",
          ![h].writing = [state |-> state, code |-> code]]

Admit(h) ==
    /\ At(h, "verified") /\ LockFree /\ disk[Key(h)].state = "none"
    /\ disk' = Purged
    /\ IF Cardinality({g \in Grants : Purged[g].state # "none"}) >= Limit \/ Key(h) \in temp
       THEN Exit(h, "refused") /\ UNCHANGED temp
       ELSE Save(h, "pending", "none")
    /\ UNCHANGED <<synced, auth, age, outcome, attempts, children>>

-------------------------------------------------------------------------------
(* save: a temporary file, renamed, and then the directory synced.         *)
SaveRenames(h) ==
    /\ At(h, "writing")
    /\ disk' = [disk EXCEPT ![Key(h)] = helper[h].writing]
    /\ temp' = temp \ {Key(h)}
    /\ Goto(h, "renamed")
    /\ UNCHANGED <<synced, auth, age, outcome, attempts, children>>

(* What execute returns once the record is saved.                          *)
Saved(h) ==
    CASE helper[h].writing.state = "pending" ->
            /\ Goto(h, "admitted")
            /\ attempts' = [attempts EXCEPT ![Key(h)] = @ + 1]
      [] OTHER -> Exit(h, helper[h].writing.code) /\ UNCHANGED attempts

(* Mutant: the directory is not synced.                                    *)
SaveUnsynced(h) ==
    /\ At(h, "renamed")
    /\ Saved(h)
    /\ UNCHANGED <<files, auth, age, outcome, children>>

SaveSyncs(h) ==
    /\ At(h, "renamed")
    /\ synced' = disk
    /\ Saved(h)
    /\ UNCHANGED <<disk, temp, auth, age, outcome, children>>

(* OSError while writing or syncing; the temporary file is unlinked.       *)
SaveRaises(h) ==
    /\ At(h, "writing") \/ At(h, "renamed")
    /\ temp' = IF At(h, "writing") THEN temp \ {Key(h)} ELSE temp
    /\ Exit(h, "refused")
    /\ UNCHANGED <<disk, synced, auth, age, outcome, attempts, children>>

-------------------------------------------------------------------------------
(* consume, and consume_authentication in the worker: the grant is used    *)
(* up, whether or not the helper learns it.                                *)
Consumable(g) == auth[g] = "available" /\ age[g] = "valid"

ConsumeAuthorized(h) ==
    /\ At(h, "admitted") /\ Consumable(helper[h].grant)
    /\ auth' = [auth EXCEPT ![helper[h].grant] = "consumed"]
    /\ Goto(h, "authorized")
    /\ UNCHANGED <<files, age, outcome, attempts, children>>

(* Refused, no worker, or no answer: nothing was started.                  *)
ConsumeRaises(h) ==
    /\ At(h, "admitted")
    /\ \/ UNCHANGED auth
       \/ Consumable(helper[h].grant) /\ auth' = [auth EXCEPT ![helper[h].grant] = "consumed"]
    /\ Save(h, "not_started", "refused")
    /\ UNCHANGED <<disk, synced, age, outcome, attempts, children>>

(* run_child; process creation itself may fail, with the record pending.   *)
ChildStarts(h) ==
    /\ At(h, "authorized")
    /\ outcome' = [outcome EXCEPT ![helper[h].grant] = "running"]
    /\ children' = [children EXCEPT ![helper[h].grant] = @ + 1]
    /\ Goto(h, "running")
    /\ UNCHANGED <<files, auth, age, attempts>>

ChildFails(h) ==
    /\ At(h, "authorized")
    /\ Exit(h, "refused")
    /\ UNCHANGED <<files, auth, age, outcome, attempts, children>>

(* The child exits, or is killed after the timeout, a signal or the end of *)
(* the helper's parent.  Without its helper nobody sees its code.          *)
ChildEnds(g) == \E code \in {"zero", "nonzero"} :
    /\ outcome[g] = "running"
    /\ outcome' = [outcome EXCEPT ![g] = code]
    /\ UNCHANGED <<files, helper, auth, age, attempts, children>>

(* Mutant: a child without an exit code yet counts as complete.            *)
CompleteEarly(h) ==
    /\ At(h, "running")
    /\ Save(h, "complete", "zero")
    /\ UNCHANGED <<disk, synced, auth, age, outcome, attempts, children>>

Complete(h) ==
    /\ At(h, "running") /\ outcome[helper[h].grant] # "running"
    /\ Save(h, "complete", outcome[helper[h].grant])
    /\ UNCHANGED <<disk, synced, auth, age, outcome, attempts, children>>

-------------------------------------------------------------------------------
(* commit_privileged makes the grant of an operation available.            *)
Commit(g) ==
    /\ auth[g] = "none" /\ age[g] = "valid"
    /\ auth' = [auth EXCEPT ![g] = "available"]
    /\ UNCHANGED <<files, helper, age, outcome, attempts, children>>

(* _finish and _snapshot: the operation ended, its grant is withdrawn.     *)
Withdraw(g) ==
    /\ auth[g] = "available"
    /\ auth' = [auth EXCEPT ![g] = "gone"]
    /\ UNCHANGED <<files, helper, age, outcome, attempts, children>>

(* The worker is replaced: its operations, and their epoch, are gone.      *)
WorkerEnds ==
    /\ auth' = [g \in Grants |-> "gone"]
    /\ UNCHANGED <<files, helper, age, outcome, attempts, children>>

(* Time passes; no helper takes a day from verify to the lock.             *)
Expire(g) ==
    /\ age' = [age EXCEPT ![g] = IF @ = "valid" THEN "expired" ELSE "day"]
    /\ age'[g] = "day" => \A h \in Helpers : ~(At(h, "verified") /\ helper[h].grant = g)
    /\ UNCHANGED <<files, helper, auth, outcome, attempts, children>>

(* A helper is killed; its child goes on, its temporary file stays.        *)
HelperDies(h) ==
    /\ ~At(h, "idle")
    /\ helper' = [helper EXCEPT ![h] = Fresh]
    /\ UNCHANGED <<files, auth, age, outcome, attempts, children>>

(* The machine stops: a rename or unlink that was not synced may be undone. *)
MachineStops ==
    /\ \E lost \in SUBSET Grants :
        /\ disk' = [g \in Grants |-> IF g \in lost THEN synced[g] ELSE disk[g]]
        /\ temp' \in SUBSET (temp \cup {g \in lost : synced[g] # disk[g]})
    /\ synced' = disk'
    /\ helper' = [h \in Helpers |-> Fresh]
    /\ auth' = [g \in Grants |-> "gone"]
    /\ outcome' = [g \in Grants |-> IF outcome[g] = "running" THEN "nonzero" ELSE outcome[g]]
    /\ UNCHANGED <<age, attempts, children>>

Next ==
    \/ \E h \in Helpers :
        \/ \E g \in Grants : verify(h, g)
        \/ Replay(h) \/ Admit(h) \/ SaveRenames(h) \/ SaveSyncs(h) \/ SaveRaises(h)
        \/ ConsumeAuthorized(h) \/ ConsumeRaises(h)
        \/ ChildStarts(h) \/ ChildFails(h) \/ Complete(h) \/ HelperDies(h)
    \/ \E g \in Grants : ChildEnds(g) \/ Commit(g) \/ Withdraw(g) \/ Expire(g)
    \/ WorkerEnds \/ MachineStops

Spec == Init /\ [][Next]_vars

-------------------------------------------------------------------------------
(* execute: whatever is repeated and whenever a helper, the worker or the  *)
(* machine dies, one helper at most goes on from the journal to the child  *)
(* of an operation, and one process is created for it.                     *)
AttemptedOnce == \A g \in Grants : attempts[g] <= 1 /\ children[g] <= attempts[g]

(* query, main: what a record and an exit status say is so.  not_started   *)
(* means no process was or will be created; complete has the code the      *)
(* process ended with; and exit status 0, which makes the worker report a  *)
(* shutdown accepted, means that the process of this operation ended so.   *)
ReportTruthful ==
    /\ \A g \in Grants :
        /\ disk[g].state = "not_started" => /\ children[g] = 0
                                           /\ \A h \in Helpers : At(h, "authorized") => Key(h) # g
        /\ disk[g].state = "complete" => outcome[g] = disk[g].code
    /\ \A h \in Helpers : helper[h].exit = "zero" => outcome[Key(h)] = "zero"

(* The record precedes the process: a process that was created is on       *)
(* record, also after a power failure, until a day after its grant.        *)
ChildOnRecord == \A g \in Grants : (children[g] > 0 /\ age[g] # "day") =>
    disk[g].state \in {"pending", "complete"} /\ synced[g].state # "none"
===============================================================================
