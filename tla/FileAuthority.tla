----------------------------- MODULE FileAuthority ----------------------------
(***************************************************************************)
(* Remote file authority: RemoteFiles of the native plugin                 *)
(* (pal_shell_native/files.py), the file protocol of the worker            *)
(* (pal_shell_worker/files.py) and the registry behind it                  *)
(* (_file_core/file_registry.py), for one scope.                           *)
(*                                                                         *)
(* The plugin owns the view: which results are in the conversation (live), *)
(* which operations still may deliver one (pending), what the projected    *)
(* context shows (visible), whether the scope is closed.  Every change     *)
(* raises the revision, and a call is dispatched only after the worker has *)
(* confirmed the revision.  A result is named by its operation; what its   *)
(* manifest proves is the subject of FileSession.  Requests stay on the    *)
(* wire after their sender has given up and may be handled later or never. *)
(* The plugin may crash and come back with an older checkpoint.  A scope   *)
(* belongs to one runtime epoch of the worker: a restarted worker answers  *)
(* none of its requests, which the wire models as lost.                    *)
(***************************************************************************)
EXTENDS Integers, FiniteSets

CONSTANTS
    Ops,         \* operation identifiers, handed out in order
    Views,       \* projections of the context
    Everything,  \* the projection of a new scope
    MaxChanges,  \* bound on changes of the view that no call asks for
    MaxCrashes,  \* bound on crashes of the plugin
    MaxLate,     \* bound on given-up requests that may still arrive
    None

ASSUME OpsAssumption == Ops \subseteq Nat
ASSUME ViewsAssumption == Everything \in Views
ASSUME NoneAssumption == None \notin Ops

VARIABLES
    revision, acked, live, pending, unresolved, closed, visible, \* the plugin's scope
    job,       \* the coroutine that holds the scope's lock
    used,      \* operations begun
    wire,      \* requests the worker has not handled
    wrev, wview, staged, retired, goneResults, \* the worker's scope
    journal,   \* the worker's operation journal
    asked,     \* the revision a pending operation of the journal named
    saved,     \* the plugin's last checkpoint
    changes, crashes, \* what MaxChanges and MaxCrashes count
    sent,      \* operation |-> view it was dispatched with, until it ends (history)
    rejected   \* operations reported as not executed (history)

plugin == <<revision, acked, live, pending, unresolved, closed, visible>>
worker == <<wrev, wview, staged, retired, goneResults, journal, asked>>
ghosts == <<sent, rejected>>
vars == <<plugin, job, used, wire, worker, saved, changes, crashes, ghosts>>

ViewSet == [live : SUBSET Ops, pending : SUBSET Ops, closed : BOOLEAN, visible : Views]

View == [live |-> live, pending |-> pending, closed |-> closed, visible |-> visible]

NewView == [live |-> {}, pending |-> {}, closed |-> FALSE, visible |-> Everything]

NoCheckpoint == [revision |-> 0, unresolved |-> {}, view |-> NewView]

SyncMessage(rev, view) == [kind |-> "sync", op |-> None, rev |-> rev, view |-> view]
ExecuteMessage(op, rev) == [kind |-> "execute", op |-> op, rev |-> rev, view |-> NewView]

(* The lock is free, or held by a call, by the recovery of an unresolved   *)
(* operation, or by a synchronisation alone.                               *)
NoJob == [kind |-> "none", pc |-> "none", op |-> None, rev |-> -1, view |-> NewView, reply |-> "none"]

(* A new request; of the ones given up, all but MaxLate are lost by now.   *)
Send(m) ==
    \E late \in SUBSET wire :
        /\ Cardinality(late) <= MaxLate
        /\ wire' = late \cup {m}

Job(kind, pc, op) == [NoJob EXCEPT !.kind = kind, !.pc = pc, !.op = op]

Init ==
    /\ revision = 0 /\ acked = -1
    /\ live = {} /\ pending = {} /\ unresolved = {}
    /\ closed = FALSE /\ visible = Everything
    /\ job = NoJob
    /\ used = {}
    /\ wire = {}
    /\ wrev = -1 /\ wview = NewView
    /\ staged = {} /\ retired = {} /\ goneResults = {}
    /\ journal = [o \in Ops |-> "absent"]
    /\ asked = [o \in Ops |-> -1]
    /\ saved = NoCheckpoint
    /\ changes = 0
    /\ crashes = 0
    /\ sent = [o \in Ops |-> NewView]
    /\ rejected = {}

-------------------------------------------------------------------------------
(* Changes of the view by the host, at any time: no lock, no await.  Each  *)
(* raises the revision, so that the next synchronisation sends it.         *)

(* Results in the hands of the host, not committed or discarded yet.       *)
Returned == pending \ (unresolved \cup {job.op})

Changes(change) ==
    IF change THEN changes < MaxChanges /\ changes' = changes + 1 ELSE changes' = changes

(* A result reached the conversation.                                      *)
commit(op) ==
    /\ op \in Returned
    /\ ~closed
    /\ live' = live \cup {op}
    /\ pending' = pending \ {op}
    /\ revision' = revision + 1
    /\ UNCHANGED <<acked, unresolved, closed, visible, job, used, wire, worker,
                   saved, changes, crashes, ghosts>>

(* A call's result is given up, by the host or because nothing of it was   *)
(* left to deliver.                                                        *)
discard(op) ==
    /\ Changes(TRUE)
    /\ op \in pending
    /\ job.op # op
    /\ pending' = pending \ {op}
    /\ revision' = revision + 1
    /\ UNCHANGED <<acked, live, unresolved, closed, visible, job, used, wire, worker,
                   saved, crashes, ghosts>>

(* Results leave the conversation: compaction, or no history names them.   *)
retire(results) ==
    /\ Changes(TRUE)
    /\ results # {}
    /\ live' = live \ results
    /\ revision' = revision + 1
    /\ UNCHANGED <<acked, pending, unresolved, closed, visible, job, used, wire, worker,
                   saved, crashes, ghosts>>

(* The projection for the next model call shows something else.            *)
project(view) ==
    /\ Changes(TRUE)
    /\ ~closed
    /\ view # visible
    /\ visible' = view
    /\ revision' = revision + 1
    /\ UNCHANGED <<acked, live, pending, unresolved, closed, job, used, wire, worker,
                   saved, crashes, ghosts>>

(* The logical lifetime ends.                                              *)
retire_scope ==
    /\ Changes(TRUE)
    /\ ~closed
    /\ live' = {}
    /\ pending' = {}
    /\ closed' = TRUE
    /\ revision' = revision + 1
    /\ UNCHANGED <<acked, unresolved, visible, job, used, wire, worker,
                   saved, crashes, ghosts>>

-------------------------------------------------------------------------------
(* Coroutines under the lock.                                              *)

(* execute, up to its first await: project, then recover an unresolved     *)
(* operation before anything else is admitted, or enter the new operation  *)
(* among the pending ones.                                                 *)
BeginRecovery(view) ==
    /\ Changes(view # visible)
    /\ job = NoJob
    /\ unresolved # {}
    /\ visible' = view
    /\ revision' = IF view = visible THEN revision ELSE revision + 1
    /\ \E op \in unresolved : job' = Job("recovery", "query", op)
    /\ UNCHANGED <<acked, live, pending, unresolved, closed, used, wire, worker,
                   saved, crashes, ghosts>>

(* Mutant: a call is admitted beside an unresolved one and under the       *)
(* revision that was confirmed for it.                                     *)
BeginCallBeside(op, view) ==
    /\ view = visible
    /\ job = NoJob
    /\ ~closed
    /\ op \notin used
    /\ \A o \in Ops \ used : op <= o
    /\ used' = used \cup {op}
    /\ job' = Job("call", "sync", op)
    /\ UNCHANGED <<plugin, wire, worker, saved, changes, crashes, ghosts>>

BeginCall(op, view) ==
    /\ Changes(view # visible)
    /\ job = NoJob
    /\ unresolved = {}
    /\ ~closed
    /\ op \notin used
    /\ \A o \in Ops \ used : op <= o
    /\ used' = used \cup {op}
    /\ visible' = view
    /\ pending' = pending \cup {op}
    /\ revision' = IF view = visible THEN revision + 1 ELSE revision + 2
    /\ job' = Job("call", "sync", op)
    /\ UNCHANGED <<acked, live, unresolved, closed, wire, worker, saved, crashes, ghosts>>

(* The flush a change has scheduled, an acknowledgement, a reconnect.      *)
BeginFlush ==
    /\ job = NoJob
    /\ acked # revision
    /\ job' = Job("flush", "sync", None)
    /\ UNCHANGED <<plugin, used, wire, worker, saved, changes, crashes, ghosts>>

(* _sync: copy the view and its revision, upload and send them.            *)
SyncSend ==
    /\ job.pc = "sync"
    /\ acked # revision
    /\ job' = [job EXCEPT !.pc = "syncing", !.rev = revision, !.view = View]
    /\ Send(SyncMessage(revision, View))
    /\ UNCHANGED <<plugin, used, worker, saved, changes, crashes, ghosts>>

SyncConfirmed ==
    /\ job.pc = "syncing"
    /\ job.reply = "ok"
    /\ acked' = job.rev
    /\ job' = Job(job.kind, "sync", job.op)
    /\ UNCHANGED <<revision, live, pending, unresolved, closed, visible, used,
                   wire, worker, saved, changes, crashes, ghosts>>

FlushDone ==
    /\ job.pc = "sync"
    /\ job.kind = "flush"
    /\ acked = revision
    /\ job' = NoJob
    /\ UNCHANGED <<plugin, used, wire, worker, saved, changes, crashes, ghosts>>

(* The worker refused the revision, or no answer came.                     *)
FlushFails ==
    /\ job.pc = "syncing"
    /\ job.kind = "flush"
    /\ job' = NoJob
    /\ UNCHANGED <<plugin, used, wire, worker, saved, changes, crashes, ghosts>>

(* A call that ends without having been dispatched.                        *)
Abandon ==
    /\ pending' = pending \ {job.op}
    /\ revision' = IF job.op \in pending THEN revision + 1 ELSE revision
    /\ rejected' = rejected \cup {job.op}
    /\ job' = NoJob
    /\ UNCHANGED <<acked, live, closed, visible, used, worker, saved, changes, crashes, sent>>

CallUnsynced ==
    /\ job.kind = "call"
    /\ job.pc \in {"syncing", "uploading"}
    /\ Abandon
    /\ UNCHANGED <<unresolved, wire>>

(* The worker holds this revision: name it in the request and upload that. *)
CallUpload ==
    /\ job.kind = "call"
    /\ job.pc = "sync"
    /\ acked = revision
    /\ job' = [job EXCEPT !.pc = "uploading", !.rev = revision]
    /\ UNCHANGED <<plugin, used, wire, worker, saved, changes, crashes, ghosts>>

(* Mutant: the revision is not compared again after the upload.            *)
DispatchUnchecked ==
    /\ job.kind = "call"
    /\ job.pc = "uploading"
    /\ unresolved' = unresolved \cup {job.op}
    /\ Send(ExecuteMessage(job.op, job.rev))
    /\ sent' = [sent EXCEPT ![job.op] = View]
    /\ job' = [job EXCEPT !.pc = "submitted"]
    /\ UNCHANGED <<revision, acked, live, pending, closed, visible, used, worker,
                   saved, changes, crashes, rejected>>

(* Behind the upload the view must still be the confirmed one.             *)
Dispatch ==
    /\ job.kind = "call"
    /\ job.pc = "uploading"
    /\ job.rev = revision
    /\ unresolved' = unresolved \cup {job.op}
    /\ Send(ExecuteMessage(job.op, job.rev))
    /\ sent' = [sent EXCEPT ![job.op] = View]
    /\ job' = [job EXCEPT !.pc = "submitted"]
    /\ UNCHANGED <<revision, acked, live, pending, closed, visible, used, worker,
                   saved, changes, crashes, rejected>>

(* The submission itself was refused before anything was started.          *)
NotStarted ==
    /\ job.pc = "submitted"
    /\ job.reply = "not_started"
    /\ unresolved' = unresolved \ {job.op}
    /\ Abandon
    /\ UNCHANGED wire

Submitted ==
    /\ job.pc = "submitted"
    /\ job.reply = "ok"
    /\ job' = Job("call", "query", job.op)
    /\ UNCHANGED <<plugin, used, wire, worker, saved, changes, crashes, ghosts>>

(* Mutant: a query that fails settles the operation.                       *)
UnknownIsRejected ==
    /\ job.pc \in {"submitted", "query"}
    /\ unresolved' = unresolved \ {job.op}
    /\ Abandon
    /\ UNCHANGED wire

(* No answer, or none that settles the operation: it stays unresolved.     *)
Unknown ==
    /\ job.pc \in {"submitted", "query"}
    /\ job' = NoJob
    /\ UNCHANGED <<plugin, used, wire, worker, saved, changes, crashes, ghosts>>

Settled(op) == journal[op] \notin {"absent", "pending"}

(* The journal's answer.  A call hands a result with a manifest to the     *)
(* host; without one it leaves nothing to deliver.  A recovery only        *)
(* reports the receipt.                                                    *)
CallAnswered ==
    /\ job.kind = "call"
    /\ job.pc = "query"
    /\ Settled(job.op)
    /\ unresolved' = unresolved \ {job.op}
    /\ IF journal[job.op] = "done" THEN UNCHANGED <<pending, revision>>
       ELSE /\ pending' = pending \ {job.op}
            /\ revision' = IF job.op \in pending THEN revision + 1 ELSE revision
    /\ job' = NoJob
    /\ UNCHANGED <<acked, live, closed, visible, used, wire, worker, saved, changes, crashes, ghosts>>

Recovered ==
    /\ job.kind = "recovery"
    /\ job.pc = "query"
    /\ Settled(job.op)
    /\ unresolved' = unresolved \ {job.op}
    /\ pending' = pending \ {job.op}
    /\ revision' = IF job.op \in pending THEN revision + 1 ELSE revision
    /\ job' = NoJob
    /\ UNCHANGED <<acked, live, closed, visible, used, wire, worker,
                   saved, changes, crashes, ghosts>>

-------------------------------------------------------------------------------
(* The worker.                                                             *)

(* What registry.sync accepts as a new revision.                           *)
SyncAccepts(rev, view) ==
    /\ rev > wrev
    /\ ~wview.closed
    /\ view.closed => view.live \cup view.pending = {}
    /\ view.live \cap (goneResults \cup retired) = {}
    /\ view.live \subseteq staged
    /\ view.pending \cap retired = {}

Awaited == IF job.pc = "syncing" THEN SyncMessage(job.rev, job.view)
           ELSE ExecuteMessage(job.op, job.rev)

Answer(m, reply) ==
    job' = IF job.pc \in {"syncing", "submitted"} /\ m = Awaited
           THEN [job EXCEPT !.reply = reply] ELSE job

(* Mutant: results and operations that leave the view are not buried.      *)
SyncWithoutTombstones(m) ==
    /\ m.kind = "sync"
    /\ SyncAccepts(m.rev, m.view)
    /\ wire' = wire \ {m}
    /\ wrev' = m.rev
    /\ wview' = m.view
    /\ Answer(m, "ok")
    /\ UNCHANGED <<plugin, used, staged, retired, goneResults, journal, asked, saved, changes, crashes, ghosts>>

(* registry.sync: what leaves the view is retired for good.                *)
SyncHandled(m) ==
    /\ m.kind = "sync"
    /\ SyncAccepts(m.rev, m.view)
    /\ wire' = wire \ {m}
    /\ wrev' = m.rev
    /\ wview' = m.view
    /\ LET keep == m.view.live \cup m.view.pending
       IN  /\ retired' = retired \cup (staged \ keep)
           /\ staged' = staged \cap keep
    /\ goneResults' = goneResults \cup (wview.live \ m.view.live)
    /\ Answer(m, "ok")
    /\ UNCHANGED <<plugin, used, journal, asked, saved, changes, crashes, ghosts>>

(* The revision is known: the same view is confirmed again.  Another one   *)
(* is refused, like everything registry.sync does not accept; to the       *)
(* sender a refusal is a failure like no answer at all.                    *)
SyncUnchanged(m) ==
    /\ m.kind = "sync"
    /\ ~SyncAccepts(m.rev, m.view)
    /\ wire' = wire \ {m}
    /\ IF m.rev = wrev /\ m.view = wview THEN Answer(m, "ok") ELSE job' = job
    /\ UNCHANGED <<plugin, used, worker, saved, changes, crashes, ghosts>>

(* file_execute enters the operation in the journal, or refuses it: the    *)
(* worker drains, its journal is full, or the request was never sent.      *)
ExecuteRecorded(m) ==
    /\ m.kind = "execute"
    /\ wire' = wire \ {m}
    /\ \/ /\ journal' = [journal EXCEPT ![m.op] = "pending"]
          /\ asked' = [asked EXCEPT ![m.op] = m.rev]
          /\ Answer(m, "ok")
       \/ /\ Answer(m, "not_started")
          /\ UNCHANGED <<journal, asked>>
    /\ UNCHANGED <<plugin, used, wrev, wview, staged, retired, goneResults,
                   saved, changes, crashes, ghosts>>

Executable(op) ==
    /\ ~wview.closed
    /\ asked[op] = wrev
    /\ wrev >= 0
    /\ op \notin retired \cup staged

(* Mutant: a refusal by the registry does not finish the operation.        *)
RunForgotten(op) ==
    /\ journal[op] = "pending"
    /\ Executable(op)
    /\ \E outcome \in {"done", "spent"} :
          /\ journal' = [journal EXCEPT ![op] = outcome]
          /\ staged' = IF outcome = "done" THEN staged \cup {op} ELSE staged
    /\ asked' = [asked EXCEPT ![op] = -1]
    /\ sent' = [sent EXCEPT ![op] = NewView]
    /\ UNCHANGED <<plugin, job, used, wire, wrev, wview, retired, goneResults,
                   saved, changes, crashes, rejected>>

(* The journalled operation runs under the registry lock if it names the   *)
(* worker's current revision.  The journal keeps a result with a manifest  *)
(* (done), or one without or none at all because it could not be retained  *)
(* (spent).                                                                *)
Run(op) ==
    /\ journal[op] = "pending"
    /\ \/ /\ ~Executable(op)
          /\ journal' = [journal EXCEPT ![op] = "refused"]
          /\ UNCHANGED staged
       \/ /\ Executable(op)
          /\ \E outcome \in {"done", "spent"}, keeps \in BOOLEAN :
                /\ outcome = "done" => keeps
                /\ journal' = [journal EXCEPT ![op] = outcome]
                /\ staged' = IF keeps THEN staged \cup {op} ELSE staged
    /\ asked' = [asked EXCEPT ![op] = -1]
    /\ sent' = [sent EXCEPT ![op] = NewView]
    /\ UNCHANGED <<plugin, job, used, wire, wrev, wview, retired, goneResults,
                   saved, changes, crashes, rejected>>

-------------------------------------------------------------------------------
(* Checkpoint, crash and restore.  Nothing confirmed before counts; the    *)
(* restored history may name fewer results; pending operations survive     *)
(* only if they are unresolved.  A checkpoint no crash will read is dropped. *)

snapshot ==
    /\ crashes < MaxCrashes
    /\ saved' = [revision |-> revision, unresolved |-> unresolved, view |-> View]
    /\ UNCHANGED <<plugin, job, used, wire, worker, changes, crashes, ghosts>>

CrashRestore(present) ==
    /\ crashes < MaxCrashes
    /\ crashes' = crashes + 1
    /\ revision' = saved.revision + 1
    /\ acked' = -1
    /\ live' = saved.view.live \cap present
    /\ pending' = saved.view.pending \cap saved.unresolved
    /\ unresolved' = saved.unresolved
    /\ closed' = saved.view.closed
    /\ visible' = saved.view.visible
    /\ job' = NoJob
    /\ saved' = IF crashes' < MaxCrashes THEN saved ELSE NoCheckpoint
    /\ UNCHANGED <<used, wire, worker, changes, ghosts>>

-------------------------------------------------------------------------------
Coroutine ==
    \/ SyncSend \/ SyncConfirmed \/ FlushDone \/ CallUpload \/ Dispatch
    \/ Submitted \/ NotStarted \/ CallAnswered \/ Recovered

GivesUp == FlushFails \/ CallUnsynced \/ Unknown

Worker ==
    \/ \E m \in wire : SyncHandled(m) \/ SyncUnchanged(m) \/ ExecuteRecorded(m)
    \/ \E op \in Ops : Run(op)

Next ==
    \/ \E op \in Ops : \/ commit(op) \/ discard(op)
                       \/ \E view \in Views : BeginCall(op, view)
    \/ \E results \in SUBSET live : retire(results)
    \/ \E view \in Views : project(view) \/ BeginRecovery(view)
    \/ retire_scope
    \/ BeginFlush
    \/ Coroutine
    \/ GivesUp
    \/ Worker
    \/ snapshot
    \/ \E present \in SUBSET saved.view.live : CrashRestore(present)

Spec == Init /\ [][Next]_vars

(* Every request has an RPC deadline, a context that changed behind the    *)
(* upload ends the call, and the journal answers a query for an operation  *)
(* it does not know with an error.  Nothing makes a request arrive.        *)
Deadline ==
    \/ job.pc \in {"syncing", "submitted"}
    \/ job.pc = "uploading" /\ job.rev # revision
    \/ job.pc = "query" /\ journal[job.op] = "absent"

FairSpec ==
    /\ Spec
    /\ WF_vars(Coroutine)
    /\ WF_vars(Deadline /\ GivesUp)
    /\ WF_vars(\E op \in Ops : Run(op))

-------------------------------------------------------------------------------
(* An operation runs with the authority it was dispatched with: the view   *)
(* in which the worker's registry runs it is the plugin's at the moment of *)
(* dispatch, whatever was retired, restored, lost or handled late in       *)
(* between (_sync, execute, registry.execute).                             *)
RunsAsDispatched ==
    [][\A op \in Ops :
        journal[op] = "pending" /\ journal'[op] \in {"done", "spent"}
            => wview = sent[op]]_vars

(* At most one operation of a scope can still take effect: even after a    *)
(* crash that forgot an unresolved one, no later operation is dispatched   *)
(* while an earlier one may still run.                                     *)
Runnable(op) ==
    \/ \E m \in wire : m.kind = "execute" /\ m.op = op /\ m.rev = wrev
    \/ journal[op] = "pending" /\ asked[op] = wrev

OneRunnable == \A o, p \in Ops : Runnable(o) /\ Runnable(p) /\ ~wview.closed => o = p

(* A call reported as rejected never takes effect, not even late.          *)
RejectedNeverRuns ==
    \A op \in rejected : /\ journal[op] \in {"absent", "refused"}
                         /\ ~\E m \in wire : m.kind = "execute" /\ m.op = op

(* The phase the worker's state gives an operation.                        *)
Phase(op) ==
    IF op \in retired \cup goneResults THEN "retired"
    ELSE IF op \in wview.live THEN "live"
    ELSE IF op \in staged THEN "staged"
    ELSE IF journal[op] \in {"done", "spent"} THEN "spent"
    ELSE IF op \in rejected \/ journal[op] = "refused" THEN "void"
    ELSE "new"

Lifecycle == INSTANCE ResultLifecycle WITH phase <- [op \in Ops |-> Phase(op)]

(* The protocol implements the one-way life of an operation and its        *)
(* result: nothing runs twice or after a rejection, and what the host gave *)
(* up never gains authority again, not even from an older checkpoint or a  *)
(* late request (the tombstones of registry.sync).                         *)
ImplementsLifecycle == Lifecycle!Spec

(* The scope's lock is always given back, so that the next file call can   *)
(* recover, although queries poll for as long as an operation is pending.  *)
LockReleased == job # NoJob ~> job = NoJob

===============================================================================
