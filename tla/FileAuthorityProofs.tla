-------------------------- MODULE FileAuthorityProofs -------------------------
(***************************************************************************)
(* Proofs about FileAuthority, for any set of operations and projections   *)
(* and any bounds: an operation runs with the authority it was dispatched  *)
(* with, at most one can still run, a rejected one never does, and the     *)
(* protocol implements ResultLifecycle.                                    *)
(*                                                                         *)
(* The argument rests on one relation between the plugin and the worker.   *)
(* A revision is confirmed with a view when the worker has reached it and, *)
(* if it is still there, holds that view; the worker's revision only       *)
(* grows, so a confirmation is never lost.  Everything the plugin relies   *)
(* on (the acknowledged revision, the answer of a synchronisation, the     *)
(* revision a request names) is a confirmation.                            *)
(***************************************************************************)
EXTENDS FileAuthority, TLAPS

MessageSet == [kind : {"sync", "execute"}, op : Ops \cup {None}, rev : Int, view : ViewSet]

JobSet == [kind : {"none", "call", "recovery", "flush"},
           pc : {"none", "sync", "syncing", "uploading", "submitted", "query"},
           op : Ops \cup {None}, rev : Int, view : ViewSet,
           reply : {"none", "ok", "not_started"}]

Journal == {"absent", "pending", "done", "spent", "refused"}

(* The type invariant.                                                     *)
TypeOK ==
    /\ revision \in Nat /\ acked \in Int
    /\ live \in SUBSET Ops /\ pending \in SUBSET Ops /\ unresolved \in SUBSET Ops
    /\ closed \in BOOLEAN /\ visible \in Views
    /\ job \in JobSet
    /\ used \in SUBSET Ops
    /\ wire \in SUBSET MessageSet
    /\ wrev \in Int /\ wview \in ViewSet
    /\ staged \in SUBSET Ops /\ retired \in SUBSET Ops /\ goneResults \in SUBSET Ops
    /\ journal \in [Ops -> Journal]
    /\ asked \in [Ops -> Int]
    /\ saved \in [revision : Nat, unresolved : SUBSET Ops, view : ViewSet]
    /\ sent \in [Ops -> ViewSet]
    /\ rejected \in SUBSET Ops

(* The worker has reached revision r, and holds view v if it is still      *)
(* there.                                                                  *)
Confirmed(r, v) == r <= wrev /\ (r = wrev => wview = v)

Execute(o) == {m \in wire : m.kind = "execute" /\ m.op = o}

(* What the plugin believes confirmed is.                                  *)
PluginInv ==
    /\ acked <= revision
    /\ acked = revision => Confirmed(revision, View)
    /\ job.pc = "syncing" =>
          /\ job.rev <= revision
          /\ job.rev = revision => job.view = View
          /\ job.reply = "ok" => Confirmed(job.rev, job.view)
    /\ job.pc = "uploading" =>
          /\ job.rev <= revision
          /\ job.rev = revision => Confirmed(revision, View)

Undispatched == job.kind = "call" /\ job.pc \in {"sync", "syncing", "uploading"}

(* What the coroutine under the lock may rely on.                          *)
JobInv ==
    /\ job.pc \in {"uploading", "submitted"} => job.kind = "call"
    /\ job.pc \in {"sync", "uploading"} => job.reply = "none"
    /\ job.kind = "call" => job.op \in used \ rejected
    /\ job.kind \in {"call", "recovery"} => job.op \in Ops
    /\ job.kind = "flush" => job.pc \in {"sync", "syncing"}
    /\ Undispatched => /\ unresolved = {}
                       /\ job.op \in pending \/ closed
                       /\ journal[job.op] = "absent"
                       /\ Execute(job.op) = {}
    /\ job.kind = "call" /\ job.pc \in {"submitted", "query"} => job.op \in unresolved
    /\ job.pc = "submitted" /\ job.reply = "not_started" =>
          journal[job.op] = "absent" /\ Execute(job.op) = {}
    /\ \A o \in pending : \/ o \in unresolved
                          \/ journal[o] = "done"
                          \/ job.kind = "call" /\ job.op = o

InFlight(o) == Execute(o) # {} \/ journal[o] = "pending"

(* What is on its way to the worker or waits there.                        *)
FlightInv ==
    /\ \A o \in Ops, m \in wire : m \in Execute(o) =>
          /\ Confirmed(m.rev, sent[o])
          /\ journal[o] = "absent"
          /\ o \in used \ rejected
          /\ \A n \in Execute(o) : n = m
    /\ \A o \in Ops :
          /\ journal[o] = "pending" => Confirmed(asked[o], sent[o])
          /\ journal[o] # "absent" => o \in used
          /\ InFlight(o) => /\ sent[o].closed \/ o \in sent[o].pending
                            /\ \A p \in sent[o].pending \ {o} : journal[p] = "done"
    /\ \A o \in rejected : o \in used /\ journal[o] \in {"absent", "refused"}

(* The worker's registry.                                                  *)
RegistryInv ==
    /\ staged \cap retired = {}
    /\ wview.live \subseteq staged
    /\ wview.live \cap goneResults = {}
    /\ \A o \in staged \cup retired \cup goneResults : journal[o] \in {"done", "spent"}

Inv == TypeOK /\ PluginInv /\ JobInv /\ FlightInv /\ RegistryInv

-------------------------------------------------------------------------------
(* The records the plugin and the wire hold.                               *)
LEMMA RecordTypes ==
    /\ NewView \in ViewSet
    /\ NoCheckpoint \in [revision : Nat, unresolved : SUBSET Ops, view : ViewSet]
    /\ NoJob \in JobSet
    /\ \A op \in Ops \cup {None} :
          /\ Job("call", "sync", op) \in JobSet
          /\ Job("recovery", "query", op) \in JobSet
          /\ Job("flush", "sync", op) \in JobSet
          /\ Job("call", "query", op) \in JobSet
          /\ \A job0 \in JobSet : Job(job0.kind, "sync", op) \in JobSet
    /\ TypeOK => View \in ViewSet
<1>1. NewView \in ViewSet
  BY ViewsAssumption DEF NewView, ViewSet
<1>2. TypeOK => View \in ViewSet
  BY DEF TypeOK, View, ViewSet
<1>3. NoJob \in JobSet
  BY <1>1 DEF NoJob, JobSet
<1>4. \A kind \in {"none", "call", "recovery", "flush"}, pc \in {"sync", "query"},
         op \in Ops \cup {None} :
        Job(kind, pc, op) \in JobSet
  BY <1>3, Zenon DEF Job, JobSet
<1>5. NoCheckpoint \in [revision : Nat, unresolved : SUBSET Ops, view : ViewSet]
  BY <1>1 DEF NoCheckpoint
<1>6. \A job0 \in JobSet : job0.kind \in {"none", "call", "recovery", "flush"}
  BY DEF JobSet
<1>q. QED
  BY <1>1, <1>2, <1>3, <1>4, <1>5, <1>6

(* Every step preserves the types; the operation of a call or a recovery   *)
(* is one of Ops.                                                          *)
LEMMA TypePreserved == TypeOK /\ JobInv /\ [Next]_vars => TypeOK'
<1> SUFFICES ASSUME TypeOK /\ JobInv, [Next]_vars PROVE TypeOK'
  OBVIOUS
<1> USE ViewsAssumption DEF TypeOK, plugin, worker, ghosts
<1>1. CASE \E op \in Ops : commit(op)
  BY <1>1 DEF commit, Returned
<1>2. CASE \E op \in Ops : discard(op)
  BY <1>2 DEF discard
<1>3. CASE \E results \in SUBSET live : retire(results)
  BY <1>3 DEF retire
<1>4. CASE \E view \in Views : project(view)
  BY <1>4 DEF project
<1>5. CASE retire_scope
  BY <1>5 DEF retire_scope
<1>6. CASE \E view \in Views : BeginRecovery(view)
  <2>1. job' \in JobSet
    BY <1>6, RecordTypes DEF BeginRecovery
  <2>2. QED
    BY <1>6, <2>1 DEF BeginRecovery
<1>7. CASE \E op \in Ops, view \in Views : BeginCall(op, view)
  BY <1>7, RecordTypes DEF BeginCall
<1>8. CASE BeginFlush
  BY <1>8, RecordTypes DEF BeginFlush
<1>9. CASE SyncSend
  <2>1. View \in ViewSet
    BY RecordTypes
  <2>2. job' \in JobSet
    <3>1. \A j \in JobSet, r \in Int, v \in ViewSet :
            [j EXCEPT !.pc = "syncing", !.rev = r, !.view = v] \in JobSet
      BY Zenon DEF JobSet
    <3>2. job \in JobSet /\ revision \in Int
      OBVIOUS
    <3>3. job' = [job EXCEPT !.pc = "syncing", !.rev = revision, !.view = View]
      BY <1>9 DEF SyncSend
    <3>4. QED
      BY <2>1, <3>1, <3>2, <3>3, Zenon
  <2>3. SyncMessage(revision, View) \in MessageSet
    BY <2>1 DEF SyncMessage, MessageSet
  <2>4. QED
    BY <1>9, <2>2, <2>3 DEF SyncSend, Send
<1>10. CASE SyncConfirmed
  <2>1. job.op \in Ops \cup {None} /\ job.rev \in Int
    BY DEF JobSet
  <2>2. QED
    BY <1>10, <2>1, RecordTypes, Zenon DEF SyncConfirmed
<1>11. CASE FlushDone
  BY <1>11, RecordTypes DEF FlushDone
<1>12. CASE FlushFails
  BY <1>12, RecordTypes DEF FlushFails
<1>13. CASE CallUnsynced
  <2>1. job.op \in Ops
    BY <1>13 DEF CallUnsynced, JobInv
  <2>2. QED
    BY <1>13, <2>1, RecordTypes DEF CallUnsynced, Abandon
<1>14. CASE CallUpload
  <2>1. job' \in JobSet
    BY <1>14, Zenon DEF CallUpload, JobSet
  <2>2. QED
    BY <1>14, <2>1 DEF CallUpload
<1>15. CASE Dispatch
  <2>1. job' \in JobSet /\ job.op \in Ops /\ job.rev \in Int
    BY <1>15 DEF Dispatch, JobSet, JobInv
  <2>2. ExecuteMessage(job.op, job.rev) \in MessageSet /\ View \in ViewSet
    BY <2>1, RecordTypes DEF ExecuteMessage, MessageSet
  <2>3. QED
    BY <1>15, <2>1, <2>2 DEF Dispatch, Send
<1>16. CASE NotStarted
  BY <1>16, RecordTypes DEF NotStarted, Abandon, JobInv
<1>17. CASE Submitted
  BY <1>17, RecordTypes DEF Submitted, JobInv
<1>18. CASE Unknown
  BY <1>18, RecordTypes DEF Unknown
<1>19. CASE CallAnswered
  BY <1>19, RecordTypes DEF CallAnswered
<1>20. CASE Recovered
  BY <1>20, RecordTypes DEF Recovered
<1>21. CASE \E m \in wire : SyncHandled(m)
  <2> PICK m \in wire : SyncHandled(m)
    BY <1>21
  <2>1. job' \in JobSet
    BY DEF SyncHandled, Answer, JobSet
  <2>2. m.rev \in Int /\ m.view \in ViewSet
    BY DEF MessageSet
  <2>3. goneResults' \in SUBSET Ops
    BY DEF SyncHandled, ViewSet
  <2>4. QED
    BY <2>1, <2>2, <2>3 DEF SyncHandled
<1>22. CASE \E m \in wire : SyncUnchanged(m)
  <2>1. job' \in JobSet
    BY <1>22 DEF SyncUnchanged, Answer, JobSet
  <2>2. QED
    BY <1>22, <2>1 DEF SyncUnchanged
<1>23. CASE \E m \in wire : ExecuteRecorded(m)
  <2> PICK m \in wire : ExecuteRecorded(m)
    BY <1>23
  <2>1. job' \in JobSet
    BY DEF ExecuteRecorded, Answer, JobSet
  <2>2. m.rev \in Int
    BY DEF MessageSet
  <2>3. journal' \in [Ops -> Journal] /\ asked' \in [Ops -> Int]
    BY <2>2 DEF ExecuteRecorded, Journal
  <2>4. QED
    BY <2>1, <2>3 DEF ExecuteRecorded
<1>24. CASE \E op \in Ops : Run(op)
  <2> PICK op \in Ops : Run(op)
    BY <1>24
  <2>1. journal' \in [Ops -> Journal] /\ staged' \in SUBSET Ops
    BY DEF Run, Journal
  <2>2. asked' \in [Ops -> Int] /\ sent' \in [Ops -> ViewSet]
    BY RecordTypes DEF Run
  <2>3. QED
    BY <2>1, <2>2 DEF Run
<1>25. CASE snapshot
  BY <1>25, RecordTypes DEF snapshot
<1>26. CASE \E present \in SUBSET saved.view.live : CrashRestore(present)
  <2>1. saved.view \in ViewSet /\ saved.unresolved \in SUBSET Ops /\ saved.revision \in Nat
    OBVIOUS
  <2>2. /\ saved.view.live \in SUBSET Ops /\ saved.view.pending \in SUBSET Ops
        /\ saved.view.closed \in BOOLEAN /\ saved.view.visible \in Views
    BY <2>1 DEF ViewSet
  <2>3. QED
    BY <1>26, <2>1, <2>2, RecordTypes DEF CrashRestore
<1>27. CASE UNCHANGED vars
  BY <1>27 DEF vars
<1> HIDE DEF TypeOK, plugin, worker, ghosts
<1>q. QED
  BY <1>1, <1>2, <1>3, <1>4, <1>5, <1>6, <1>7, <1>8, <1>9, <1>10, <1>11, <1>12, <1>13,
      <1>14, <1>15, <1>16, <1>17, <1>18, <1>19, <1>20, <1>21, <1>22, <1>23, <1>24, <1>25,
      <1>26, <1>27, Zenon DEF Next, Coroutine, GivesUp, Worker

(* Confirmations survive: the view changes only with the revision, and the *)
(* worker moves only to a greater one.                                     *)
LEMMA PluginPreserved == Inv /\ [Next]_vars => PluginInv'
<1> SUFFICES ASSUME Inv, [Next]_vars PROVE PluginInv'
  OBVIOUS
<1> USE DEF Inv, TypeOK, PluginInv, JobInv, JobSet, MessageSet, View, Confirmed, NewView,
    plugin, worker, ghosts
<1>1. CASE \E op \in Ops : commit(op)
  BY <1>1 DEF commit, Returned
<1>2. CASE \E op \in Ops : discard(op)
  BY <1>2 DEF discard
<1>3. CASE \E results \in SUBSET live : retire(results)
  BY <1>3 DEF retire
<1>4. CASE \E view \in Views : project(view)
  BY <1>4 DEF project
<1>5. CASE retire_scope
  <2>1. revision' = revision + 1 /\ revision \in Nat /\ acked \in Int /\ job.rev \in Int
    BY <1>5 DEF retire_scope
  <2>2. UNCHANGED <<acked, job, wrev, wview>>
    BY <1>5 DEF retire_scope
  <2>3. acked' < revision' /\ (job.pc \in {"syncing", "uploading"} => job'.rev < revision')
    BY <2>1, <2>2
  <2>4. QED
    BY <2>1, <2>2, <2>3
<1>6. CASE \E view \in Views : BeginRecovery(view)
  BY <1>6 DEF BeginRecovery, Job, NoJob
<1>7. CASE \E op \in Ops, view \in Views : BeginCall(op, view)
  BY <1>7 DEF BeginCall, Job, NoJob
<1>8. CASE BeginFlush
  BY <1>8 DEF BeginFlush, Job, NoJob
<1>9. CASE SyncSend
  <2>1. job'.pc = "syncing" /\ job'.rev = revision /\ job'.view = View /\ job'.reply = job.reply
    BY <1>9 DEF SyncSend
  <2>2. job.pc = "sync"
    BY <1>9 DEF SyncSend
  <2>3. QED
    BY <1>9, <2>1, <2>2 DEF SyncSend
<1>10. CASE SyncConfirmed
  BY <1>10 DEF SyncConfirmed, Job, NoJob
<1>11. CASE FlushDone
  BY <1>11 DEF FlushDone, NoJob
<1>12. CASE FlushFails
  BY <1>12 DEF FlushFails, NoJob
<1>13. CASE CallUnsynced
  BY <1>13 DEF CallUnsynced, Abandon, NoJob
<1>14. CASE CallUpload
  BY <1>14 DEF CallUpload
<1>15. CASE Dispatch
  BY <1>15 DEF Dispatch, Send, ExecuteMessage
<1>16. CASE NotStarted
  BY <1>16 DEF NotStarted, Abandon, NoJob
<1>17. CASE Submitted
  BY <1>17 DEF Submitted, Job, NoJob
<1>18. CASE Unknown
  BY <1>18 DEF Unknown, NoJob
<1>19. CASE CallAnswered
  <2>1. job'.pc = "none" /\ UNCHANGED <<acked, live, closed, visible, wrev, wview>>
    BY <1>19 DEF CallAnswered, NoJob
  <2>2. \/ UNCHANGED <<pending, revision>>
        \/ revision' = revision + 1
        \/ job.op \notin pending /\ revision' = revision /\ pending' = pending \ {job.op}
    BY <1>19 DEF CallAnswered
  <2>3. CASE UNCHANGED pending /\ UNCHANGED revision
    BY <2>1, <2>3
  <2>4. CASE revision' = revision + 1
    BY <2>1, <2>4
  <2>5. CASE job.op \notin pending /\ revision' = revision /\ pending' = pending \ {job.op}
    BY <2>1, <2>5
  <2>6. QED
    BY <2>2, <2>3, <2>4, <2>5
<1>20. CASE Recovered
  BY <1>20 DEF Recovered, Settled, NoJob
<1>21. CASE \E m \in wire : SyncHandled(m)
  BY <1>21 DEF SyncHandled, SyncAccepts, Answer, Awaited, SyncMessage, ExecuteMessage
<1>22. CASE \E m \in wire : SyncUnchanged(m)
  BY <1>22 DEF SyncUnchanged, Answer, Awaited, SyncMessage, ExecuteMessage
<1>23. CASE \E m \in wire : ExecuteRecorded(m)
  BY <1>23 DEF ExecuteRecorded, Answer, Awaited, SyncMessage, ExecuteMessage
<1>24. CASE \E op \in Ops : Run(op)
  BY <1>24 DEF Run, Executable
<1>25. CASE snapshot
  BY <1>25 DEF snapshot
<1>26. CASE \E present \in SUBSET saved.view.live : CrashRestore(present)
  BY <1>26 DEF CrashRestore, NoJob, NoCheckpoint
<1>27. CASE UNCHANGED vars
  BY <1>27 DEF vars
<1> HIDE DEF Inv, TypeOK, PluginInv, JobInv, JobSet, MessageSet, View, Confirmed, NewView,
    plugin, worker, ghosts
<1>q. QED
  BY <1>1, <1>2, <1>3, <1>4, <1>5, <1>6, <1>7, <1>8, <1>9, <1>10, <1>11, <1>12, <1>13,
      <1>14, <1>15, <1>16, <1>17, <1>18, <1>19, <1>20, <1>21, <1>22, <1>23, <1>24, <1>25,
      <1>26, <1>27, Zenon DEF Next, Coroutine, GivesUp, Worker

(* What the holder of the lock relies on survives the other actors.        *)
LEMMA JobPreserved == Inv /\ [Next]_vars => JobInv'
<1> SUFFICES ASSUME Inv, [Next]_vars PROVE JobInv'
  OBVIOUS
<1>0. ASSUME UNCHANGED <<job, pending, unresolved, closed, used, wire, journal, rejected>>
      PROVE  JobInv'
  BY <1>0 DEF Inv, JobInv, Undispatched, Execute
<1>3. CASE \E results \in SUBSET live : retire(results)
  BY <1>0, <1>3 DEF retire, worker, ghosts
<1>4. CASE \E view \in Views : project(view)
  BY <1>0, <1>4 DEF project, worker, ghosts
<1>25. CASE snapshot
  BY <1>0, <1>25 DEF snapshot, plugin, worker, ghosts
<1>27. CASE UNCHANGED vars
  BY <1>0, <1>27 DEF vars, plugin, worker, ghosts
<1>24. CASE \E op \in Ops : Run(op)
  <2>1. /\ \A o \in Ops : journal[o] # "pending" => journal'[o] = journal[o]
        /\ UNCHANGED <<job, used, rejected, pending, unresolved, closed, wire>>
    BY <1>24 DEF Run, plugin, ghosts, Inv, TypeOK
  <2>2. pending \subseteq Ops /\ JobInv
    BY DEF Inv, TypeOK
  <2>3. QED
    BY <2>1, <2>2, Zenon DEF JobInv, Undispatched, Execute
<1>26. CASE \E present \in SUBSET saved.view.live : CrashRestore(present)
  <2>1. job'.kind = "none" /\ job'.pc = "none" /\ pending' \subseteq unresolved'
    BY <1>26 DEF CrashRestore, NoJob
  <2>2. QED
    BY <2>1 DEF JobInv, Undispatched
<1>11. CASE FlushDone \/ FlushFails
  <2>1. /\ job.kind = "flush" /\ job'.kind = "none" /\ job'.pc = "none"
        /\ UNCHANGED <<pending, unresolved, journal>>
    BY <1>11 DEF FlushDone, FlushFails, NoJob, plugin, worker
  <2>2. QED
    BY <2>1 DEF Inv, JobInv, Undispatched
<1>13. CASE CallUnsynced \/ NotStarted
  <2>1. /\ job.kind = "call" \/ job.pc = "submitted"
        /\ job'.kind = "none" /\ job'.pc = "none"
        /\ pending' = pending \ {job.op} /\ unresolved \ {job.op} \subseteq unresolved'
        /\ UNCHANGED journal
    BY <1>13 DEF CallUnsynced, NotStarted, Abandon, NoJob, worker
  <2>2. QED
    BY <2>1 DEF Inv, JobInv, Undispatched
<1> USE OpsAssumption, ViewsAssumption, NoneAssumption DEF Inv, TypeOK, JobInv, FlightInv,
    Undispatched, Execute, JobSet, MessageSet, Journal, plugin, worker, ghosts
<1>1. CASE \E op \in Ops : commit(op)
  BY <1>1 DEF commit, Returned
<1>2. CASE \E op \in Ops : discard(op)
  BY <1>2 DEF discard
<1>5. CASE retire_scope
  BY <1>5 DEF retire_scope
<1>6. CASE \E view \in Views : BeginRecovery(view)
  BY <1>6 DEF BeginRecovery, Job, NoJob
<1>7. CASE \E op \in Ops, view \in Views : BeginCall(op, view)
  BY <1>7 DEF BeginCall, Job, NoJob
<1>8. CASE BeginFlush
  BY <1>8 DEF BeginFlush, Job, NoJob
<1>9. CASE SyncSend
  BY <1>9 DEF SyncSend, Send, SyncMessage
<1>10. CASE SyncConfirmed
  BY <1>10 DEF SyncConfirmed, Job, NoJob
<1>14. CASE CallUpload
  BY <1>14 DEF CallUpload
<1>15. CASE Dispatch
  <2>1. /\ job.kind = "call" /\ job.pc = "uploading" /\ job.op \in Ops
        /\ job' = [job EXCEPT !.pc = "submitted"]
        /\ unresolved' = unresolved \cup {job.op}
        /\ UNCHANGED <<journal, pending, closed, used, rejected>>
    BY <1>15 DEF Dispatch
  <2>2. /\ job'.kind = "call" /\ job'.pc = "submitted" /\ job'.op = job.op
        /\ job'.reply = job.reply
    BY <2>1
  <2>3. QED
    BY <2>1, <2>2
<1>17. CASE Submitted
  BY <1>17 DEF Submitted, Job, NoJob
<1>18. CASE Unknown
  BY <1>18 DEF Unknown, NoJob
<1>19. CASE CallAnswered
  <2>1. /\ job'.kind = "none" /\ job'.pc = "none"
        /\ unresolved' = unresolved \ {job.op}
        /\ UNCHANGED <<journal, wire, used, rejected, closed>>
        /\ \A o \in pending' : o \in pending /\ (o = job.op => journal[o] = "done")
    BY <1>19 DEF CallAnswered, NoJob
  <2> HIDE DEF TypeOK, FlightInv, JobSet, MessageSet, Journal
  <2>2. job.kind = "call"
    BY <1>19 DEF CallAnswered
  <2>3. QED
    BY <2>1, <2>2
<1>20. CASE Recovered
  BY <1>20 DEF Recovered, Settled, NoJob
<1>21. CASE \E m \in wire : SyncHandled(m)
  BY <1>21 DEF SyncHandled, SyncAccepts, Answer, Awaited, SyncMessage, ExecuteMessage
<1>22. CASE \E m \in wire : SyncUnchanged(m)
  BY <1>22 DEF SyncUnchanged, Answer, Awaited, SyncMessage, ExecuteMessage
<1>23. CASE \E m \in wire : ExecuteRecorded(m)
  BY <1>23 DEF ExecuteRecorded, Answer, Awaited, SyncMessage, ExecuteMessage
<1> HIDE DEF Inv, TypeOK, JobInv, FlightInv,
    Undispatched, Execute, JobSet, MessageSet, Journal, plugin, worker, ghosts
<1>q. QED
  BY <1>1, <1>2, <1>3, <1>4, <1>5, <1>6, <1>7, <1>8, <1>9, <1>10, <1>11, <1>13,
      <1>14, <1>15, <1>17, <1>18, <1>19, <1>20, <1>21, <1>22, <1>23, <1>24, <1>25,
      <1>26, <1>27, Zenon DEF Next, Coroutine, GivesUp, Worker

(* A request is dispatched with a confirmed view when nothing else is in   *)
(* flight; from then on its confirmation is the worker's business.         *)
LEMMA FlightPreserved == Inv /\ [Next]_vars => FlightInv'
<1> SUFFICES ASSUME Inv, [Next]_vars PROVE FlightInv'
  OBVIOUS
<1>0. ASSUME UNCHANGED <<wire, worker, used, ghosts>> PROVE FlightInv'
  BY <1>0 DEF Inv, FlightInv, InFlight, Execute, Confirmed, worker, ghosts
<1>1. CASE \E op \in Ops : commit(op)
  BY <1>0, <1>1 DEF commit
<1>2. CASE \E op \in Ops : discard(op)
  BY <1>0, <1>2 DEF discard
<1>3. CASE \E results \in SUBSET live : retire(results)
  BY <1>0, <1>3 DEF retire
<1>4. CASE \E view \in Views : project(view)
  BY <1>0, <1>4 DEF project
<1>5. CASE retire_scope
  BY <1>0, <1>5 DEF retire_scope
<1>6. CASE \E view \in Views : BeginRecovery(view)
  BY <1>0, <1>6 DEF BeginRecovery
<1>8. CASE BeginFlush
  BY <1>0, <1>8 DEF BeginFlush
<1>10. CASE SyncConfirmed
  BY <1>0, <1>10 DEF SyncConfirmed
<1>11. CASE FlushDone
  BY <1>0, <1>11 DEF FlushDone
<1>12. CASE FlushFails
  BY <1>0, <1>12 DEF FlushFails
<1>14. CASE CallUpload
  BY <1>0, <1>14 DEF CallUpload
<1>17. CASE Submitted
  BY <1>0, <1>17 DEF Submitted
<1>18. CASE Unknown
  BY <1>0, <1>18 DEF Unknown
<1>19. CASE CallAnswered
  BY <1>0, <1>19 DEF CallAnswered
<1>20. CASE Recovered
  BY <1>0, <1>20 DEF Recovered
<1>25. CASE snapshot
  BY <1>0, <1>25 DEF snapshot
<1>26. CASE \E present \in SUBSET saved.view.live : CrashRestore(present)
  BY <1>0, <1>26 DEF CrashRestore
<1>27. CASE UNCHANGED vars
  BY <1>0, <1>27 DEF vars
<1>9. CASE SyncSend
  <2>1. \A o \in Ops : Execute(o)' \subseteq Execute(o)
    BY <1>9 DEF SyncSend, Send, SyncMessage, Execute
  <2>2. UNCHANGED <<worker, used, ghosts>>
    BY <1>9 DEF SyncSend
  <2>3. QED
    BY <2>1, <2>2 DEF Inv, FlightInv, InFlight, Confirmed, Execute, worker, ghosts
<1>15. CASE Dispatch
  <2>0. PICK op \in Ops : op = job.op
    BY <1>15 DEF Dispatch, Inv, JobInv
  <2>1. /\ op \in used \ rejected
        /\ op \in pending \/ closed
        /\ journal[op] = "absent" /\ Execute(op) = {} /\ unresolved = {}
        /\ Confirmed(revision, View)
        /\ \A o \in pending \ {op} : journal[o] = "done"
    BY <1>15, <2>0 DEF Dispatch, Inv, PluginInv, JobInv, Undispatched
  <2>2. /\ UNCHANGED <<worker, used, rejected>>
        /\ sent' = [sent EXCEPT ![op] = View]
        /\ \E late \in SUBSET wire : wire' = late \cup {ExecuteMessage(op, revision)}
    BY <1>15, <2>0 DEF Dispatch, Send
  <2>3. ExecuteMessage(op, revision).kind = "execute" /\ ExecuteMessage(op, revision).op = op
    BY DEF ExecuteMessage
  <2>4. \A o \in Ops \ {op} : Execute(o)' \subseteq Execute(o)
    BY <2>2, <2>3 DEF Execute
  <2>5. \A m \in Execute(op)' : m = ExecuteMessage(op, revision)
    BY <2>1, <2>2 DEF Execute
  <2>6. sent'[op] = View /\ \A o \in Ops \ {op} : sent'[o] = sent[o]
    BY <2>1, <2>2 DEF Inv, TypeOK
  <2>7. View.pending = pending /\ View.closed = closed /\ ExecuteMessage(op, revision).rev = revision
    BY DEF View, ExecuteMessage
  <2>8. UNCHANGED <<wrev, wview, journal, asked>>
    BY <2>2 DEF worker
  <2>9. ASSUME NEW o \in Ops, NEW m \in wire', m \in Execute(o)'
        PROVE  /\ Confirmed(m.rev, sent[o])'
               /\ journal'[o] = "absent"
               /\ o \in used' \ rejected'
               /\ \A n \in Execute(o)' : n = m
    <3>1. CASE o = op
      <4>1. \A n \in Execute(o)' : n = ExecuteMessage(op, revision)
        BY <2>5, <3>1
      <4>2. m = ExecuteMessage(op, revision) /\ m.rev = revision
        BY <2>7, <2>9, <4>1
      <4>3. Confirmed(m.rev, sent[o])'
        BY <2>1, <2>6, <2>8, <3>1, <4>2 DEF Confirmed
      <4>4. journal'[o] = "absent" /\ o \in used' \ rejected'
        BY <2>1, <2>2, <2>8, <3>1
      <4>5. QED
        BY <4>1, <4>2, <4>3, <4>4
    <3>2. CASE o # op
      BY <2>2, <2>4, <2>6, <2>8, <2>9, <3>2 DEF Inv, FlightInv, Execute, Confirmed
    <3>3. QED
      BY <3>1, <3>2
  <2>10. ASSUME NEW o \in Ops
        PROVE  /\ journal'[o] = "pending" => Confirmed(asked[o], sent[o])'
               /\ journal'[o] # "absent" => o \in used'
               /\ InFlight(o)' => /\ sent'[o].closed \/ o \in sent'[o].pending
                                  /\ \A p \in sent'[o].pending \ {o} : journal'[p] = "done"
    <3>1. CASE o = op
      BY <2>1, <2>2, <2>6, <2>7, <2>8, <3>1
    <3>2. CASE o # op
      BY <2>2, <2>4, <2>6, <2>8, <3>2 DEF Inv, FlightInv, InFlight, Confirmed
    <3>3. QED
      BY <3>1, <3>2
  <2>11. \A o \in rejected' : o \in used' /\ journal'[o] \in {"absent", "refused"}
    BY <2>2, <2>8 DEF Inv, FlightInv
  <2>12. QED
    BY <2>9, <2>10, <2>11 DEF FlightInv
<1>7. CASE \E op \in Ops, view \in Views : BeginCall(op, view)
  <2>1. UNCHANGED <<wire, worker, ghosts>> /\ used \subseteq used'
    BY <1>7 DEF BeginCall
  <2>2. QED
    BY <2>1 DEF Inv, FlightInv, InFlight, Execute, Confirmed, worker, ghosts
<1>13. CASE CallUnsynced \/ NotStarted
  <2>0. Abandon /\ UNCHANGED wire
    BY <1>13 DEF CallUnsynced, NotStarted
  <2>1. /\ rejected' = rejected \cup {job.op}
        /\ UNCHANGED <<wire, worker, used, sent>>
    BY <2>0 DEF Abandon
  <2>2. job.op \in used /\ journal[job.op] = "absent" /\ Execute(job.op) = {}
    BY <1>13 DEF CallUnsynced, NotStarted, Inv, JobInv, Undispatched
  <2>3. QED
    BY <2>1, <2>2 DEF Inv, FlightInv, InFlight, Execute, Confirmed, worker
<1> USE DEF Inv, TypeOK, FlightInv, InFlight, Execute, Confirmed, MessageSet, Journal,
    plugin, worker, ghosts
<1>21. CASE \E m \in wire : SyncHandled(m)
  BY <1>21 DEF SyncHandled, SyncAccepts, Answer, Awaited, SyncMessage, ExecuteMessage
<1>22. CASE \E m \in wire : SyncUnchanged(m)
  BY <1>22 DEF SyncUnchanged, Answer, Awaited, SyncMessage, ExecuteMessage
<1>23. CASE \E m \in wire : ExecuteRecorded(m)
  BY <1>23 DEF ExecuteRecorded, Answer, Awaited, SyncMessage, ExecuteMessage, ViewSet
<1>24. CASE \E op \in Ops : Run(op)
  BY <1>24, NoneAssumption DEF Run, Executable, ViewSet, JobSet
<1> HIDE DEF Inv, TypeOK, FlightInv, InFlight, Execute, Confirmed, MessageSet, Journal,
    plugin, worker, ghosts
<1>q. QED
  BY <1>1, <1>2, <1>3, <1>4, <1>5, <1>6, <1>7, <1>8, <1>9, <1>10, <1>11, <1>12, <1>13,
      <1>14, <1>15, <1>17, <1>18, <1>19, <1>20, <1>21, <1>22, <1>23, <1>24, <1>25,
      <1>26, <1>27, Zenon DEF Next, Coroutine, GivesUp, Worker

(* The registry buries what leaves the view.                               *)
LEMMA RegistryPreserved == Inv /\ [Next]_vars => RegistryInv'
<1> SUFFICES ASSUME Inv, [Next]_vars PROVE RegistryInv'
  OBVIOUS
<1>0. ASSUME UNCHANGED worker PROVE RegistryInv'
  BY <1>0 DEF Inv, RegistryInv, worker
<1>1. CASE \E op \in Ops : commit(op)
  BY <1>0, <1>1 DEF commit
<1>2. CASE \E op \in Ops : discard(op)
  BY <1>0, <1>2 DEF discard
<1>3. CASE \E results \in SUBSET live : retire(results)
  BY <1>0, <1>3 DEF retire
<1>4. CASE \E view \in Views : project(view)
  BY <1>0, <1>4 DEF project
<1>5. CASE retire_scope
  BY <1>0, <1>5 DEF retire_scope
<1>6. CASE \E view \in Views : BeginRecovery(view)
  BY <1>0, <1>6 DEF BeginRecovery
<1>7. CASE \E op \in Ops, view \in Views : BeginCall(op, view)
  BY <1>0, <1>7 DEF BeginCall
<1>8. CASE BeginFlush
  BY <1>0, <1>8 DEF BeginFlush
<1>9. CASE SyncSend
  BY <1>0, <1>9 DEF SyncSend
<1>10. CASE SyncConfirmed
  BY <1>0, <1>10 DEF SyncConfirmed
<1>11. CASE FlushDone
  BY <1>0, <1>11 DEF FlushDone
<1>12. CASE FlushFails
  BY <1>0, <1>12 DEF FlushFails
<1>13. CASE CallUnsynced
  BY <1>0, <1>13 DEF CallUnsynced, Abandon
<1>14. CASE CallUpload
  BY <1>0, <1>14 DEF CallUpload
<1>15. CASE Dispatch
  BY <1>0, <1>15 DEF Dispatch
<1>16. CASE NotStarted
  BY <1>0, <1>16 DEF NotStarted, Abandon
<1>17. CASE Submitted
  BY <1>0, <1>17 DEF Submitted
<1>18. CASE Unknown
  BY <1>0, <1>18 DEF Unknown
<1>19. CASE CallAnswered
  BY <1>0, <1>19 DEF CallAnswered
<1>20. CASE Recovered
  BY <1>0, <1>20 DEF Recovered
<1>22. CASE \E m \in wire : SyncUnchanged(m)
  BY <1>0, <1>22 DEF SyncUnchanged
<1>25. CASE snapshot
  BY <1>0, <1>25 DEF snapshot
<1>26. CASE \E present \in SUBSET saved.view.live : CrashRestore(present)
  BY <1>0, <1>26 DEF CrashRestore
<1>27. CASE UNCHANGED vars
  BY <1>0, <1>27 DEF vars
<1> USE OpsAssumption, ViewsAssumption, NoneAssumption DEF Inv, TypeOK, RegistryInv,
    FlightInv, Execute, ViewSet, MessageSet, Journal, plugin, worker, ghosts
<1>21. CASE \E m \in wire : SyncHandled(m)
  BY <1>21 DEF SyncHandled, SyncAccepts, Answer, Awaited, SyncMessage, ExecuteMessage
<1>23. CASE \E m \in wire : ExecuteRecorded(m)
  BY <1>23 DEF ExecuteRecorded, Answer, Awaited, SyncMessage, ExecuteMessage
<1>24. CASE \E op \in Ops : Run(op)
  <2> PICK op \in Ops : Run(op)
    BY <1>24
  <2>1. /\ \A o \in Ops : journal[o] # "pending" => journal'[o] = journal[o]
        /\ \A o \in staged' :
              \/ o \in staged
              \/ o = op /\ op \notin retired /\ journal'[op] \in {"done", "spent"}
        /\ staged \subseteq staged'
        /\ UNCHANGED <<retired, goneResults, wview>>
    BY DEF Run, Executable
  <2>2. staged \cup retired \cup goneResults \subseteq Ops
    OBVIOUS
  <2> HIDE DEF TypeOK, FlightInv, MessageSet, Journal
  <2>3. QED
    BY <2>1, <2>2, Zenon
<1> HIDE DEF Inv, TypeOK, RegistryInv,
    FlightInv, Execute, ViewSet, MessageSet, Journal, plugin, worker, ghosts
<1>q. QED
  BY <1>1, <1>2, <1>3, <1>4, <1>5, <1>6, <1>7, <1>8, <1>9, <1>10, <1>11, <1>12, <1>13,
      <1>14, <1>15, <1>16, <1>17, <1>18, <1>19, <1>20, <1>21, <1>22, <1>23, <1>24, <1>25,
      <1>26, <1>27, Zenon DEF Next, Coroutine, GivesUp, Worker

(* The initial states satisfy the invariant.                               *)
LEMMA InvInit == Init => Inv
<1> SUFFICES ASSUME Init PROVE Inv
  OBVIOUS
<1>1. TypeOK
  <2>1. asked \in [Ops -> Int] /\ journal \in [Ops -> Journal]
    BY DEF Init, Journal
  <2>2. sent \in [Ops -> ViewSet]
    BY RecordTypes DEF Init
  <2>3. saved \in [revision : Nat, unresolved : SUBSET Ops, view : ViewSet]
    BY RecordTypes, Zenon DEF Init
  <2>4. job \in JobSet /\ wview \in ViewSet
    BY RecordTypes, Zenon DEF Init
  <2>5. closed \in BOOLEAN /\ visible \in Views
    BY ViewsAssumption, Zenon DEF Init
  <2>6. revision \in Nat /\ acked \in Int /\ wrev \in Int
    BY DEF Init
  <2>7. /\ live \in SUBSET Ops /\ pending \in SUBSET Ops /\ unresolved \in SUBSET Ops
        /\ used \in SUBSET Ops /\ rejected \in SUBSET Ops /\ wire \in SUBSET MessageSet
        /\ staged \in SUBSET Ops /\ retired \in SUBSET Ops /\ goneResults \in SUBSET Ops
    BY DEF Init
  <2>8. QED
    BY <2>1, <2>2, <2>3, <2>4, <2>5, <2>6, <2>7, Zenon DEF TypeOK
<1>2. PluginInv /\ JobInv /\ RegistryInv
  BY DEF Init, PluginInv, JobInv, RegistryInv, Undispatched, NoJob, NewView
<1>3. FlightInv
  BY Zenon DEF Init, FlightInv, Execute, InFlight
<1>q. QED
  BY <1>1, <1>2, <1>3 DEF Inv

(* Every step preserves the invariant.                                     *)
LEMMA InvPreserved == Inv /\ [Next]_vars => Inv'
  BY TypePreserved, PluginPreserved, JobPreserved, FlightPreserved, RegistryPreserved DEF Inv

-------------------------------------------------------------------------------
(* The inductive invariant holds of every reachable state.                 *)
THEOREM AuthorityConsistent == Spec => []Inv
  BY InvInit, InvPreserved, PTL DEF Spec

(* At most one operation of a scope can still take effect, for any number  *)
(* of operations, crashes and late requests.                               *)
THEOREM OneIsRunnable == Spec => []OneRunnable
<1>1. Inv => OneRunnable
  <2> SUFFICES ASSUME Inv, NEW o \in Ops, NEW p \in Ops, Runnable(o), Runnable(p),
                      ~wview.closed, o # p
               PROVE FALSE
    BY DEF OneRunnable
  <2>1. \A q \in Ops : Runnable(q) => /\ InFlight(q) /\ wview = sent[q]
                                      /\ journal[q] # "done"
    <3> SUFFICES ASSUME NEW q \in Ops, Runnable(q)
                 PROVE  InFlight(q) /\ wview = sent[q] /\ journal[q] # "done"
      OBVIOUS
    <3>1. CASE \E m \in Execute(q) : m.rev = wrev
      BY <3>1 DEF InFlight, Execute, Inv, FlightInv, Confirmed
    <3>2. CASE journal[q] = "pending" /\ asked[q] = wrev
      BY <3>2 DEF InFlight, Inv, FlightInv, Confirmed
    <3>3. QED
      BY <3>1, <3>2, Zenon DEF Runnable, Execute
  <2>2. o \in wview.pending
    BY <2>1 DEF Inv, FlightInv
  <2>3. o \notin wview.pending
    BY <2>1 DEF Inv, FlightInv
  <2>4. QED
    BY <2>2, <2>3, Zenon
<1>2. QED
  BY <1>1, AuthorityConsistent, PTL

(* A call reported as rejected (an abandoned synchronisation or upload, a  *)
(* submission refused before it started) never takes effect.               *)
THEOREM RejectedCallsNeverRun == Spec => []RejectedNeverRuns
<1>1. Inv => RejectedNeverRuns
  BY DEF Inv, TypeOK, FlightInv, Execute, RejectedNeverRuns
<1>2. QED
  BY <1>1, AuthorityConsistent, PTL

(* The registry runs an operation in the view it was dispatched with.      *)
THEOREM RunUnderDispatchedView == Spec => RunsAsDispatched
<1>1. Inv /\ [Next]_vars =>
        [\A op \in Ops : journal[op] = "pending" /\ journal'[op] \in {"done", "spent"}
            => wview = sent[op]]_vars
  <2> SUFFICES ASSUME Inv, Next, NEW op \in Ops, journal[op] = "pending",
                      journal'[op] \in {"done", "spent"}
               PROVE wview = sent[op]
    OBVIOUS
  <2>1. \A o \in Ops : journal[o] = "pending" /\ asked[o] = wrev => wview = sent[o]
    BY DEF Inv, FlightInv, Confirmed
  <2>2. CASE \E o \in Ops : Run(o)
    BY <2>1, <2>2 DEF Run, Executable, Inv, TypeOK
  <2>3. CASE \E m \in wire : ExecuteRecorded(m)
    BY <2>3 DEF ExecuteRecorded, Inv, TypeOK
  <2>4. CASE UNCHANGED journal
    BY <2>4
  <2>5. QED
    BY <2>2, <2>3, <2>4, Zenon DEF Next, Coroutine, GivesUp, Worker, commit, discard, retire, project,
       retire_scope, BeginRecovery, BeginCall, BeginFlush, SyncSend, SyncConfirmed,
       FlushDone, FlushFails, CallUnsynced, CallUpload, Abandon, Dispatch, NotStarted,
       Submitted, Unknown, CallAnswered, Recovered, SyncHandled, SyncUnchanged,
       snapshot, CrashRestore, worker
<1>2. QED
  BY <1>1, AuthorityConsistent, PTL DEF RunsAsDispatched, Spec

PhaseMap == [op \in Ops |-> Phase(op)]

(* What the phases depend on.                                              *)
phased == <<wview, staged, retired, goneResults, journal, rejected>>

(* An operation the journal does not know and nobody rejected is new.      *)
LEMMA NewPhase ==
    ASSUME Inv, NEW o \in Ops, journal[o] \in {"absent", "pending"}, o \notin rejected
    PROVE  Phase(o) = "new"
  BY DEF Inv, RegistryInv, Phase

(* One operation changes its phase.                                        *)
LEMMA PhaseChange ==
    ASSUME NEW o \in Ops, \A p \in Ops \ {o} : Phase(p)' = Phase(p)
    PROVE  PhaseMap' = [PhaseMap EXCEPT ![o] = Phase(o)']
  BY Zenon DEF PhaseMap

LEMMA AbandonRejects == Inv /\ (CallUnsynced \/ NotStarted) => Lifecycle!Reject(job.op)
<1> SUFFICES ASSUME Inv, CallUnsynced \/ NotStarted PROVE Lifecycle!Reject(job.op)
  OBVIOUS
<1>1. job.op \in Ops /\ journal[job.op] = "absent" /\ job.op \notin rejected
  BY DEF Inv, JobInv, Undispatched, CallUnsynced, NotStarted
<1>2. /\ rejected' = rejected \cup {job.op}
      /\ UNCHANGED <<wview, staged, retired, goneResults, journal>>
  BY DEF CallUnsynced, NotStarted, Abandon, worker
<1>3. Phase(job.op) = "new"
  BY <1>1, NewPhase
<1>4. PhaseMap' = [PhaseMap EXCEPT ![job.op] = "void"]
  <2>1. job.op \notin retired \cup goneResults \cup wview.live \cup staged
    BY <1>1 DEF Inv, RegistryInv
  <2>2. /\ \A p \in Ops \ {job.op} : Phase(p)' = Phase(p)
        /\ PhaseMap' = [p \in Ops |-> Phase(p)']
    BY <1>2 DEF Phase, PhaseMap
  <2>3. job.op \in rejected' /\ journal'[job.op] = "absent"
    BY <1>1, <1>2
  <2>4. QED
    BY <1>1, <1>2, <2>1, <2>2, <2>3, Zenon DEF Phase, PhaseMap
<1>5. QED
  BY <1>1, <1>3, <1>4 DEF Lifecycle!Reject, PhaseMap

(* Running an operation is the step Run of the lifecycle, refusing it the  *)
(* step Reject.                                                            *)
LEMMA RunMoves ==
    ASSUME Inv, NEW o \in Ops, Run(o)
    PROVE  Lifecycle!Run(o) \/ Lifecycle!Reject(o)
<1>1. journal[o] = "pending" /\ o \notin rejected /\ Phase(o) = "new"
  <2>1. journal[o] = "pending" /\ o \notin rejected
    BY DEF Run, Inv, FlightInv
  <2>2. QED
    BY <2>1, NewPhase
<1>2. o \notin staged \cup retired \cup goneResults /\ o \notin wview.live
  BY <1>1 DEF Inv, RegistryInv
<1>3. /\ UNCHANGED <<wview, retired, goneResults, rejected>>
      /\ \A p \in Ops \ {o} : journal'[p] = journal[p] /\ (p \in staged' <=> p \in staged)
      /\ \/ journal'[o] = "refused" /\ staged' = staged
         \/ journal'[o] \in {"done", "spent"}
  BY DEF Run, Inv, TypeOK
<1>4. \A p \in Ops \ {o} : Phase(p)' = Phase(p)
  BY <1>3 DEF Phase
<1>5. Phase(o)' \in {"void", "staged", "spent"}
  BY <1>2, <1>3 DEF Phase
<1>6. PhaseMap' = [PhaseMap EXCEPT ![o] = Phase(o)']
  BY <1>4, PhaseChange
<1>7. QED
  BY <1>1, <1>5, <1>6, Zenon DEF Lifecycle!Run, Lifecycle!Reject, PhaseMap

(* A synchronisation moves results forward only.                           *)
LEMMA SyncMoves ==
    ASSUME Inv, NEW m \in wire, SyncHandled(m)
    PROVE  Lifecycle!Sync
<1> DEFINE keep == m.view.live \cup m.view.pending
<1>1. /\ wview' = m.view /\ UNCHANGED <<journal, rejected>>
      /\ retired' = retired \cup (staged \ keep)
      /\ staged' = staged \cap keep
      /\ goneResults' = goneResults \cup (wview.live \ m.view.live)
      /\ m.view.live \cap (goneResults \cup retired) = {}
      /\ m.view.live \subseteq staged
  BY DEF SyncHandled, SyncAccepts, ghosts
<1>2. ASSUME NEW o \in Ops
      PROVE  \/ Phase(o)' = Phase(o)
             \/ Phase(o) = "staged" /\ Phase(o)' \in {"live", "retired"}
             \/ Phase(o) = "live" /\ Phase(o)' = "retired"
  <2>1. CASE o \in retired \cup goneResults
    BY <1>1, <2>1 DEF Phase
  <2>2. CASE o \notin retired \cup goneResults /\ o \in wview.live
    BY <1>1, <2>2 DEF Phase, Inv, RegistryInv
  <2>3. CASE o \notin retired \cup goneResults /\ o \notin wview.live
    BY <1>1, <2>3 DEF Phase, Inv, RegistryInv
  <2>4. QED
    BY <2>1, <2>2, <2>3
<1>3. \A o \in Ops : Phase(o)' \in Lifecycle!Phases
  BY DEF Phase, Lifecycle!Phases
<1>4. QED
  BY <1>2, <1>3 DEF Lifecycle!Sync, PhaseMap

(* The protocol implements the one-way life of results: every step maps to *)
(* a step of ResultLifecycle or changes no phase.                          *)
THEOREM LifecycleImplemented == Spec => ImplementsLifecycle
<1>1. Init => Lifecycle!Init
  BY DEF Init, Lifecycle!Init, Phase, NewView
<1>2. Inv /\ [Next]_vars => [Lifecycle!Next]_PhaseMap
  <2> SUFFICES ASSUME Inv, [Next]_vars PROVE Lifecycle!Next \/ UNCHANGED PhaseMap
    OBVIOUS
  <2>1. CASE CallUnsynced \/ NotStarted
    BY <2>1, AbandonRejects, Zenon DEF Lifecycle!Next, Inv, JobInv, CallUnsynced, NotStarted
  <2>2. CASE \E m \in wire : SyncHandled(m)
    BY <2>2, SyncMoves DEF Lifecycle!Next
  <2>3. CASE \E m \in wire : ExecuteRecorded(m)
    <3>1. PICK m \in wire : ExecuteRecorded(m)
      BY <2>3
    <3>2. /\ UNCHANGED <<wview, staged, retired, goneResults, rejected>>
          /\ \A o \in Ops : \/ journal'[o] = journal[o]
                             \/ /\ o \notin rejected
                                /\ journal[o] = "absent" /\ journal'[o] = "pending"
      <4>1. m.op \in Ops => journal[m.op] = "absent" /\ m.op \notin rejected
        BY <3>1, Zenon DEF ExecuteRecorded, Inv, FlightInv, Execute
      <4>2. journal \in [Ops -> Journal]
        BY DEF Inv, TypeOK
      <4>3. UNCHANGED journal \/ journal' = [journal EXCEPT ![m.op] = "pending"]
        BY <3>1 DEF ExecuteRecorded
      <4>4. UNCHANGED <<wview, staged, retired, goneResults, rejected>>
        BY <3>1 DEF ExecuteRecorded, ghosts
      <4>5. QED
        BY <4>1, <4>2, <4>3, <4>4
    <3>3. QED
      BY <3>2 DEF PhaseMap, Phase
  <2>4. CASE \E op \in Ops : Run(op)
    BY <2>4, RunMoves DEF Lifecycle!Next
  <2>5. CASE UNCHANGED phased
    BY <2>5 DEF PhaseMap, Phase, phased
  <2>6. QED
    BY <2>1, <2>2, <2>3, <2>4, <2>5, Zenon DEF Next, Coroutine, GivesUp, Worker, commit, discard,
       retire, project, retire_scope, BeginRecovery, BeginCall, BeginFlush, SyncSend,
       SyncConfirmed, FlushDone, FlushFails, CallUpload, Dispatch,
       Submitted, Unknown, CallAnswered, Recovered, SyncUnchanged,
       snapshot, CrashRestore, worker, ghosts, phased, vars
<1>3. QED
  BY <1>1, <1>2, AuthorityConsistent, PTL DEF Spec, ImplementsLifecycle, Lifecycle!Spec, PhaseMap

===============================================================================
