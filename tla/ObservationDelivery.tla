------------------------- MODULE ObservationDelivery -------------------------
(***************************************************************************)
(* How what a background shell session does reaches the conversation that  *)
(* started it: the native runtime posts events, the adapter keeps the last *)
(* one, the observation owner publishes it, loads its output and hands it  *)
(* to one claimant, and the host tells it, either in a turn of its own     *)
(* (the resident host, events.py) or before the next model request of a    *)
(* turn that is running (project).  Tool calls of the same turn read and   *)
(* control the session and cover events as well.  Once the end of the      *)
(* session has been told, its output is acknowledged and released.         *)
(*                                                                         *)
(* One session.  A snapshot is what the native runtime reports of it; out  *)
(* counts its output, and shown is the output the conversation has got.    *)
(* Answers and events are not ordered with each other, which is how a      *)
(* remote worker delivers them; a local runtime is more orderly.           *)
(***************************************************************************)
EXTENDS Naturals, Sequences, FiniteSetsExt

CONSTANTS None,       \* no event, no call, no snapshot
          MaxSeq,     \* events of the session, its end included
          MaxOut,     \* output of the session
          MaxGen,     \* watch generations
          MaxCalls    \* tool calls and user turns after the run that started it

ASSUME Bounds == {MaxSeq, MaxOut, MaxGen, MaxCalls} \subseteq Nat /\ MaxSeq > 0

VARIABLES host,       \* "resident" or "role": which host runs the model
          native,     \* the session in the native runtime
          posted,     \* events on their way to the owner's loop
          owner,      \* NativeShellOwner, its ObservationOwner and the adapter
          call,       \* the tool call in progress
          turn,       \* "idle", "opening", "open", "waiting" or "over"
          inflight,   \* ShellCompletionSource.in_flight: "no", "drained", "turn"
          noticed,    \* events whose failed delivery this turn already shows
          used,       \* tool calls and user turns so far
          shown,      \* history: output put in the conversation
          heard,      \* history: newest event covered by it
          told,       \* history: how often each event was told
          excused,    \* history: events whose delivery failed in plain sight
          freed       \* history: "no", "acked" or "dropped" output

vars == <<host, native, posted, owner, call, turn, inflight, noticed, used,
          shown, heard, told, excused, freed>>

Seqs  == 1..MaxSeq
Slots == {<<"call", n>> : n \in 0..MaxCalls} \cup {<<"event", q>> : q \in Seqs}
Terminal == {"exited"}
Ending   == Terminal \cup {"terminating"}

snapshot(n) == [status |-> n.status, seq |-> n.seq, gen |-> n.gen,
                watching |-> n.watching, out |-> n.out]

(* A PendingOutput as it is staged.                                        *)
PendingOutput(raw, covers, of) ==
    [result |-> raw, prepared |-> FALSE, delivered |-> FALSE, failure |-> FALSE,
     covers |-> covers, of |-> of]

-------------------------------------------------------------------------------
(* The observation owner.  s is the state of the owner; every operator     *)
(* returns the state after the method of its name.                         *)

snapshot_is_older(raw, previous) ==
    \/ raw.gen < previous.gen
    \/ raw.seq < previous.seq
    \/ previous.status \in Terminal /\ raw.status \notin Terminal
    \/ raw.out < previous.out

record(s, raw) ==
    IF ~s.known \/ (s.latest # None /\ snapshot_is_older(raw, s.latest)) THEN s
    ELSE [s EXCEPT !.latest = raw, !.status = raw.status]

observation_is_current(event, s) ==
    /\ s.watching
    /\ event.gen >= s.gen
    /\ ~(s.status \in Ending /\ event.status \notin Terminal)

(* Mutant: an event that a tool result has covered is told all the same.   *)
EligibleCovered(s, ready, claimed) ==
    /\ s.pending # None /\ s.known /\ s.committed
    /\ observation_is_current(s.pending, s) /\ ~s.failed
    /\ claimed \/ s.claim = None
    /\ ready => s.prepared[s.pending.seq] # None

eligible(s, ready, claimed) ==
    /\ s.pending # None /\ s.known /\ s.committed
    /\ observation_is_current(s.pending, s) /\ ~s.failed
    /\ s.covered < s.pending.seq
    /\ claimed \/ s.claim = None
    /\ ready => s.prepared[s.pending.seq] # None

(* Mutant: whoever waits finds out by themselves.                          *)
SignalNobody(s) == s

signal(s) == IF s.waiter = "parked" /\ eligible(s, TRUE, FALSE)
             THEN [s EXCEPT !.waiter = "woken"] ELSE s

(* One load at a time; the event it was started for stays with it.         *)
prepare(s) == IF s.prepared[s.pending.seq] # None \/ s.preparing # None THEN s
              ELSE [s EXCEPT !.preparing = s.pending]

(* The adapter's last event becomes the pending one when it is newer, and  *)
(* lifts the failure of the one before.                                    *)
Publish(s, event) ==
    LET r == IF s.pending = event THEN s ELSE record(s, event)
        p == IF r.pending = None \/ (r.pending # None /\ event.seq > r.pending.seq)
             THEN [r EXCEPT !.pending = event, !.failed = FALSE, !.reported = FALSE]
             ELSE r
    IN  IF ~r.known \/ ~observation_is_current(event, r) THEN r
        ELSE IF eligible(p, FALSE, TRUE) THEN prepare(p) ELSE p

(* Nothing stays pending that could not be told later, and no output stays *)
(* loaded that is neither pending nor claimed.                             *)
Prune(s) ==
    LET p == IF ~eligible(s, FALSE, TRUE) /\ ~s.failed
             THEN [s EXCEPT !.pending = None] ELSE s
        retained == {e.seq : e \in {p.pending, p.claim} \ {None}}
    IN  [p EXCEPT !.prepared = [q \in Seqs |-> IF q \in retained THEN @[q] ELSE None]]

collect(s) ==
    signal(Prune(IF s.completion = None THEN s ELSE Publish(s, s.completion)))

claim(s) == [s EXCEPT !.claim = s.pending]

release_claim(s, event) ==
    signal(IF s.claim = event THEN [s EXCEPT !.claim = None] ELSE s)

retire(s, event) ==
    LET p == [s EXCEPT !.pending = IF @ = event THEN None ELSE @,
                       !.prepared[event.seq] = None]
        r == release_claim(p, event)
    IN  IF r.completion # None /\ r.completion.seq = event.seq
        THEN [r EXCEPT !.completion = None] ELSE r

commit_event(s, event) ==
    LET c == [s EXCEPT !.covered = Max({@, event.seq})]
    IN  retire(IF ~s.known THEN c
               ELSE [c EXCEPT !.offset = Max({@, event.out}),
                              !.ended = @ \/ event.status \in Terminal], event)

report_failure(s, event) ==
    LET slot == <<"event", event.seq>>
        kept == IF s.outputs[slot] = None THEN PendingOutput(event, TRUE, None)
                ELSE s.outputs[slot]
        f == release_claim([s EXCEPT !.failed = TRUE, !.reported = @ \/ s.known,
                    !.outputs[slot] = [kept EXCEPT !.delivered = TRUE, !.failure = TRUE]],
                 event)
    IN  IF event.status \in Terminal THEN retire(f, event) ELSE f

(* Cleanup after delivery: one task for the output, none for an output     *)
(* that was retired before; acknowledging a live session does nothing.     *)
acknowledge(s, raw) ==
    IF /\ raw.status \in Terminal /\ ~s.acking
       /\ \/ s.known
          \/ \E x \in Slots : s.outputs[x] # None /\ s.outputs[x].result.status \in Terminal
    THEN [s EXCEPT !.acking = TRUE] ELSE s

note_tool_delivery(s, raw) ==
    LET r == record(s, raw)
        c == [r EXCEPT !.covered = Max({@, raw.seq}), !.ended = @ \/ raw.status \in Terminal]
    IN  IF ~s.known THEN r
        ELSE IF c.pending # None /\ c.pending.seq <= c.covered THEN retire(c, c.pending)
        ELSE c

(* forget_session and forget: every reference to the session is dropped,   *)
(* its loads are cancelled.                                                *)
forget_session(s) ==
    [s EXCEPT !.known = FALSE, !.committed = FALSE, !.watching = TRUE, !.gen = 0,
              !.status = None, !.offset = 0, !.ended = FALSE, !.reported = FALSE,
              !.latest = None, !.covered = 0, !.pending = None, !.claim = None,
              !.failed = FALSE, !.preparing = None, !.refreshing = None,
              !.outputs = [x \in Slots |-> None],
              !.prepared = [q \in Seqs |-> IF s.pending # None /\ s.pending.seq = q
                                           THEN None ELSE @[q]]]

mark_consumed(s) == [s EXCEPT !.consumed = TRUE, !.completion = None]

(* notify: the owner collects and the host is told to look.                *)
notify(s) == collect(s)

(* ShellCompletionSource.invalidate: a control overtook what was pending.  *)
invalidate(s, raw) ==
    IF s.pending # None /\ \/ ~raw.watching
                           \/ s.pending.gen < raw.gen
                           \/ raw.status \in Ending /\ s.pending.status \notin Terminal
    THEN [s EXCEPT !.pending = None, !.failed = FALSE] ELSE s

(* completion_blocked: what keeps a role from finishing.                   *)
completion_blocked(s) ==
    \/ s.known /\ ~s.ended /\ ~s.reported /\ s.watching
    \/ \E x \in Slots : s.outputs[x] # None /\ ~s.outputs[x].delivered

-------------------------------------------------------------------------------
(* The native runtime and the adapter.                                     *)

Init ==
    LET started == [status |-> "running", seq |-> 0, gen |-> 0, watching |-> TRUE,
                    wake |-> FALSE, out |-> 0, held |-> TRUE]
    IN  /\ host \in {"resident", "role"}
        /\ native = started
        /\ posted = <<>>
        /\ owner = [completion |-> None, consumed |-> FALSE,
                    known |-> FALSE, committed |-> FALSE, watching |-> TRUE, gen |-> 0,
                    status |-> None, offset |-> 0, ended |-> FALSE, reported |-> FALSE,
                    latest |-> None, pending |-> None, claim |-> None,
                    prepared |-> [q \in Seqs |-> None], preparing |-> None,
                    refreshing |-> None, failed |-> FALSE, covered |-> 0,
                    waiter |-> "none", acking |-> FALSE,
                    outputs |-> [x \in Slots |-> None]]
        /\ call = [n |-> 0, action |-> "run", result |-> snapshot(started),
                   step |-> "answered", of |-> None, ok |-> FALSE]
        /\ turn = "open" /\ inflight = "no" /\ noticed = {} /\ used = 0
        /\ shown = {} /\ heard = 0 /\ told = [q \in Seqs |-> 0]
        /\ excused = {} /\ freed = "no"

Talk == <<shown, heard, told, excused>>
Host == <<host, turn, inflight, noticed, used>>

Output == /\ native.status \in {"running", "terminating"} /\ native.out < MaxOut
          /\ native' = [native EXCEPT !.out = @ + 1]
          /\ UNCHANGED <<posted, owner, call, Host, Talk, freed>>

Post(n) == native' = n /\ posted' = Append(posted, snapshot(n))

(* The watch fires; the last event is kept for the end of the session.     *)
WaitExpires == /\ native.status = "running" /\ native.watching /\ native.wake
               /\ native.seq < MaxSeq - 1
               /\ Post([native EXCEPT !.seq = @ + 1, !.wake = FALSE])
               /\ UNCHANGED <<owner, call, Host, Talk, freed>>

complete == /\ native.status \in {"running", "terminating"}
            /\ Post([native EXCEPT !.status = "exited", !.seq = @ + 1, !.wake = FALSE])
            /\ UNCHANGED <<owner, call, Host, Talk, freed>>

(* ShellAdapter._deliver.                                                  *)
deliver == /\ posted # <<>> /\ posted' = Tail(posted)
           /\ owner' = IF owner.consumed THEN owner
                       ELSE notify([owner EXCEPT !.completion = Head(posted)])
           /\ UNCHANGED <<native, call, Host, Talk, freed>>

(* Mutant: the load that ends is taken for the pending event's.            *)
LoadEndsForPending ==
    /\ owner.preparing # None
    /\ \E ok \in {FALSE, native.held} :
          LET s == [owner EXCEPT !.preparing = None]
          IN  owner' = collect(IF s.pending = None THEN s
                               ELSE [s EXCEPT !.prepared[s.pending.seq] =
                                         [ok |-> ok, out |-> owner.preparing.out]])
    /\ UNCHANGED <<native, posted, call, Host, Talk, freed>>

(* Mutant: the end of a load does not look for a newer event.              *)
LoadEndsQuietly ==
    /\ owner.preparing # None
    /\ \E ok \in {FALSE, native.held} :
          LET s == [owner EXCEPT !.preparing = None]
              event == owner.preparing
          IN  owner' = IF s.pending # event THEN s
                       ELSE signal([s EXCEPT !.prepared[event.seq] =
                                        [ok |-> ok, out |-> event.out]])
    /\ UNCHANGED <<native, posted, call, Host, Talk, freed>>

(* The end of a load: its output is kept only if its event is still the    *)
(* pending one.  It fails when the output is gone or cannot be read.       *)
load == /\ owner.preparing # None
        /\ \E ok \in {FALSE, native.held} :
              LET s == [owner EXCEPT !.preparing = None]
                  event == owner.preparing
              IN  owner' = collect(IF s.pending # event THEN s
                                   ELSE [s EXCEPT !.prepared[event.seq] =
                                             [ok |-> ok, out |-> event.out]])
        /\ UNCHANGED <<native, posted, call, Host, Talk, freed>>

(* The acknowledgement: the output is released, or that fails for good;    *)
(* either way the session is forgotten.                                    *)
ack == /\ owner.acking
       /\ \/ native' = [native EXCEPT !.held = FALSE] /\ freed' = IF native.held THEN "acked" ELSE freed
          \/ UNCHANGED <<native, freed>>
       /\ owner' = [forget_session(mark_consumed(owner)) EXCEPT !.acking = FALSE]
       /\ UNCHANGED <<posted, call, Host, Talk>>

(* refresh: a background read of the session, whose answer was taken when  *)
(* it started and may be old when it is recorded.  A failure records the   *)
(* latest snapshot again; a worker that cannot be observed has no answer.  *)
refresh(s) ==
    LET c == collect(s)
    IN  IF /\ c.known /\ c.committed /\ c.watching /\ c.status \notin Terminal
           /\ c.refreshing = None /\ native.held
        THEN [c EXCEPT !.refreshing = snapshot(native)] ELSE c

Refreshed == /\ owner.refreshing # None
             /\ \E raw \in {None, owner.latest, owner.refreshing} :
                   LET s == [owner EXCEPT !.refreshing = None]
                   IN  owner' = collect(IF raw = None THEN s ELSE record(s, raw))
             /\ UNCHANGED <<native, posted, call, Host, Talk, freed>>

-------------------------------------------------------------------------------
(* Tool calls of the turn, one at a time.                                  *)

(* What the native runtime does for a control, and when it rejects it.     *)
Accepts(action) ==
    /\ native.held
    /\ action = "watch" => native.status = "running"
    /\ action = "release" => native.status = "exited"
    /\ action \in {"watch", "unwatch"} => native.gen < MaxGen

Controlled(action) ==
    CASE action = "watch"     -> [native EXCEPT !.watching = TRUE, !.wake = TRUE, !.gen = @ + 1]
      [] action = "unwatch"   -> [native EXCEPT !.watching = FALSE, !.wake = FALSE, !.gen = @ + 1]
      [] action = "terminate" -> [native EXCEPT !.status = IF @ = "running" THEN "terminating" ELSE @,
                                                !.wake = FALSE]
      [] action = "release"   -> [native EXCEPT !.held = FALSE]
      [] OTHER                -> native

Slot == <<"call", call.n>>

stage(s, slot, raw, of) ==
    [record(s, raw) EXCEPT !.outputs[slot] = PendingOutput(raw, TRUE, of)]

(* A read of a session with a delivered failure exports that snapshot      *)
(* again; any other call asks the native runtime.                          *)
Failures == {x \in Slots : /\ owner.outputs[x] # None
                           /\ owner.outputs[x].delivered /\ owner.outputs[x].failure}

session_async(action) ==
    /\ turn = "open" /\ call = None /\ used < MaxCalls /\ used' = used + 1
    /\ IF action = "read" /\ Failures # {}
       THEN \E x \in Failures :
              LET raw == owner.outputs[x].result
              IN  /\ call' = [n |-> used + 1, action |-> "read", result |-> raw,
                              step |-> "loading", of |-> x, ok |-> FALSE]
                  /\ owner' = stage(owner, <<"call", used + 1>>, raw, x)
                  /\ UNCHANGED <<native, freed>>
       ELSE /\ Accepts(action)
            /\ native' = Controlled(action)
            /\ call' = [n |-> used + 1, action |-> action, result |-> snapshot(native'),
                        step |-> "answered", of |-> None, ok |-> FALSE]
            /\ freed' = IF action = "release" THEN "dropped" ELSE freed
            /\ UNCHANGED owner
    /\ UNCHANGED <<host, posted, turn, inflight, noticed, Talk>>

Invalidated(s, raw) == IF host = "resident" THEN invalidate(s, raw) ELSE s

Tracked(s, raw) == IF s.known THEN [s EXCEPT !.status = raw.status] ELSE s

(* watch and unwatch: the adapter drops an older event, the session takes  *)
(* the new generation; the receipt covers no output.                       *)
Attended(s, action, raw) ==
    LET a == IF s.completion # None /\ s.completion.gen < raw.gen
             THEN [s EXCEPT !.completion = None] ELSE s
        r == Tracked(record(a, raw), raw)
        w == IF ~r.known THEN r
             ELSE [r EXCEPT !.watching = raw.watching, !.gen = raw.gen,
                            !.reported = @ /\ action # "watch"]
    IN  [Invalidated(w, raw) EXCEPT !.outputs[Slot] =
            [PendingOutput(raw, FALSE, None) EXCEPT !.prepared = TRUE]]

(* The call goes on with its answer.                                       *)
Resume ==
    /\ call # None /\ call.step = "answered"
    /\ LET raw == call.result
           seen == Tracked(record(owner, raw), raw)
       IN  CASE call.action = "run" ->
                  /\ owner' = stage([owner EXCEPT !.known = TRUE], Slot, raw, None)
                  /\ call' = [call EXCEPT !.step = "loading"]
             [] call.action \in {"read", "terminate"} ->
                  /\ owner' = stage(IF raw.status = "terminating" THEN Invalidated(seen, raw)
                                    ELSE seen, Slot, raw, None)
                  /\ call' = [call EXCEPT !.step = "loading"]
             [] call.action \in {"watch", "unwatch"} ->
                  /\ owner' = Attended(owner, call.action, raw)
                  /\ call' = [call EXCEPT !.step = "ready", !.ok = TRUE]
             [] call.action = "release" ->
                  /\ owner' = forget_session(mark_consumed(owner))
                  /\ call' = None
    /\ UNCHANGED <<native, posted, Host, Talk, freed>>

(* The output is read and the result rendered, or one of them fails.       *)
Staged ==
    /\ call # None /\ call.step = "loading"
    /\ \E ok \in {FALSE, native.held} :
          /\ call' = [call EXCEPT !.step = "ready", !.ok = ok]
          /\ owner' = IF owner.outputs[Slot] = None THEN owner
                      ELSE [owner EXCEPT !.outputs[Slot].prepared = ok,
                                         !.outputs[Slot].failure = ~ok]
    /\ UNCHANGED <<native, posted, Host, Talk, freed>>

(* A failed result was shown: it is kept for another read, in place of any *)
(* earlier failure of the same output.                                     *)
CommitFailed(s) ==
    LET f == IF s.known THEN [s EXCEPT !.reported = TRUE, !.failed = TRUE] ELSE s
    IN  [record(f, call.result) EXCEPT
            !.outputs = [x \in Slots |-> IF x # Slot /\ x \in Failures THEN None ELSE @[x]],
            !.outputs[Slot].delivered = TRUE]

(* A result was shown: it covers its events and its output.  A failed      *)
(* retry has retired what it retried, so the ancestry is one deep.         *)
CommitDelivered(s) ==
    LET raw == call.result
        c == IF ~s.known THEN s
             ELSE note_tool_delivery([s EXCEPT !.reported = FALSE, !.failed = FALSE,
                                               !.offset = Max({@, raw.out})], raw)
        d == [c EXCEPT !.outputs[Slot].delivered = TRUE]
    IN  notify(IF raw.status \in Terminal THEN acknowledge(d, raw)
               ELSE [c EXCEPT !.outputs = [x \in Slots |->
                         IF x \in {Slot, call.of} THEN None ELSE @[x]]])

CommitOf(s) ==
    LET p == s.outputs[Slot]
        c == IF s.known THEN [s EXCEPT !.committed = TRUE] ELSE s
    IN  IF p = None THEN s
        ELSE IF ~p.covers THEN [record(c, call.result) EXCEPT !.outputs[Slot] = None]
        ELSE IF p.failure THEN CommitFailed(c)
        ELSE CommitDelivered(c)

(* The host puts the result in the conversation and acknowledges it.       *)
commit ==
    /\ call # None /\ call.step = "ready"
    /\ owner' = CommitOf(owner)
    /\ call' = None
    /\ IF call.ok /\ call.action \notin {"watch", "unwatch"}
       THEN /\ shown' = shown \cup 1..call.result.out
            /\ heard' = Max({heard, call.result.seq})
            /\ UNCHANGED excused
       ELSE /\ excused' = IF call.ok THEN excused ELSE excused \cup {call.result.seq}
            /\ UNCHANGED <<shown, heard>>
    /\ UNCHANGED <<native, posted, Host, told, freed>>

-------------------------------------------------------------------------------
(* The hosts.                                                              *)

(* An event's message: the output after what was delivered before.         *)
Tell(s, event) ==
    /\ shown' = shown \cup (s.offset + 1)..s.prepared[event.seq].out
    /\ heard' = Max({heard, event.seq})
    /\ told' = [told EXCEPT ![event.seq] = @ + 1]
    /\ UNCHANGED excused

(* An event's message that shows an error in place of its output.          *)
Excuse(event) == excused' = excused \cup {event.seq} /\ UNCHANGED <<shown, heard, told>>

Delivered(s, event) ==
    acknowledge([commit_event(s, event) EXCEPT !.outputs[<<"event", event.seq>>] = None], event)

(* Before a model request of an open turn.  The message cannot be          *)
(* appended ("raise"), it shows an error ("bad"), or it is told ("ok").    *)
project(outcome) ==
    /\ turn = "open" /\ call = None
    /\ LET s == collect(owner)
           event == s.pending
           c == claim(s)
           slot == <<"event", event.seq>>
       IN  IF ~(s.known /\ s.committed /\ s.watching /\ eligible(s, TRUE, FALSE))
           THEN outcome = "ok" /\ owner' = s /\ UNCHANGED <<noticed, Talk>>
           ELSE IF event.seq \in noticed
           THEN outcome = "ok" /\ owner' = report_failure(c, event) /\ UNCHANGED <<noticed, Talk>>
           ELSE \/ /\ outcome = "raise"
                   /\ owner' = release_claim([c EXCEPT !.outputs[slot] =
                                                  PendingOutput(event, TRUE, None)], event)
                   /\ UNCHANGED <<noticed, Talk>>
                \/ /\ outcome = "bad"
                   /\ owner' = report_failure([c EXCEPT !.outputs[slot] = None], event)
                   /\ noticed' = noticed \cup {event.seq}
                   /\ Excuse(event)
                \/ /\ outcome = "ok" /\ s.prepared[event.seq].ok
                   /\ owner' = Delivered(c, event)
                   /\ Tell(c, event)
                   /\ UNCHANGED noticed
    /\ UNCHANGED <<host, native, posted, call, turn, inflight, used, freed>>

model_response_received ==
    /\ turn = "open" /\ call = None
    /\ owner' = refresh(owner)
    /\ UNCHANGED <<native, posted, call, Host, Talk, freed>>

(* A turn of the user, between any two steps of the resident source.       *)
UserTurn == /\ host = "resident" /\ turn = "idle" /\ used < MaxCalls
            /\ turn' = "open" /\ used' = used + 1 /\ noticed' = {}
            /\ UNCHANGED <<host, native, posted, owner, call, inflight, Talk, freed>>

(* The end of a turn; the one of an event tells the owner to look again.   *)
TurnEnds == /\ host = "resident" /\ turn = "open" /\ call = None
            /\ turn' = "idle"
            /\ inflight' = IF inflight = "turn" THEN "no" ELSE inflight
            /\ owner' = IF inflight = "turn" THEN notify(owner) ELSE owner
            /\ UNCHANGED <<host, native, posted, call, noticed, used, Talk, freed>>

(* The turn is cancelled.  A session whose result was not delivered is     *)
(* terminated and discarded; a turn that told an event notes the failure.  *)
interrupt ==
    /\ turn \in {"open", "waiting"}
    /\ turn' = IF host = "role" THEN "over" ELSE "idle"
    /\ call' = None
    /\ LET unborn == call # None /\ call.action = "run"
           dropped == IF unborn THEN forget_session(mark_consumed(owner)) ELSE owner
           quiet == [dropped EXCEPT !.waiter = "none"]
       IN  /\ owner' = IF inflight = "turn" THEN notify([quiet EXCEPT !.failed = TRUE]) ELSE quiet
           /\ IF unborn THEN /\ native' = [native EXCEPT !.status = "exited", !.held = FALSE]
                             /\ freed' = "dropped"
              ELSE UNCHANGED <<native, freed>>
    /\ inflight' = IF inflight = "turn" THEN "no" ELSE inflight
    /\ UNCHANGED <<host, posted, noticed, used, Talk>>

(* The resident source: prepare and drain, when the host polls it.         *)
drain ==
    /\ host = "resident" /\ turn = "idle" /\ inflight = "no"
    /\ LET s == collect(owner)
       IN  IF eligible(s, TRUE, FALSE)
           THEN owner' = claim(s) /\ inflight' = "drained"
           ELSE owner' = s /\ UNCHANGED inflight
    /\ UNCHANGED <<host, native, posted, call, turn, noticed, used, Talk, freed>>

(* The drained event is handled: a turn is started for it, unless it was   *)
(* overtaken or the host is no longer idle.                                *)
handle ==
    /\ inflight = "drained"
    /\ IF turn = "idle" /\ owner.claim # None /\ owner.claim = owner.pending
       THEN /\ turn' = "opening" /\ inflight' = "turn" /\ noticed' = {}
            /\ UNCHANGED owner
       ELSE /\ inflight' = "no"
            /\ owner' = IF owner.claim = None THEN owner ELSE release_claim(owner, owner.claim)
            /\ UNCHANGED <<turn, noticed>>
    /\ UNCHANGED <<host, native, posted, call, used, Talk, freed>>

Newer(s, event) == s.completion # None /\ s.completion.seq > event.seq

Superseded(s) ==
    \/ s.claim = None
    \/ s.pending # s.claim
    \/ s.prepared[s.claim.seq] = None
    \/ Newer(s, s.claim)
    \/ ~observation_is_current(s.claim, s)

(* _run, up to the model request: the event is overtaken, its turn cannot  *)
(* be recorded ("raise"), it shows an error, or it is told.                *)
run(outcome) ==
    /\ turn = "opening"
    /\ LET event == owner.claim
           newer == IF event # None /\ owner.pending = event /\ owner.prepared[event.seq] # None
                       /\ Newer(owner, event)
                    THEN [owner EXCEPT !.pending = owner.completion] ELSE owner
           left(s) == notify(IF event = None THEN s ELSE release_claim(s, event))
       IN  IF Superseded(owner)
           THEN /\ outcome = "ok" /\ owner' = left(newer)
                /\ turn' = "idle" /\ inflight' = "no" /\ UNCHANGED <<noticed, Talk>>
           ELSE \/ /\ outcome = "raise"
                   /\ owner' = left([owner EXCEPT !.failed = TRUE])
                   /\ turn' = "idle" /\ inflight' = "no" /\ UNCHANGED <<noticed, Talk>>
                \/ /\ outcome = "bad"
                   /\ owner' = report_failure(owner, event)
                   /\ turn' = "open" /\ noticed' = {event.seq} /\ UNCHANGED inflight
                   /\ Excuse(event)
                \/ /\ outcome = "ok" /\ owner.prepared[event.seq].ok
                   /\ owner' = acknowledge(commit_event(owner, event), event)
                   /\ Tell(owner, event)
                   /\ turn' = "open" /\ UNCHANGED <<inflight, noticed>>
    /\ UNCHANGED <<host, native, posted, call, used, freed>>

(* A role that answered without a tool call waits for its session.         *)
wait_after_response ==
    /\ host = "role" /\ turn = "open" /\ call = None
    /\ turn' = "waiting"
    /\ owner' = refresh(owner)
    /\ UNCHANGED <<host, native, posted, call, inflight, noticed, used, Talk, freed>>

(* One round of the wait: it is over, an output has failed and the model   *)
(* is asked again, or the role parks, unless an event is ready already.    *)
park_or_ready ==
    /\ turn = "waiting" /\ owner.waiter = "none"
    /\ LET s == collect(owner)
       IN  IF ~completion_blocked(owner) THEN turn' = "over" /\ UNCHANGED owner
           ELSE IF owner.failed THEN turn' = "open" /\ UNCHANGED owner
           ELSE /\ owner' = [s EXCEPT !.waiter = IF eligible(s, TRUE, FALSE)
                                                 THEN "woken" ELSE "parked"]
                /\ UNCHANGED turn
    /\ UNCHANGED <<host, native, posted, call, inflight, noticed, used, Talk, freed>>

(* The wait ends when the waiter is woken and the event can still be told, *)
(* or when nothing is left to wait for.                                    *)
WaitEnds ==
    /\ turn = "waiting"
    /\ \/ /\ owner.waiter = "parked" /\ ~completion_blocked(owner)
          /\ owner' = [owner EXCEPT !.waiter = "none"] /\ turn' = "over"
       \/ /\ owner.waiter = "woken"
          /\ LET s == collect(owner)
             IN  /\ owner' = [s EXCEPT !.waiter = "none"]
                 /\ turn' = IF eligible(s, TRUE, FALSE) THEN "open" ELSE "waiting"
    /\ UNCHANGED <<host, native, posted, call, inflight, noticed, used, Talk, freed>>

-------------------------------------------------------------------------------
Actions  == {"read", "watch", "unwatch", "terminate", "release"}
Outcomes == {"ok", "bad", "raise"}

Next == \/ Output \/ WaitExpires \/ complete
        \/ deliver \/ load \/ ack \/ Refreshed
        \/ \E action \in Actions : session_async(action)
        \/ Resume \/ Staged \/ commit
        \/ \E outcome \in Outcomes : project(outcome) \/ run(outcome)
        \/ model_response_received \/ UserTurn \/ TurnEnds \/ interrupt
        \/ drain \/ handle
        \/ wait_after_response \/ park_or_ready \/ WaitEnds

Spec == Init /\ [][Next]_vars

-------------------------------------------------------------------------------
(* Events reach the conversation in order and once: no event is told that  *)
(* an event or a tool result told before already covers, whichever of the  *)
(* resident source, project and the tool calls came first.                 *)
EventsInOrder == [][\A q \in Seqs : told'[q] # told[q] => q > heard]_vars

(* Output is released only when all of it is in the conversation, unless   *)
(* the session was discarded; what counts as delivered was shown.          *)
ReleasedWasShown == /\ freed = "acked" => 1..native.out \subseteq shown
                    /\ 1..owner.offset \subseteq shown

(* A role that waits has missed nothing: no event it could be told is      *)
(* ready, and the end of the session is not left with the adapter.         *)
NoLostWakeup ==
    owner.waiter = "parked" =>
        /\ ~eligible(owner, TRUE, FALSE)
        /\ (owner.completion # None /\ owner.completion.status \in Terminal)
               => (owner.pending = owner.completion \/ owner.covered >= owner.completion.seq
                   \/ ~owner.watching)

(* Nothing more will happen by itself: no event, load, read or cleanup is  *)
(* on its way, and the host is idle, its source having found nothing when  *)
(* it was polled, or the role is parked.                                   *)
Quiet ==
    LET s == collect(owner)
    IN  /\ posted = <<>> /\ call = None /\ ~owner.acking
        /\ owner.preparing = None /\ owner.refreshing = None
        /\ \/ /\ turn = "idle" /\ inflight = "no"
              /\ s.preparing = None /\ ~eligible(s, TRUE, FALSE)
           \/ turn = "waiting" /\ owner.waiter = "parked"

(* The end of a watched session is not left behind: when everything has    *)
(* come to rest it has reached the conversation, or the failure to deliver *)
(* it was reported there (commit, project and handle with a failed export; *)
(* excused), or the failure of an earlier delivery is still on record.     *)
NothingStranded ==
    (Quiet /\ owner.known /\ owner.committed /\ owner.watching /\ native.status = "exited")
        => owner.ended \/ owner.failed \/ native.seq \in excused
===============================================================================
