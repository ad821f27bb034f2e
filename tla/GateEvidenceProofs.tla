-------------------------- MODULE GateEvidenceProofs --------------------------
(***************************************************************************)
(* The safety of the ExecutionGate, proved for every set of operations,    *)
(* epochs, sessions and outputs and for any evidence in any order.         *)
(*                                                                         *)
(* The argument has three levels.  A phase: what next_phase can do to it.  *)
(* An item: Good is the inductive invariant of a record, Later relates it  *)
(* to what it becomes.  The gate: each method moves every item from Good   *)
(* to a Later and Good one, and such moves compose.                        *)
(***************************************************************************)
EXTENDS GateEvidence, TLAPS

Reveals == {"running", "terminal", "restore_running", "restore_delivery"}

(* What next_phase does to a valid phase: it stays valid, a retired phase  *)
(* stays, a phase that is not unsigned never becomes so, and only evidence *)
(* of a process makes it known.                                            *)
LEMMA NextPhase ==
    ASSUME NEW kind \in Kinds, NEW hold \in BOOLEAN, NEW phase \in Phases, NEW event,
           ValidPhase(kind, phase)
    PROVE  LET p == next_phase(kind, hold, phase, event) IN
           /\ p \in Phases /\ ValidPhase(kind, p)
           /\ p = "absent" => phase = "absent"
           /\ phase = "retired" => p = "retired"
           /\ phase \notin Unsigned \cup {"absent"} => p \notin Unsigned
           /\ (p \in Known /\ p # phase) => event \in Reveals
           /\ (p = "delivery" /\ p # phase /\ event # "restore_delivery") => hold
<1> DEFINE p == next_phase(kind, hold, phase, event)
<1>1. CASE phase \notin Sources(kind, event)
  BY <1>1 DEF next_phase
<1>2. CASE phase \in Sources(kind, event)
  <2>1. p = Target(kind, hold, phase, event)
    BY <1>2 DEF next_phase
  <2>2. CASE event \in Restores
    <3>1. phase = "absent" /\ p = Restored(kind, event)
      BY <1>2, <2>1, <2>2 DEF Sources, Target, Restores
    <3> QED
      BY <2>2, <3>1 DEF Restored, Restores, ValidPhase, Phases, Live, Known, Unsigned, Unconfirmed,
                        Kinds, Approved, Executes, Reveals
  <2>3. CASE event = "terminal"
    <3>1. p = IF hold THEN "delivery" ELSE "retired"
      BY <2>1, <2>3 DEF Target, Restores
    <3>2. kind \in Executes /\ phase \in Unconfirmed \cup Known
      BY <1>2, <2>3 DEF Sources, Restores, Only
    <3> QED
      BY <2>3, <3>1, <3>2 DEF ValidPhase, Phases, Live, Known, Unsigned, Unconfirmed, Reveals
  <2>4. CASE event \notin Restores /\ event # "terminal"
    <3>1. event = "claim" => kind \notin Approved /\ phase = "absent" /\ p = "submitting"
      BY <1>2, <2>1, <2>4 DEF Sources, Target, Only, Kinds
    <3>2. event = "prepare" => kind \in Approved /\ phase = "absent" /\ p = "preparing"
      BY <1>2, <2>1, <2>4 DEF Sources, Target, Only, Kinds
    <3>3. event = "sign" => phase \in Unsigned /\ p = "signing"
      BY <1>2, <2>1, <2>4 DEF Sources, Target, Unsigned
    <3>4. event = "approval" => phase \in Unsigned /\ p = "prepared"
      BY <1>2, <2>1, <2>4 DEF Sources, Target
    <3>5. event = "pending" => phase \in Unconfirmed /\ p = "pending"
      BY <1>2, <2>1, <2>4 DEF Sources, Target
    <3>6. event = "running" => kind \in Executes /\ phase \in Unconfirmed /\ p = "running"
      BY <1>2, <2>1, <2>4 DEF Sources, Target, Only
    <3>7. event \in {"accepted", "control_complete", "not_started", "release", "cancel_unsigned"}
            => phase \in Live /\ p = "retired"
      BY <1>2, <2>1, <2>4 DEF Sources, Target, Only, Live
    <3>8. event \notin {"claim", "prepare", "sign", "approval", "pending", "running", "accepted",
                       "control_complete", "not_started", "release", "cancel_unsigned"}
            => phase \in Live /\ p = IF phase \in Unsigned THEN "unsigned_unknown" ELSE "unknown"
      BY <1>2, <2>1, <2>4 DEF Sources, Target, Only, Live
    <3> QED
      BY <3>1, <3>2, <3>3, <3>4, <3>5, <3>6, <3>7, <3>8
         DEF ValidPhase, Phases, Live, Known, Unsigned, Unconfirmed, Reveals
  <2> QED
    BY <2>2, <2>3, <2>4
<1> QED
  BY <1>1, <1>2

-------------------------------------------------------------------------------
(* An item.  Good: its phase is one its kind can be in, a known process    *)
(* has its output, and only a held output awaits delivery.                 *)
Good(item) ==
    /\ item \in Item
    /\ ValidPhase(item.kind, operation_phase(item))
    /\ operation_phase(item) \in Known => item.output # NoOutput
    /\ operation_phase(item) = "delivery" => item.hold

OwnedItem(item) == item.state \notin {"absent", "retired"}

(* What may become of an item: retirement and signing are irreversible,    *)
(* and an owned item keeps its bindings.                                   *)
Later(old, new) ==
    /\ old.state = "retired" => new.state = "retired"
    /\ OwnedItem(old) => new.state # "absent"
    /\ (OwnedItem(old) /\ old.kind \in Approved /\ operation_phase(old) \notin Unsigned)
            => operation_phase(new) \notin Unsigned
    /\ (OwnedItem(old) /\ OwnedItem(new)) =>
            /\ new.kind = old.kind
            /\ old.epoch # NoEpoch => new.epoch = old.epoch
            /\ old.session # NoSession => new.session = old.session
            /\ old.output # NoOutput => new.output = old.output

(* The phase of a record, and a phase stored and read back.                *)
LEMMA PhaseOfItem ==
    ASSUME NEW item \in Item
    PROVE  /\ operation_phase(item) \in Phases
           /\ operation_phase(item) = "absent" <=> item.state = "absent"
           /\ operation_phase(item) = "retired" <=> item.state = "retired"
<1>1. item.state \in States
  BY DEF Item
<1> QED
  BY <1>1 DEF operation_phase, States, Phases, Live, Known, Unsigned, Unconfirmed

(* store_phase then operation_phase: the phase that was stored comes back. *)
LEMMA RoundTrip ==
    ASSUME NEW item \in Item, NEW phase \in Phases, ValidPhase(item.kind, phase)
    PROVE  LET new == store_phase(item, phase) IN
           /\ new \in Item /\ operation_phase(new) = phase
           /\ new.kind = item.kind /\ new.hold = item.hold /\ new.epoch = item.epoch
           /\ new.session = item.session /\ new.output = item.output
<1> DEFINE new == store_phase(item, phase)
           flag == IF item.kind \in Approved THEN phase \in Unsigned ELSE item.unsigned
<1>1. PublicPhase(phase) \in States
  BY DEF PublicPhase, States, Phases, Live, Known, Unsigned, Unconfirmed
<1>2. flag \in BOOLEAN
  <2>1. item.unsigned \in BOOLEAN  BY DEF Item
  <2>2. CASE item.kind \in Approved /\ phase \in Unsigned
    <3>1. flag = TRUE  BY <2>2, Zenon
    <3> QED  BY <3>1
  <2>3. CASE item.kind \in Approved /\ phase \notin Unsigned
    <3>1. flag = (phase \in Unsigned)  BY <2>3
    <3>2. (phase \in Unsigned) = FALSE  BY <2>3
    <3> QED  BY <3>1, <3>2
  <2>4. CASE item.kind \notin Approved
    <3>1. flag = item.unsigned  BY <2>4, Zenon
    <3> QED  BY <2>1, <3>1
  <2> QED  BY <2>2, <2>3, <2>4, Zenon
<1>3. new = [item EXCEPT !.state = PublicPhase(phase), !.unsigned = flag]
  BY DEF store_phase
<1>4. /\ new \in Item /\ new.kind = item.kind /\ new.hold = item.hold /\ new.epoch = item.epoch
      /\ new.session = item.session /\ new.output = item.output
      /\ new.state = PublicPhase(phase) /\ new.unsigned = flag
  <2> HIDE DEF new, flag
  <2> QED  BY <1>1, <1>2, <1>3 DEF Item
<1>5. operation_phase(new) = phase
  <2> HIDE DEF new
  <2> QED  BY <1>4 DEF operation_phase, PublicPhase, ValidPhase, Phases, Live, Known, Unsigned, Unconfirmed,
                       Approved, Executes
<1> QED
  BY <1>4, <1>5

(* A retired identity is a good item.                                      *)
LEMMA TombstoneGood == Good(Tombstone) /\ Tombstone.state = "retired"
<1>1. Tombstone \in Item /\ Tombstone.state = "retired"
  BY DEF Tombstone, Blank, Item, Kinds, States
<1>2. operation_phase(Tombstone) = "retired"
  BY <1>1, PhaseOfItem
<1> QED
  BY <1>1, <1>2 DEF Good, ValidPhase, Known

(* _advance on one item: only evidence of a process needs its output.      *)
LEMMA StepItem ==
    ASSUME NEW item, Good(item), NEW event,
           event \in Reveals => item.output # NoOutput,
           event = "restore_delivery" => item.hold
    PROVE  /\ Good(Step(item, event))
           /\ OwnedItem(item) => Later(item, Step(item, event))
<1> DEFINE phase == operation_phase(item)
           p == next_phase(item.kind, item.hold, phase, event)
<1>1. item \in Item /\ item.kind \in Kinds /\ item.hold \in BOOLEAN /\ ValidPhase(item.kind, phase)
  BY DEF Good, Item
<1>2. phase \in Phases
  BY <1>1, PhaseOfItem
<1> HIDE DEF phase
<1>3. /\ p \in Phases /\ ValidPhase(item.kind, p)
      /\ p = "absent" => phase = "absent"
      /\ phase \notin Unsigned \cup {"absent"} => p \notin Unsigned
      /\ (p \in Known /\ p # phase) => event \in Reveals
      /\ (p = "delivery" /\ p # phase /\ event # "restore_delivery") => item.hold
  BY <1>1, <1>2, NextPhase
<1>4. /\ phase \in Known => item.output # NoOutput
      /\ phase = "delivery" => item.hold
      /\ phase = "absent" <=> item.state = "absent"
  BY <1>1, PhaseOfItem DEF Good, phase
<1>5. Step(item, event) = IF p = "retired" THEN Tombstone ELSE store_phase(item, p)
  BY DEF Step, phase
<1> HIDE DEF p
<1>6. CASE p = "retired"
  <2>1. Step(item, event) = Tombstone
    BY <1>5, <1>6
  <2>2. operation_phase(Tombstone) \notin Unsigned
    BY TombstoneGood, PhaseOfItem DEF Unsigned, Good
  <2> QED
    BY <2>1, <2>2, TombstoneGood DEF Later, OwnedItem
<1>7. CASE p # "retired"
  <2> DEFINE new == store_phase(item, p)
  <2>1. /\ new \in Item /\ operation_phase(new) = p
        /\ new.kind = item.kind /\ new.hold = item.hold /\ new.epoch = item.epoch
        /\ new.session = item.session /\ new.output = item.output
    BY <1>1, <1>3, RoundTrip
  <2>2. Step(item, event) = new
    BY <1>5, <1>7
  <2> HIDE DEF new
  <2>3. p \in Known => new.output # NoOutput
    BY <1>3, <1>4, <2>1
  <2>4. p = "delivery" => new.hold
    BY <1>3, <1>4, <2>1, Zenon DEF Known
  <2>5. Good(new)
    BY <1>3, <2>1, <2>3, <2>4, Zenon DEF Good
  <2>6. ASSUME OwnedItem(item) PROVE Later(item, new)
    <3>1. phase # "absent" /\ p # "absent"
      BY <1>3, <1>4, <2>6 DEF OwnedItem
    <3>2. new.state # "absent"
      BY <2>1, <3>1, PhaseOfItem
    <3>3. phase \notin Unsigned => operation_phase(new) \notin Unsigned
      BY <1>3, <2>1, <3>1
    <3> QED
      BY <2>1, <2>6, <3>2, <3>3 DEF Later, OwnedItem, phase
  <2> QED
    BY <2>2, <2>5, <2>6
<1> QED
  BY <1>6, <1>7

(* Later is reflexive and transitive.                                      *)
LEMMA LaterSame == ASSUME NEW item PROVE Later(item, item)
BY DEF Later, OwnedItem

(* Two moves of an item, one after the other, are one.                     *)
LEMMA LaterTwice ==
    ASSUME NEW a, NEW b, NEW c, Later(a, b), Later(b, c)
    PROVE  Later(a, c)
<1>1. CASE OwnedItem(a) /\ OwnedItem(b)
  BY <1>1 DEF Later, OwnedItem
<1>2. CASE ~OwnedItem(a) \/ ~OwnedItem(b)
  <2>1. c.state = "retired" => operation_phase(c) \notin Unsigned
    BY DEF operation_phase, Unsigned
  <2> QED
    BY <1>2, <2>1 DEF Later, OwnedItem
<1> QED
  BY <1>1, <1>2

-------------------------------------------------------------------------------
(* The gate.                                                               *)
GateGood(g) ==
    /\ g \in [operations : [Ops -> Item], current_epoch : Epochs \cup {NoEpoch}]
    /\ \A o \in Ops : Good(g.operations[o])

Moves(g, h) == GateGood(h) /\ \A o \in Ops : Later(g.operations[o], h.operations[o])

(* A method that returns early moves the gate nowhere.                     *)
LEMMA MovesSame == ASSUME NEW g, GateGood(g) PROVE Moves(g, g)
BY LaterSame DEF Moves

(* A method that calls another one moves the gate twice.                   *)
LEMMA MovesTwice ==
    ASSUME NEW g, NEW h, NEW i, Moves(g, h), Moves(h, i)
    PROVE  Moves(g, i)
BY LaterTwice DEF Moves

(* A method that replaces items, each by a good and later one, moves the   *)
(* gate; two forms, for one item and for a loop over all of them.          *)
LEMMA MovesOne ==
    ASSUME NEW g, GateGood(g), NEW o \in Ops, NEW new, Good(new), Later(g.operations[o], new)
    PROVE  Moves(g, [g EXCEPT !.operations[o] = new])
<1> DEFINE h == [g EXCEPT !.operations[o] = new]
<1>1. new \in Item
  BY DEF Good
<1>2. /\ h \in [operations : [Ops -> Item], current_epoch : Epochs \cup {NoEpoch}]
      /\ h.operations[o] = new
      /\ \A x \in Ops \ {o} : h.operations[x] = g.operations[x]
  BY <1>1 DEF GateGood
<1> HIDE DEF h
<1>3. \A x \in Ops : Good(h.operations[x]) /\ Later(g.operations[x], h.operations[x])
  BY <1>2, LaterSame DEF GateGood
<1> QED
  BY <1>2, <1>3 DEF Moves, GateGood, h

(* The same for a loop over the operations.                                *)
LEMMA MovesAll ==
    ASSUME NEW g, GateGood(g), NEW h,
           h.current_epoch \in Epochs \cup {NoEpoch},
           h = [current_epoch |-> h.current_epoch, operations |-> h.operations],
           h.operations = [o \in Ops |-> h.operations[o]],
           \A o \in Ops : Good(h.operations[o]) /\ Later(g.operations[o], h.operations[o])
    PROVE  Moves(g, h)
<1>1. \A o \in Ops : h.operations[o] \in Item
  BY DEF Good
<1>2. h.operations \in [Ops -> Item]
  BY <1>1
<1>3. h \in [operations : [Ops -> Item], current_epoch : Epochs \cup {NoEpoch}]
  BY <1>2
<1> QED
  BY <1>3 DEF Moves, GateGood

(* _advance with evidence that reveals no process.                         *)
LEMMA MovesAdvance ==
    ASSUME NEW g, GateGood(g), NEW o \in Ops, NEW event, event \notin Reveals
    PROVE  Moves(g, advance(g, o, event))
<1>1. CASE ~Owned(g, o)
  BY <1>1, MovesSame DEF advance
<1>2. CASE Owned(g, o)
  <2> DEFINE item == g.operations[o]
  <2>1. Good(item) /\ OwnedItem(item)
    BY <1>2 DEF GateGood, Owned, OwnedItem
  <2>2. event # "restore_delivery"
    BY DEF Reveals
  <2> HIDE DEF item
  <2>3. Good(Step(item, event)) /\ Later(item, Step(item, event))
    BY <2>1, <2>2, StepItem
  <2>4. advance(g, o, event) = [g EXCEPT !.operations[o] = Step(item, event)]
    BY <1>2 DEF advance, item
  <2> QED
    BY <2>3, <2>4, MovesOne DEF item
<1> QED
  BY <1>1, <1>2

(* A record whose binding changes keeps its phase.                         *)
LEMMA SamePhase ==
    ASSUME NEW a, NEW b, a.state = b.state, a.kind = b.kind, a.unsigned = b.unsigned
    PROVE  operation_phase(a) = operation_phase(b)
BY DEF operation_phase

(* bind gives an item its first epoch, or leaves the one it has.           *)
LEMMA MovesBind ==
    ASSUME NEW g, GateGood(g), NEW o \in Ops, NEW e \in Epochs \cup {NoEpoch}, ~BindRaises(g, o, e)
    PROVE  Moves(g, bind(g, o, e))
<1>1. CASE ~Owned(g, o)
  BY <1>1, MovesSame DEF bind
<1>2. CASE Owned(g, o)
  <2> DEFINE item == g.operations[o]
             new == [item EXCEPT !.epoch = e]
  <2>1. Good(item) /\ item \in Item /\ item.epoch \in {NoEpoch, e}
    BY <1>2 DEF GateGood, Good, BindRaises
  <2>2. /\ new \in Item /\ new.state = item.state /\ new.kind = item.kind /\ new.unsigned = item.unsigned
        /\ new.hold = item.hold /\ new.epoch = e /\ new.session = item.session /\ new.output = item.output
    BY <2>1 DEF Item
  <2>3. bind(g, o, e) = [g EXCEPT !.operations[o] = new]
    BY <1>2 DEF bind
  <2> HIDE DEF item, new
  <2>4. operation_phase(new) = operation_phase(item)
    BY <2>2, SamePhase
  <2>5. Good(new)
    BY <2>1, <2>2, <2>4 DEF Good
  <2>6. Later(item, new)
    BY <2>1, <2>2, <2>4 DEF Later, OwnedItem
  <2> QED
    BY <2>3, <2>5, <2>6, MovesOne DEF item
<1> QED
  BY <1>1, <1>2

-------------------------------------------------------------------------------
(* The methods, one lemma each.                                            *)
(* connected moves the operations of other epochs, all at once.            *)
LEMMA MovesConnected ==
    ASSUME NEW g, GateGood(g), NEW e \in Epochs
    PROVE  Moves(g, connected(g, e))
<1> DEFINE h == connected(g, e)
<1>1. ASSUME NEW o \in Ops
      PROVE  LET new == IF Owned(g, o) /\ g.operations[o].epoch \notin {NoEpoch, e}
                        THEN Step(g.operations[o], "epoch_changed") ELSE g.operations[o]
             IN  Good(new) /\ Later(g.operations[o], new)
  <2>1. Good(g.operations[o])
    BY DEF GateGood
  <2>2. "epoch_changed" \notin Reveals /\ "epoch_changed" # "restore_delivery"
    BY DEF Reveals
  <2>3. Owned(g, o) => Good(Step(g.operations[o], "epoch_changed"))
                       /\ Later(g.operations[o], Step(g.operations[o], "epoch_changed"))
    BY <2>1, <2>2, StepItem DEF Owned, OwnedItem
  <2> QED
    BY <2>1, <2>3, LaterSame
<1>2. /\ h.current_epoch = e
      /\ h = [current_epoch |-> h.current_epoch, operations |-> h.operations]
      /\ h.operations = [o \in Ops |-> h.operations[o]]
      /\ \A o \in Ops : h.operations[o] = IF Owned(g, o) /\ g.operations[o].epoch \notin {NoEpoch, e}
                        THEN Step(g.operations[o], "epoch_changed") ELSE g.operations[o]
  BY DEF connected
<1> HIDE DEF h
<1> QED
  BY <1>1, <1>2, MovesAll DEF h

(* release moves the operations that own the output.                       *)
LEMMA MovesRelease ==
    ASSUME NEW g, GateGood(g), NEW out, NEW e
    PROVE  Moves(g, release(g, out, e))
<1> DEFINE h == release(g, out, e)
           hit(o) == Owned(g, o) /\ out # NoOutput /\ g.operations[o].output = out
                     /\ same_epoch(g, g.operations[o], e)
<1>1. ASSUME NEW o \in Ops
      PROVE  LET new == IF hit(o) THEN Step(g.operations[o], "release") ELSE g.operations[o]
             IN  Good(new) /\ Later(g.operations[o], new)
  <2>1. Good(g.operations[o])
    BY DEF GateGood
  <2>2. "release" \notin Reveals /\ "release" # "restore_delivery"
    BY DEF Reveals
  <2>3. Owned(g, o) => Good(Step(g.operations[o], "release"))
                       /\ Later(g.operations[o], Step(g.operations[o], "release"))
    BY <2>1, <2>2, StepItem DEF Owned, OwnedItem
  <2> QED
    BY <2>1, <2>3, LaterSame
<1>2. /\ h.current_epoch = g.current_epoch
      /\ h = [current_epoch |-> h.current_epoch, operations |-> h.operations]
      /\ h.operations = [o \in Ops |-> h.operations[o]]
      /\ \A o \in Ops : h.operations[o] = IF hit(o) THEN Step(g.operations[o], "release") ELSE g.operations[o]
  BY DEF release, GateGood
<1>3. g.current_epoch \in Epochs \cup {NoEpoch}
  BY DEF GateGood
<1> HIDE DEF h, hit
<1> QED
  BY <1>1, <1>2, <1>3, MovesAll DEF h

(* A record the shell side kept becomes a good item.                       *)
LEMMA RestoredItem ==
    ASSUME NEW rec \in Item, Record(rec)
    PROVE  Good(Step([rec EXCEPT !.state = "absent"], RestoreEvent(rec)))
<1> DEFINE new == [rec EXCEPT !.state = "absent"]
<1>1. new \in Item /\ new.state = "absent" /\ new.hold = rec.hold /\ new.output = rec.output
  BY DEF Item, States
<1> HIDE DEF new
<1>2. operation_phase(new) = "absent"
  BY <1>1, PhaseOfItem
<1>3. Good(new)
  BY <1>1, <1>2 DEF Good, ValidPhase, Known
<1>4. RestoreEvent(rec) \in Reveals => new.output # NoOutput
  BY <1>1 DEF RestoreEvent, Reveals
<1>5. RestoreEvent(rec) = "restore_delivery" => rec.state = "delivery"
  BY DEF RestoreEvent
<1>6. RestoreEvent(rec) = "restore_delivery" => new.hold
  BY <1>1, <1>5, Zenon DEF Record
<1> QED
  BY <1>3, <1>4, <1>6, StepItem DEF new

(* restore only creates items for identities the gate has never seen.      *)
LEMMA MovesRestore ==
    ASSUME NEW g, GateGood(g), NEW records,
           \A o \in Ops : o \in DOMAIN records => records[o] \in Item /\ Record(records[o])
    PROVE  Moves(g, restore(g, records))
<1> DEFINE h == restore(g, records)
           kept(o) == o \notin DOMAIN records \/ Owned(g, o) \/ Retired(g, o)
           item(o) == Step([records[o] EXCEPT !.state = "absent"], RestoreEvent(records[o]))
           next(o) == IF g.current_epoch # NoEpoch /\ item(o).epoch # g.current_epoch
                      THEN Step(item(o), "epoch_changed") ELSE item(o)
<1>1. ASSUME NEW o \in Ops
      PROVE  LET new == IF kept(o) THEN g.operations[o] ELSE next(o)
             IN  Good(new) /\ Later(g.operations[o], new)
  <2>1. Good(g.operations[o])
    BY DEF GateGood
  <2>2. CASE kept(o)
    BY <2>1, <2>2, LaterSame
  <2>3. CASE ~kept(o)
    <3>1. Good(item(o))
      BY <2>3, RestoredItem
    <3>2. "epoch_changed" \notin Reveals /\ "epoch_changed" # "restore_delivery"
      BY DEF Reveals
    <3> HIDE DEF item
    <3>3. Good(next(o))
      BY <3>1, <3>2, StepItem
    <3>4. g.operations[o].state = "absent"
      BY <2>3 DEF Owned, Retired
    <3>5. \A new : Later(g.operations[o], new)
      BY <3>4 DEF Later, OwnedItem
    <3> QED
      BY <2>3, <3>3, <3>5
  <2> QED
    BY <2>2, <2>3
<1>2. /\ h.current_epoch = g.current_epoch
      /\ h = [current_epoch |-> h.current_epoch, operations |-> h.operations]
      /\ h.operations = [o \in Ops |-> h.operations[o]]
      /\ \A o \in Ops : h.operations[o] = IF kept(o) THEN g.operations[o] ELSE next(o)
  <2> DEFINE f == [o \in Ops |-> IF kept(o) THEN g.operations[o] ELSE next(o)]
  <2>1. h = [g EXCEPT !.operations = f]
    BY Zenon DEF restore
  <2> HIDE DEF h, kept, next
  <2> QED
    BY <2>1 DEF GateGood
<1>3. g.current_epoch \in Epochs \cup {NoEpoch}
  BY DEF GateGood
<1> HIDE DEF h, kept, next
<1> QED
  BY <1>1, <1>2, <1>3, MovesAll DEF h

(* claim creates an item, or finds the one of an earlier attempt.          *)
LEMMA MovesClaim ==
    ASSUME NEW g, GateGood(g), NEW o \in Ops, NEW e \in Epochs \cup {NoEpoch},
           NEW hold \in BOOLEAN, NEW kind \in Kinds, ~ClaimRaises(g, o, e, kind)
    PROVE  Moves(g, claim(g, o, e, hold, kind))
<1>1. CASE Owned(g, o)
  BY <1>1, MovesSame DEF claim
<1>2. CASE ~Owned(g, o)
  <2> DEFINE new == [Blank EXCEPT !.kind = kind, !.epoch = e, !.hold = hold]
             event == IF kind \in Approved THEN "prepare" ELSE "claim"
  <2>1. new \in Item /\ new.state = "absent"
    BY DEF Blank, Item, States
  <2>2. claim(g, o, e, hold, kind) = [g EXCEPT !.operations[o] = Step(new, event)]
    BY <1>2, Zenon DEF claim
  <2>3. event \notin Reveals /\ event # "restore_delivery"
    BY DEF Reveals
  <2> HIDE DEF new, event
  <2>4. operation_phase(new) = "absent"
    BY <2>1, PhaseOfItem
  <2>5. Good(new)
    BY <2>1, <2>4 DEF Good, ValidPhase, Known
  <2>6. Good(Step(new, event))
    BY <2>3, <2>5, StepItem
  <2>7. g.operations[o].state = "absent"
    BY <1>2 DEF ClaimRaises, Owned, Retired
  <2>8. Later(g.operations[o], Step(new, event))
    BY <2>7 DEF Later, OwnedItem
  <2> QED
    BY <2>2, <2>6, <2>8, MovesOne
<1> QED
  BY <1>1, <1>2

(* claim_control also binds the session.                                   *)
LEMMA MovesClaimControl ==
    ASSUME NEW g, GateGood(g), NEW o \in Ops, NEW e \in Epochs \cup {NoEpoch},
           NEW s \in Sessions, ~ClaimControlRaises(g, o, e, s)
    PROVE  Moves(g, claim_control(g, o, e, s))
<1>1. CASE Owned(g, o)
  BY <1>1, MovesSame DEF claim_control
<1>2. CASE ~Owned(g, o)
  <2> DEFINE h == claim(g, o, e, FALSE, "control")
             item == h.operations[o]
             new == [item EXCEPT !.session = s]
             k == [h EXCEPT !.operations[o] = new]
  <2>1. Moves(g, h)
    BY MovesClaim DEF ClaimControlRaises, Kinds
  <2>2. claim_control(g, o, e, s) = k
    BY <1>2 DEF claim_control
  <2>3. g.operations[o].state = "absent"
    BY <1>2 DEF ClaimControlRaises, ClaimRaises, Owned, Retired
  <2> HIDE DEF h
  <2>4. GateGood(h) /\ Good(item) /\ item \in Item
    BY <2>1 DEF Moves, GateGood, Good
  <2> HIDE DEF item
  <2>5. /\ new \in Item /\ new.state = item.state /\ new.kind = item.kind /\ new.unsigned = item.unsigned
        /\ new.hold = item.hold /\ new.output = item.output
    BY <2>4 DEF Item
  <2> HIDE DEF new
  <2>6. operation_phase(new) = operation_phase(item)
    BY <2>5, SamePhase
  <2>7. Good(new)
    BY <2>4, <2>5, <2>6 DEF Good
  <2>8. /\ k \in [operations : [Ops -> Item], current_epoch : Epochs \cup {NoEpoch}]
        /\ k.operations[o] = new
        /\ \A x \in Ops \ {o} : k.operations[x] = h.operations[x]
    BY <2>4, <2>5 DEF GateGood
  <2> HIDE DEF k
  <2>9. GateGood(k)
    BY <2>4, <2>7, <2>8 DEF GateGood
  <2>10. Later(g.operations[o], new)
    BY <2>3 DEF Later, OwnedItem
  <2>11. \A x \in Ops : Later(g.operations[x], k.operations[x])
    BY <2>1, <2>8, <2>10 DEF Moves
  <2> QED
    BY <2>2, <2>9, <2>11 DEF Moves
<1> QED
  BY <1>1, <1>2

(* sign binds, then records that the approval is being committed.          *)
LEMMA MovesSign ==
    ASSUME NEW g, GateGood(g), NEW o \in Ops, NEW e \in Epochs, ~SignRejected(g, o, e)
    PROVE  Moves(g, sign(g, o, e))
<1>1. Moves(g, bind(g, o, e))
  BY MovesBind DEF SignRejected
<1>2. Moves(bind(g, o, e), sign(g, o, e))
  BY <1>1, MovesAdvance DEF sign, Moves, Reveals
<1> QED
  BY <1>1, <1>2, MovesTwice

(* failed binds an unbound item, then records the loss.                    *)
LEMMA MovesFailed ==
    ASSUME NEW g, GateGood(g), NEW o \in Ops, NEW effect, NEW e \in Epochs \cup {NoEpoch}
    PROVE  Moves(g, failed(g, o, effect, e))
<1> DEFINE f == IF e # NoEpoch THEN e ELSE g.operations[o].epoch
           unbound == g.operations[o].epoch = NoEpoch
           bound == IF unbound THEN bind(g, o, f) ELSE g
<1>1. CASE ~Owned(g, o) \/ (unbound /\ BindRaises(g, o, f))
  <2>1. failed(g, o, effect, e) = g
    BY <1>1, Zenon DEF failed
  <2> QED
    BY <2>1, MovesSame
<1>2. CASE ~(~Owned(g, o) \/ (unbound /\ BindRaises(g, o, f)))
  <2>1. f \in Epochs \cup {NoEpoch}
    BY DEF GateGood, Good, Item
  <2>2. Moves(g, bound)
    BY <1>2, <2>1, MovesBind, MovesSame
  <2>3. failed(g, o, effect, e) = IF same_epoch(bound, bound.operations[o], f)
                                  THEN advance(bound, o, Lost(effect)) ELSE bound
    BY <1>2, Zenon DEF failed
  <2> HIDE DEF bound
  <2>4. Moves(bound, advance(bound, o, Lost(effect)))
    BY <2>2, MovesAdvance DEF Moves, Lost, Reveals
  <2> QED
    BY <2>2, <2>3, <2>4, MovesTwice
<1> QED
  BY <1>1, <1>2

(* Evidence of a process that the item's kind or phase does not take       *)
(* leaves the phase alone, as evidence of nothing would.                   *)
LEMMA NotTaken ==
    ASSUME NEW kind, NEW hold \in BOOLEAN, NEW phase
    PROVE  /\ next_phase(kind, hold, phase, "running") \in {"running", phase}
           /\ next_phase(kind, hold, phase, "terminal") \in {"delivery", "retired", phase}
           /\ next_phase(kind, hold, phase, "nothing") = phase
<1>1. Target(kind, hold, phase, "running") = "running"
  BY DEF Target, Restores
<1>2. Target(kind, hold, phase, "terminal") = IF hold THEN "delivery" ELSE "retired"
  BY DEF Target, Restores
<1>3. Sources(kind, "nothing") = {}
  BY DEF Sources, Restores
<1> QED
  BY <1>1, <1>2, <1>3 DEF next_phase

(* snapshot on one item it concerns: the binding it takes agrees with the  *)
(* one the item has.                                                       *)
LEMMA ObservedItem ==
    ASSUME NEW item, Good(item), OwnedItem(item), NEW r \in Snapshot,
           item.output \in {NoOutput, r.output} \/ r.output = NoOutput,
           item.session \in {NoSession, r.session} \/ r.session = NoSession
    PROVE  Good(Observed(item, r)) /\ Later(item, Observed(item, r))
<1> DEFINE event == Evidence(r)
           phase == operation_phase(item)
           after == next_phase(item.kind, item.hold, phase, event)
           taken == \/ event = "running" /\ after = "running"
                    \/ event = "terminal" /\ after \in {"delivery", "retired"}
                    \/ event = "accepted" /\ after = "retired"
           bound == [item EXCEPT !.output = r.output,
                                 !.session = IF item.session # NoSession THEN item.session ELSE r.session]
<1>1. item \in Item /\ item.hold \in BOOLEAN
  BY DEF Good, Item
<1>2. /\ r.output \in Outputs \cup {NoOutput} /\ r.session \in Sessions \cup {NoSession}
      /\ event \in {"running", "terminal"} => r.output # NoOutput
      /\ event \in {"accepted", "terminal", "terminal_empty", "running", "missing"}
  BY DEF Snapshot, Evidence
<1>3. Observed(item, r) = Step(IF taken THEN bound ELSE item, event)
  BY <1>1, Zenon DEF Observed
<1>4. /\ bound \in Item /\ bound.state = item.state /\ bound.kind = item.kind
      /\ bound.unsigned = item.unsigned /\ bound.hold = item.hold /\ bound.epoch = item.epoch
      /\ bound.output = r.output
      /\ item.session # NoSession => bound.session = item.session
  BY <1>1, <1>2 DEF Item
<1> HIDE DEF event, bound
<1>5. operation_phase(bound) = phase
  BY <1>4, SamePhase
<1>6. CASE after = "retired"
  <2>1. Step(item, event) = Tombstone
    BY <1>6 DEF Step
  <2>2. Step(bound, event) = Tombstone
    BY <1>4, <1>5, <1>6 DEF Step
  <2>3. operation_phase(Tombstone) \notin Unsigned
    BY TombstoneGood, PhaseOfItem DEF Unsigned, Good
  <2> QED
    BY <1>3, <2>1, <2>2, <2>3, TombstoneGood DEF Later, OwnedItem
<1>7. CASE after # "retired" /\ taken
  <2>1. r.output # NoOutput /\ event # "restore_delivery"
    BY <1>2, <1>7
  <2>2. Good(bound)
    BY <1>4, <1>5, <2>1 DEF Good
  <2>3. Later(item, bound)
    BY <1>4, <1>5, <2>1 DEF Later, OwnedItem
  <2>4. OwnedItem(bound)
    BY <1>4 DEF OwnedItem
  <2>5. Good(Step(bound, event)) /\ Later(bound, Step(bound, event))
    BY <1>4, <2>1, <2>2, <2>4, StepItem
  <2> QED
    BY <1>3, <1>7, <2>3, <2>5, LaterTwice
<1>8. CASE ~taken
  <2>1. event \in {"running", "terminal"} => after = phase
    BY <1>1, <1>8, NotTaken
  <2>2. next_phase(item.kind, item.hold, phase, "nothing") = phase
    BY <1>1, NotTaken
  <2>3. event \in {"running", "terminal"} => Step(item, event) = Step(item, "nothing")
    BY <2>1, <2>2 DEF Step
  <2>4. "nothing" \notin Reveals /\ event # "restore_delivery"
        /\ (event \notin {"running", "terminal"} => event \notin Reveals)
    BY <1>2 DEF Reveals
  <2>5. Good(Step(item, "nothing")) /\ Later(item, Step(item, "nothing"))
    BY <2>4, StepItem
  <2>6. event \notin {"running", "terminal"} => Good(Step(item, event)) /\ Later(item, Step(item, event))
    BY <2>4, StepItem
  <2> QED
    BY <1>3, <1>8, <2>3, <2>5, <2>6
<1> QED
  BY <1>6, <1>7, <1>8

(* snapshot moves every operation its result concerns.                     *)
LEMMA MovesSnapshot ==
    ASSUME NEW g, GateGood(g), NEW r \in Snapshot, NEW e, NEW owner
    PROVE  Moves(g, snapshot(g, r, e, owner))
<1> DEFINE h == snapshot(g, r, e, owner)
           new(o) == IF Concerns(g, o, r, e, owner) THEN Observed(g.operations[o], r) ELSE g.operations[o]
<1>1. CASE r.epoch # e
  BY <1>1, MovesSame DEF snapshot
<1>2. CASE r.epoch = e
  <2>1. ASSUME NEW o \in Ops
        PROVE  Good(new(o)) /\ Later(g.operations[o], new(o))
    <3>1. Good(g.operations[o])
      BY DEF GateGood
    <3>2. Concerns(g, o, r, e, owner) => Good(Observed(g.operations[o], r))
                                         /\ Later(g.operations[o], Observed(g.operations[o], r))
      BY <3>1, ObservedItem DEF Concerns, Owned, OwnedItem
    <3> QED
      BY <3>1, <3>2, LaterSame
  <2>2. h = [g EXCEPT !.operations = [o \in Ops |-> new(o)]]
    BY <1>2, Zenon DEF snapshot
  <2> HIDE DEF h, new
  <2>3. /\ h.current_epoch = g.current_epoch
        /\ h = [current_epoch |-> h.current_epoch, operations |-> h.operations]
        /\ h.operations = [o \in Ops |-> h.operations[o]]
        /\ \A o \in Ops : h.operations[o] = new(o)
    BY <2>2 DEF GateGood
  <2>4. g.current_epoch \in Epochs \cup {NoEpoch}
    BY DEF GateGood
  <2> QED
    BY <2>1, <2>3, <2>4, MovesAll DEF h
<1> QED
  BY <1>1, <1>2

(* result, once the operation is bound: each kind of answer.               *)
LEMMA MovesReported ==
    ASSUME NEW g, GateGood(g), NEW o \in Ops, NEW response \in Response, NEW e
    PROVE  Moves(g, Reported(g, o, response, e))
<1> DEFINE r == response.result
           seen == snapshot(g, r, e, r.execution)
<1>1. r \in Snapshot
  BY DEF Response
<1>2. Moves(g, seen) /\ Moves(g, snapshot(g, r, e, o))
  BY <1>1, MovesSnapshot
<1>3. /\ Moves(g, advance(g, o, Lost(response.error))) /\ Moves(g, advance(g, o, "approval"))
      /\ Moves(g, advance(g, o, "pending")) /\ Moves(g, advance(g, o, "missing"))
  BY MovesAdvance DEF Lost, Reveals
<1>4. Moves(g, ControlResult(g, o, response, e))
  <2>1. Moves(seen, advance(seen, o, "control_complete"))
    BY <1>2, MovesAdvance DEF Moves, Reveals
  <2>2. ControlResult(g, o, response, e) \in {advance(seen, o, "control_complete"), seen}
    BY DEF ControlResult
  <2> HIDE DEF seen
  <2> QED
    BY <1>2, <2>1, <2>2, MovesTwice
<1> QED
  BY <1>2, <1>3, <1>4 DEF Reported

(* result binds an unbound item, then takes the answer.                    *)
LEMMA MovesResult ==
    ASSUME NEW g, GateGood(g), NEW o \in Ops, NEW response \in Response, NEW e \in Epochs
    PROVE  Moves(g, result(g, o, response, e))
<1> DEFINE unbound == g.operations[o].epoch = NoEpoch
           bound == IF unbound THEN bind(g, o, e) ELSE g
           ignored == \/ ~Owned(g, o)
                      \/ response.result.status # "none" /\ response.result.epoch # e
                      \/ unbound /\ BindRaises(g, o, e)
<1>1. CASE ignored
  <2>1. result(g, o, response, e) = g
    BY <1>1, Zenon DEF result
  <2> QED
    BY <2>1, MovesSame
<1>2. CASE ~ignored
  <2>1. Moves(g, bound)
    BY <1>2, MovesBind, MovesSame
  <2>2. result(g, o, response, e) = IF same_epoch(bound, bound.operations[o], e)
                                    THEN Reported(bound, o, response, e) ELSE bound
    BY <1>2, Zenon DEF result
  <2> HIDE DEF bound
  <2>3. Moves(bound, Reported(bound, o, response, e))
    BY <2>1, MovesReported DEF Moves
  <2> QED
    BY <2>1, <2>2, <2>3, MovesTwice
<1> QED
  BY <1>1, <1>2

-------------------------------------------------------------------------------
(* An empty gate is good.                                                 *)
LEMMA InitGood == Init => GateGood(gate)
<1> SUFFICES ASSUME Init PROVE GateGood(gate)
  OBVIOUS
<1>1. Blank \in Item /\ Blank.state = "absent"
  BY DEF Blank, Item, Kinds, States
<1>2. operation_phase(Blank) = "absent"
  BY <1>1, PhaseOfItem
<1>3. Good(Blank)
  BY <1>1, <1>2 DEF Good, ValidPhase, Known
<1> QED
  BY <1>1, <1>3 DEF Init, InitGate, GateGood

(* What a worker answers is a response.                                    *)
LEMMA ResponsesTyped == Responses \subseteq Response
<1>1. \A r \in Snapshots : r \in Snapshot
  BY SnapshotsAssumption
<1> QED
  BY <1>1 DEF Responses, Response, Errors, Answers

(* Every method, with any argument, moves a good gate.                     *)
LEMMA NextMoves == ASSUME GateGood(gate), Next PROVE Moves(gate, gate')
<1>1. CASE Connected          BY <1>1, MovesConnected DEF Connected
<1>2. CASE RestoreRecord
  <2>1. PICK o \in Ops, record \in Records : gate' = restore(gate, [x \in {o} |-> record])
    BY <1>2 DEF RestoreRecord
  <2>2. record \in Item /\ Record(record)
    BY RecordsAssumption
  <2> QED
    BY <2>1, <2>2, MovesRestore
<1>3. CASE Claim              BY <1>3, MovesClaim DEF Claim
<1>4. CASE ClaimControl       BY <1>4, MovesClaimControl DEF ClaimControl
<1>5. CASE Bind               BY <1>5, MovesBind DEF Bind
<1>6. CASE Sign               BY <1>6, MovesSign DEF Sign
<1>7. CASE Failed             BY <1>7, MovesFailed DEF Failed
<1>8. CASE CancelPrepared     BY <1>8, MovesAdvance DEF CancelPrepared, cancel_prepared, Reveals
<1>9. CASE QueryFailed        BY <1>9, MovesAdvance, MovesSame DEF QueryFailed, query_failed, Reveals
<1>10. CASE ReconcilePrepared
  BY <1>10, MovesAdvance, MovesSame DEF ReconcilePrepared, reconcile_prepared, Reveals
<1>11. CASE Result            BY <1>11, ResponsesTyped, MovesResult DEF Result
<1>12. CASE Observe           BY <1>12, SnapshotsAssumption, MovesSnapshot DEF Observe
<1>13. CASE Release           BY <1>13, MovesRelease DEF Release
<1> QED
  BY <1>1, <1>2, <1>3, <1>4, <1>5, <1>6, <1>7, <1>8, <1>9, <1>10, <1>11, <1>12, <1>13 DEF Next

(* GateGood is the inductive invariant.                                    *)
LEMMA GateAlwaysGood == Spec => []GateGood(gate)
<1>1. GateGood(gate) /\ [Next]_gate => GateGood(gate)'
  <2> SUFFICES ASSUME GateGood(gate), [Next]_gate PROVE GateGood(gate')
    BY DEF GateGood
  <2>1. CASE Next
    BY <2>1, NextMoves DEF Moves
  <2>2. CASE UNCHANGED gate
    BY <2>2
  <2> QED
    BY <2>1, <2>2
<1> QED
  BY <1>1, InitGood, PTL DEF Spec

(* Whatever evidence arrives in whatever order, every record keeps a phase *)
(* its kind can be in (next_phase never raises), and an operation known to *)
(* run or to await delivery names the output that will retire it.          *)
THEOREM GateConsistent == Spec => [](GateOK /\ PhasesValid /\ KnownHasOutput)
<1>1. GateGood(gate) => GateOK /\ PhasesValid /\ KnownHasOutput
  BY DEF GateGood, Good, GateOK, PhasesValid, KnownHasOutput, Phase
<1> QED
  BY <1>1, GateAlwaysGood, PTL

(* A settled identity is never owned again: no late reply, restored record *)
(* or repeated claim brings it back.                                       *)
THEOREM RetirementIsIrreversible == Spec => RetirementIrreversible
<1>1. GateGood(gate) /\ [Next]_gate =>
        [\A o \in Ops : Retired(gate, o) => Retired(gate, o)']_gate
  BY NextMoves DEF Moves, Later, Retired
<1> QED
  BY <1>1, GateAlwaysGood, PTL DEF Spec, RetirementIrreversible

(* Once an approval was signed nothing makes the operation look unsigned,  *)
(* and cancellable as not started, again.                                  *)
THEOREM SigningIsIrreversible == Spec => SigningIrreversible
<1>1. GateGood(gate) /\ [Next]_gate =>
        [\A o \in Ops :
            (Owned(gate, o) /\ gate.operations[o].kind \in Approved /\ Phase(gate, o) \notin Unsigned)
                => Phase(gate, o)' \notin Unsigned]_gate
  BY NextMoves DEF Moves, Later, Owned, OwnedItem, Phase
<1> QED
  BY <1>1, GateAlwaysGood, PTL DEF Spec, SigningIrreversible

(* An owned operation never changes its worker, its session or its output. *)
THEOREM BindingIsStable == Spec => BindingStable
<1>1. GateGood(gate) /\ [Next]_gate =>
        [\A o \in Ops : (Owned(gate, o) /\ Owned(gate, o)') =>
            LET old == gate.operations[o] new == gate'.operations[o] IN
            /\ old.epoch # NoEpoch => new.epoch = old.epoch
            /\ old.session # NoSession => new.session = old.session
            /\ old.output # NoOutput => new.output = old.output]_gate
  BY NextMoves DEF Moves, Later, Owned, OwnedItem
<1> QED
  BY <1>1, GateAlwaysGood, PTL DEF Spec, BindingStable
===============================================================================
