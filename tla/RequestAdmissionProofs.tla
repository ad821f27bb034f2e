------------------------ MODULE RequestAdmissionProofs ------------------------
(***************************************************************************)
(* For every set of callers, capacity and queue limit: the permit counter  *)
(* is exact and bounded, no permit idles while a caller is parked, and no  *)
(* caller waits on a future that nobody will complete.                     *)
(*                                                                         *)
(* The inductive invariant is the conjunction of the four invariants TLC   *)
(* checks.  They need each other: the counter is exact because a grant     *)
(* goes to a caller whose future is pending, hence waiting and without a   *)
(* permit (WaitersReachable); and a caller joins the deque only behind a   *)
(* full set of permits or behind others (NoIdlePermit).                    *)
(***************************************************************************)
EXTENDS RequestAdmission, FiniteSetTheorems, SequenceTheorems, TLAPS

IInv == TypeOK /\ PermitsAccounted /\ NoIdlePermit /\ WaitersReachable

(* The permits in circulation are a finite set, and the counter a natural. *)
LEMMA PermitsFinite == IsFiniteSet(Permits) /\ Cardinality(Permits) \in Nat
<1>1. Permits \subseteq Callers
  BY DEF Permits
<1>2. IsFiniteSet(Permits)
  BY <1>1, FS_Subset, CallersAssumption
<1> QED
  BY <1>2, FS_CardinalityType

(* One caller gains a permit: the count grows by one.                      *)
LEMMA Gain ==
  ASSUME NEW c \in Callers, c \notin Permits, Permits' = Permits \cup {c}
  PROVE  Cardinality(Permits)' = Cardinality(Permits) + 1
  BY PermitsFinite, FS_AddElement

(* One caller loses its permit: the count shrinks by one and was positive. *)
LEMMA Lose ==
  ASSUME NEW c \in Permits, Permits' = Permits \ {c}
  PROVE  /\ Cardinality(Permits)' = Cardinality(Permits) - 1
         /\ Cardinality(Permits) > 0
<1>1. Cardinality(Permits') = Cardinality(Permits) - 1
  BY PermitsFinite, FS_RemoveElement
<1>2. Cardinality(Permits) # 0
  BY PermitsFinite, FS_EmptySet
<1> QED
  BY <1>1, <1>2, PermitsFinite

(* A permit moves from one caller to another: the count is unchanged.      *)
LEMMA Move ==
  ASSUME NEW c \in Permits, NEW d \in Callers, d \notin Permits,
         Permits' = (Permits \ {c}) \cup {d}
  PROVE  Cardinality(Permits)' = Cardinality(Permits)
<1>1. /\ IsFiniteSet(Permits \ {c})
      /\ Cardinality(Permits \ {c}) = Cardinality(Permits) - 1
  BY PermitsFinite, FS_RemoveElement
<1>2. Cardinality((Permits \ {c}) \cup {d}) = Cardinality(Permits \ {c}) + 1
  BY <1>1, FS_AddElement
<1> QED
  BY <1>1, <1>2, PermitsFinite

(* A new admission (__init__) has no permits and no waiters.               *)
LEMMA InitInv == Init => IInv
<1> SUFFICES ASSUME Init PROVE IInv
  OBVIOUS
<1>1. Permits = {}
  BY DEF Init, Permits
<1>2. PermitsAccounted
  BY <1>1, FS_EmptySet, CapacityAssumption DEF Init, PermitsAccounted
<1>3. TypeOK
  <2>1. closed \in BOOLEAN /\ interrupted \in [Callers -> BOOLEAN]
    BY Zenon DEF Init
  <2> QED
    BY <2>1 DEF Init, TypeOK, Future
<1>4. NoIdlePermit
  BY DEF Init, NoIdlePermit
<1>5. WaitersReachable
  BY DEF Init, WaitersReachable
<1> QED
  BY <1>2, <1>3, <1>4, <1>5 DEF IInv

(* release, by a caller that holds a permit and leaves f as the futures:   *)
(* the caller ends idle, and f differs from future only in the caller's.   *)
LEMMA ReleaseInv ==
  ASSUME IInv, NEW c \in Callers, c \in Permits,
         pc' = [pc EXCEPT ![c] = "idle"], closed' = closed,
         interrupted' \in [Callers -> BOOLEAN],
         release(Clear(c))
  PROVE  IInv'
<1> USE DEF IInv, TypeOK, Future, Clear
<1>1. /\ \A d \in Callers : d \in Permits <=> pc[d] = "holding" \/ future[d] = "granted"
      /\ \A d \in Callers : (d \in Permits)' <=> pc'[d] = "holding" \/ future'[d] = "granted"
      /\ Permits \subseteq Callers /\ Permits' \subseteq Callers
  BY DEF Permits
<1>2. CASE HandOver(Clear(c))
  <2>1. PICK i \in 1..Len(waiters) :
           /\ Pending(Clear(c), i)
           /\ \A j \in 1..(i - 1) : ~Pending(Clear(c), j)
           /\ waiters' = SubSeq(waiters, i + 1, Len(waiters))
           /\ future' = [Clear(c) EXCEPT ![waiters[i]] = "granted"]
    BY <1>2 DEF HandOver
  <2> DEFINE w == waiters[i]
  <2>2. w \in Callers /\ w # c /\ future[w] = "pending" /\ pc[w] = "waiting"
    BY <2>1 DEF Pending, WaitersReachable
  <2>3. w \notin Permits /\ Permits' = (Permits \ {c}) \cup {w}
    BY <1>1, <2>1, <2>2
  <2>4. PermitsAccounted'
    BY <1>2, <2>2, <2>3, Move DEF PermitsAccounted, HandOver
  <2>5. TypeOK'
    BY <1>2, <2>1, <2>2 DEF HandOver
  <2>6. NoIdlePermit'
    BY <1>2, <2>1 DEF NoIdlePermit, HandOver
  <2>7. WaitersReachable'
    <3> SUFFICES ASSUME NEW d \in Callers
                 PROVE  /\ pc'[d] = "waiting" <=> future'[d] # "none"
                        /\ future'[d] = "pending" =>
                             ~closed' /\ \E k \in 1..Len(waiters') : waiters'[k] = d
      BY DEF WaitersReachable
    <3>1. pc'[d] = "waiting" <=> future'[d] # "none"
      BY <2>1, <2>2 DEF WaitersReachable
    <3>2. ASSUME future'[d] = "pending"
          PROVE  ~closed' /\ \E k \in 1..Len(waiters') : waiters'[k] = d
      <4>1. d # w /\ d # c /\ future[d] = "pending"
        BY <3>2, <2>1, <2>2
      <4>2. PICK k \in 1..Len(waiters) : waiters[k] = d
        BY <4>1 DEF WaitersReachable
      <4>3. k > i
        BY <4>1, <4>2, <2>1 DEF Pending
      <4>4. k - i \in 1..Len(waiters') /\ waiters'[k - i] = d
        BY <4>2, <4>3, <2>1
      <4> QED
        BY <4>4, <1>2 DEF HandOver
    <3> QED
      BY <3>1, <3>2
  <2> QED
    BY <2>4, <2>5, <2>6, <2>7
<1>3. CASE GiveBack(Clear(c))
  <2>1. Permits' = Permits \ {c}
    BY <1>1, <1>3 DEF GiveBack
  <2>2. /\ Cardinality(Permits)' = Cardinality(Permits) - 1
        /\ Cardinality(Permits) > 0
    BY <2>1, Lose
  <2>3. PermitsAccounted' /\ active > 0
    BY <1>3, <2>2, CapacityAssumption DEF PermitsAccounted, GiveBack
  <2>4. TypeOK'
    BY <1>3, <2>3 DEF GiveBack
  <2>5. NoIdlePermit'
    BY <1>3 DEF NoIdlePermit, GiveBack
  <2>6. WaitersReachable'
    BY <1>3 DEF WaitersReachable, GiveBack, Pending
  <2> QED
    BY <2>3, <2>4, <2>5, <2>6
<1> QED
  BY <1>2, <1>3 DEF release

(* acquire, its interruption, release and close preserve the invariant.    *)
LEMMA NextInv == IInv /\ [Next]_vars => IInv'
<1> SUFFICES ASSUME IInv, [Next]_vars PROVE IInv'
  OBVIOUS
<1> USE DEF IInv, TypeOK, Future
<1>1. /\ \A d : d \in Permits <=> d \in Callers /\ (pc[d] = "holding" \/ future[d] = "granted")
      /\ \A d : d \in Permits' <=> d \in Callers /\ (pc'[d] = "holding" \/ future'[d] = "granted")
  BY DEF Permits
<1>2. ASSUME Permits' = Permits, active' = active PROVE PermitsAccounted'
  BY <1>2 DEF PermitsAccounted
<1>3. ASSUME NEW c \in Callers, AcquireFree(c) PROVE IInv'
  <2>1. future[c] = "none"
    BY <1>3 DEF AcquireFree, WaitersReachable
  <2>2. c \notin Permits /\ Permits' = Permits \cup {c}
    BY <1>1, <1>3, <2>1 DEF AcquireFree
  <2>3. PermitsAccounted'
    <3>1. Cardinality(Permits)' = Cardinality(Permits) + 1
      BY <2>2, Gain
    <3> QED
      BY <1>3, <3>1, CapacityAssumption DEF PermitsAccounted, AcquireFree
  <2>4. TypeOK' /\ NoIdlePermit' /\ WaitersReachable'
    BY <1>3, <2>1 DEF AcquireFree, NoIdlePermit, WaitersReachable
  <2> QED
    BY <2>3, <2>4
<1>4. ASSUME NEW c \in Callers, AcquireWait(c) PROVE IInv'
  <2>1. PermitsAccounted'
    BY <1>1, <1>2, <1>4, Zenon DEF AcquireWait, WaitersReachable
  <2>2. TypeOK'
    BY <1>4 DEF AcquireWait
  <2>3. NoIdlePermit'
    BY <1>4, CapacityAssumption DEF AcquireWait, NoIdlePermit, PermitsAccounted
  <2>4. WaitersReachable'
    <3>1. \A i \in 1..Len(waiters) : waiters'[i] = waiters[i]
      BY <1>4 DEF AcquireWait
    <3>2. Len(waiters') = Len(waiters) + 1 /\ waiters'[Len(waiters) + 1] = c
      BY <1>4 DEF AcquireWait
    <3> QED
      BY <1>4, <3>1, <3>2 DEF AcquireWait, WaitersReachable
  <2> QED
    BY <2>1, <2>2, <2>3, <2>4
<1>5. ASSUME NEW c \in Callers, Interrupt(c) PROVE IInv'
  <2>1. PermitsAccounted'
    BY <1>1, <1>2, <1>5 DEF Interrupt
  <2>2. TypeOK' /\ NoIdlePermit' /\ WaitersReachable'
    BY <1>5 DEF Interrupt, NoIdlePermit, WaitersReachable
  <2> QED
    BY <2>1, <2>2
<1>6. ASSUME NEW c \in Callers, ResumeGranted(c) PROVE IInv'
  <2>1. PermitsAccounted'
    BY <1>1, <1>2, <1>6 DEF ResumeGranted, Clear
  <2>2. TypeOK' /\ NoIdlePermit' /\ WaitersReachable'
    BY <1>6 DEF ResumeGranted, Clear, NoIdlePermit, WaitersReachable
  <2> QED
    BY <2>1, <2>2
<1>7. ASSUME NEW c \in Callers, ResumeReturning(c) PROVE IInv'
  <2>1. c \in Permits /\ interrupted' \in [Callers -> BOOLEAN]
    BY <1>1, <1>7 DEF ResumeReturning
  <2> QED
    BY <1>7, <2>1, ReleaseInv DEF ResumeReturning
<1>8. ASSUME NEW c \in Callers, ResumeRaising(c) PROVE IInv'
  <2>1. PermitsAccounted'
    BY <1>1, <1>2, <1>8 DEF ResumeRaising, Clear, WaitersReachable
  <2>2. CASE UNCHANGED waiters
    BY <1>8, <2>1, <2>2 DEF ResumeRaising, Clear, NoIdlePermit, WaitersReachable
  <2>3. ASSUME NEW i \in 1..Len(waiters), waiters[i] = c,
               waiters' = SubSeq(waiters, 1, i - 1) \o SubSeq(waiters, i + 1, Len(waiters))
        PROVE  IInv'
    <3>1. /\ waiters' \in Seq(Callers)
          /\ Len(waiters') = Len(waiters) - 1
          /\ \A k \in 1..(i - 1) : waiters'[k] = waiters[k]
          /\ \A k \in (i + 1)..Len(waiters) : waiters'[k - 1] = waiters[k]
      <4> DEFINE a == SubSeq(waiters, 1, i - 1)
                 b == SubSeq(waiters, i + 1, Len(waiters))
      <4>1. /\ a \in Seq(Callers) /\ Len(a) = i - 1
            /\ \A k \in 1..(i - 1) : a[k] = waiters[k]
        OBVIOUS
      <4>2. /\ b \in Seq(Callers) /\ Len(b) = Len(waiters) - i
            /\ \A k \in 1..(Len(waiters) - i) : b[k] = waiters[k + i]
        OBVIOUS
      <4> HIDE DEF a, b
      <4>3. waiters' = a \o b
        BY <2>3 DEF a, b
      <4>4. /\ a \o b \in Seq(Callers)
            /\ Len(a \o b) = Len(a) + Len(b)
            /\ \A k \in 1..(Len(a) + Len(b)) :
                  (a \o b)[k] = IF k <= Len(a) THEN a[k] ELSE b[k - Len(a)]
        BY <4>1, <4>2, ConcatProperties
      <4>5. waiters' \in Seq(Callers) /\ Len(waiters') = Len(waiters) - 1
        BY <4>1, <4>2, <4>3, <4>4
      <4>6. ASSUME NEW k \in 1..(i - 1) PROVE waiters'[k] = waiters[k]
        BY <4>1, <4>2, <4>3, <4>4
      <4>7. ASSUME NEW k \in (i + 1)..Len(waiters) PROVE waiters'[k - 1] = waiters[k]
        <5>1. /\ k - 1 \in 1..(Len(a) + Len(b)) /\ ~(k - 1 <= Len(a))
              /\ k - 1 - Len(a) \in 1..(Len(waiters) - i) /\ (k - 1 - Len(a)) + i = k
          BY <4>1, <4>2
        <5> QED
          BY <4>2, <4>3, <4>4, <5>1
      <4> QED
        BY <4>5, <4>6, <4>7
    <3>2. TypeOK' /\ NoIdlePermit'
      <4>1. waiters # << >>
        OBVIOUS
      <4> QED
        BY <1>8, <3>1, <4>1 DEF ResumeRaising, Clear, NoIdlePermit
    <3>3. ASSUME NEW d \in Callers, future'[d] = "pending"
          PROVE  ~closed' /\ \E k \in 1..Len(waiters') : waiters'[k] = d
      <4>1. d # c /\ future[d] = "pending" /\ ~closed'
        BY <1>8, <3>3 DEF ResumeRaising, Clear, WaitersReachable
      <4>2. PICK k \in 1..Len(waiters) : waiters[k] = d
        BY <4>1 DEF WaitersReachable
      <4>3. k # i
        BY <2>3, <4>1, <4>2
      <4> QED
        BY <3>1, <4>1, <4>2, <4>3
    <3>4. WaitersReachable'
      BY <1>8, <3>3 DEF ResumeRaising, Clear, WaitersReachable
    <3> QED
      BY <2>1, <3>2, <3>4
  <2> QED
    BY <1>8, <2>2, <2>3 DEF ResumeRaising, Unpark
<1>9. ASSUME NEW c \in Callers, permit(c) PROVE IInv'
  <2>1. c \in Permits /\ future[c] = "none" /\ interrupted' \in [Callers -> BOOLEAN]
    BY <1>1, <1>9 DEF permit, WaitersReachable
  <2>2. Clear(c) = future
    BY <2>1 DEF Clear
  <2> QED
    BY <1>9, <2>1, <2>2, ReleaseInv DEF permit
<1>10. CASE close
  <2>1. PermitsAccounted'
    BY <1>1, <1>2, <1>10 DEF close
  <2>2. TypeOK' /\ NoIdlePermit' /\ WaitersReachable'
    BY <1>10 DEF close, NoIdlePermit, WaitersReachable
  <2> QED
    BY <2>1, <2>2
<1>11. CASE UNCHANGED vars
  <2>1. Permits' = Permits
    BY <1>11 DEF vars, Permits
  <2> QED
    BY <1>2, <1>11, <2>1 DEF vars, NoIdlePermit, WaitersReachable
<1>12. ASSUME NEW c \in Callers, AcquireClosed(c) \/ AcquireFull(c) PROVE IInv'
  BY <1>11, <1>12 DEF AcquireClosed, AcquireFull
<1> QED
  BY <1>3, <1>4, <1>5, <1>6, <1>7, <1>8, <1>9, <1>10, <1>11, <1>12 DEF Next

(* acquire/release/close: the permit counter equals the permits in         *)
(* circulation and never exceeds the capacity, in every behaviour.         *)
THEOREM PermitsAccountedAlways == Spec => []PermitsAccounted
<1>1. IInv => PermitsAccounted
  BY DEF IInv
<1> QED
  BY InitInv, NextInv, <1>1, PTL DEF Spec

(* release: nobody is parked on an open admission that has a free permit,  *)
(* and every pending future is one that a release or close will complete.  *)
THEOREM NoWaiterIsLost == Spec => [](TypeOK /\ NoWaiterLost)
<1>1. IInv => TypeOK /\ NoWaiterLost
  BY DEF IInv, NoWaiterLost
<1> QED
  BY InitInv, NextInv, <1>1, PTL DEF Spec
===============================================================================
