------------------------ MODULE ControlSocket_proofs ------------------------
(***************************************************************************)
(* Proofs about the event loop and the control socket on it, for every set *)
(* of repeating timers, of clients, of delays and of speeds.               *)
(***************************************************************************)
EXTENDS ControlSocket, FiniteSetTheorems, WellFoundedInduction, TLAPS

(* Every set of natural numbers that is not empty has a least element.      *)
LEMMA LeastElement ==
    ASSUME NEW T \in SUBSET Nat, T # {}
    PROVE  \E x \in T : \A y \in T : x <= y
<1>1. PICK x \in T : \A y \in T : ~ (<<y, x>> \in OpToRel(<, Nat))
  BY WFMin, NatLessThanWellFounded, Zenon
<1>2. ASSUME NEW y \in T PROVE ~ (y < x)
  BY <1>1, Zenon DEF OpToRel
<1>3. QED
  BY <1>2

LEMMA TimesMonotone ==
    ASSUME NEW k \in Nat, NEW a \in Nat, NEW b \in Nat, a <= b
    PROVE  a * k <= b * k
OBVIOUS

(* A queue that is not empty has an event to run next, the earliest and at  *)
(* one time the oldest: the heap's order is total.                          *)
LEMMA EarliestFirst ==
    ASSUME NEW Q \in SUBSET Events, Q # {}
    PROVE  Earliest(Q) \in Q /\ \A f \in Q : Earlier(Earliest(Q), f)
<1> DEFINE times == {e.when : e \in Q}
<1>1. times \in SUBSET Nat /\ times # {}
  BY DEF Events
<1>2. PICK t \in times : \A u \in times : t <= u
  BY <1>1, LeastElement
<1> DEFINE ages == {e.seq : e \in {f \in Q : f.when = t}}
<1>3. ages \in SUBSET Nat /\ ages # {}
  BY <1>2 DEF Events
<1>4. PICK n \in ages : \A m \in ages : n <= m
  BY <1>3, LeastElement
<1>5. PICK e \in Q : e.when = t /\ e.seq = n
  BY <1>4
<1>6. \A f \in Q : f.when \in Nat /\ f.seq \in Nat
  BY DEF Events
<1>7. \A f \in Q : Earlier(e, f)
  <2> SUFFICES ASSUME NEW f \in Q PROVE Earlier(e, f)
    OBVIOUS
  <2>1. f.when \in times /\ t <= f.when
    BY <1>2
  <2>2. CASE f.when = t
    <3>1. f.seq \in ages
      BY <2>2
    <3>2. n <= f.seq
      BY <1>4, <3>1
    <3>3. QED
      BY <1>5, <2>2, <3>2 DEF Earlier
  <2>3. CASE f.when # t
    BY <1>5, <1>6, <2>1, <2>3 DEF Earlier
  <2>4. QED
    BY <2>2, <2>3
<1>8. QED
  BY <1>5, <1>7 DEF Earliest

-----------------------------------------------------------------------------
(* What holds of a queue Q, the series C cancelled and the number n of      *)
(* events ever scheduled, at time t: no event lies in the past, each has    *)
(* an age of its own, and a series has one live event, or none once it was  *)
(* cancelled or while the event in X is being run.                          *)
QueueSound(Q, C, n, t, X) ==
    /\ Q \in SUBSET Events
    /\ C \in SUBSET Series
    /\ n \in Nat
    /\ \A e \in Q : e.seq < n /\ e.when >= t
    /\ \A e, f \in Q : e.seq = f.seq => e = f
    /\ \A s \in Series : s \in C \union X => LiveOf(Q, s) = {}
    /\ \A s \in Series : s \notin C \union X => \E e \in Q : LiveOf(Q, s) = {e}

(* A new event keeps a queue sound when it is a single shot, or the one     *)
(* event of the series that was just run.                                   *)
LEMMA ScheduleSound ==
    ASSUME NEW Q, NEW C, NEW n, NEW t \in Nat, NEW X, QueueSound(Q, C, n, t, X),
           NEW delay \in Int
    PROVE  /\ QueueSound(Q \union {Event(After(t, delay), n, Once)}, C, n + 1, t, X)
           /\ \A s \in Series : X = {s} /\ s \notin C
                  => QueueSound(Q \union {Event(After(t, delay), n, s)}, C, n + 1, t, {})
<1>1. After(t, delay) \in Nat /\ After(t, delay) >= t
  BY DEF After, Later
<1>2. n \in Nat /\ (\A e \in Q : e.seq \in Nat /\ e.seq < n /\ e.when >= t) /\ Q \in SUBSET Events
  BY DEF QueueSound, Events
<1>3. ASSUME NEW of \in Series \union {Once}
      PROVE  LET new == Event(After(t, delay), n, of)
                 all == Q \union {new}
             IN  /\ all \in SUBSET Events
                 /\ n + 1 \in Nat
                 /\ \A e \in all : e.seq < n + 1 /\ e.when >= t
                 /\ \A e, f \in all : e.seq = f.seq => e = f
                 /\ LiveOf(all, of) = LiveOf(Q, of) \union {new}
                 /\ \A s \in Series : s # of => LiveOf(all, s) = LiveOf(Q, s)
  <2> DEFINE new == Event(After(t, delay), n, of)
             all == Q \union {new}
  <2>1. new \in Events /\ new.seq = n /\ new.when >= t /\ new.of = of /\ new.live
    BY <1>1, <1>2 DEF Event, Events
  <2> HIDE DEF new
  <2>2. all \in SUBSET Events /\ n + 1 \in Nat
    BY <1>2, <2>1
  <2>3. \A e \in all : e.seq < n + 1 /\ e.when >= t
    BY <1>2, <2>1
  <2>4. \A e, f \in all : e.seq = f.seq => e = f
    BY <1>2, <2>1 DEF QueueSound
  <2>5. LiveOf(all, of) = LiveOf(Q, of) \union {new}
    BY <2>1 DEF LiveOf
  <2>6. \A s \in Series : s # of => LiveOf(all, s) = LiveOf(Q, s)
    BY <2>1 DEF LiveOf
  <2>7. QED
    BY <2>2, <2>3, <2>4, <2>5, <2>6 DEF new
<1>4. QueueSound(Q \union {Event(After(t, delay), n, Once)}, C, n + 1, t, X)
  <2> DEFINE all == Q \union {Event(After(t, delay), n, Once)}
  <2>1. /\ all \in SUBSET Events
        /\ n + 1 \in Nat
        /\ \A e \in all : e.seq < n + 1 /\ e.when >= t
        /\ \A e, f \in all : e.seq = f.seq => e = f
        /\ \A s \in Series : s # Once => LiveOf(all, s) = LiveOf(Q, s)
    BY <1>3
  <2>2. Q \subseteq all
    OBVIOUS
  <2> HIDE DEF all
  <2>3. \A s \in Series : LiveOf(all, s) = LiveOf(Q, s)
    BY <2>1, SimAssumption DEF Once
  <2>4. \A s \in Series : s \in C \union X => LiveOf(all, s) = {}
    BY <2>3 DEF QueueSound
  <2>5. \A s \in Series : s \notin C \union X => \E e \in all : LiveOf(all, s) = {e}
    BY <2>2, <2>3 DEF QueueSound
  <2>6. C \in SUBSET Series
    BY DEF QueueSound
  <2>7. QED
    BY <2>1, <2>4, <2>5, <2>6 DEF QueueSound, all
<1>5. ASSUME NEW s \in Series, X = {s}, s \notin C
      PROVE  QueueSound(Q \union {Event(After(t, delay), n, s)}, C, n + 1, t, {})
  <2> DEFINE new == Event(After(t, delay), n, s)
             all == Q \union {new}
  <2>1. /\ all \in SUBSET Events
        /\ n + 1 \in Nat
        /\ \A e \in all : e.seq < n + 1 /\ e.when >= t
        /\ \A e, f \in all : e.seq = f.seq => e = f
        /\ LiveOf(all, s) = LiveOf(Q, s) \union {new}
        /\ \A u \in Series : u # s => LiveOf(all, u) = LiveOf(Q, u)
    BY <1>3
  <2>2. Q \subseteq all /\ new \in all
    OBVIOUS
  <2> HIDE DEF all, new
  <2>3. LiveOf(Q, s) = {}
    BY <1>5 DEF QueueSound
  <2>4. LiveOf(all, s) = {new}
    BY <2>1, <2>3
  <2>5. QED
    BY <1>5, <2>1, <2>2, <2>4 DEF QueueSound, all, new
<1>6. QED
  BY <1>4, <1>5

(* Cancelling a single shot, or the live event of a series that is recorded *)
(* as cancelled, keeps a queue sound; nothing leaves the queue.             *)
LEMMA CancelSound ==
    ASSUME NEW Q, NEW C, NEW n, NEW t \in Nat, NEW X, QueueSound(Q, C, n, t, X),
           NEW which \in SUBSET Q, NEW off \in SUBSET Series,
           \A e \in which : e.of = Once \/ e.of \in off,
           \A s \in off : LiveOf(Q, s) \subseteq which
    PROVE  QueueSound(Cancel(Q, which), C \union off, n, t, X)
<1> DEFINE mark == [e \in Q |-> IF e \in which THEN [e EXCEPT !.live = FALSE] ELSE e]
           all == Cancel(Q, which)
<1>1. Q \in SUBSET Events /\ (\A e \in Q : e.seq < n /\ e.when >= t)
      /\ (\A e, f \in Q : e.seq = f.seq => e = f) /\ C \in SUBSET Series /\ n \in Nat
  BY DEF QueueSound
<1>2. all = {mark[e] : e \in Q}
  BY DEF Cancel
<1>3. \A e \in Q :
        /\ mark[e] \in Events
        /\ mark[e].seq = e.seq /\ mark[e].when = e.when /\ mark[e].of = e.of
        /\ e \notin which => mark[e] = e
        /\ e \in which => mark[e].live = FALSE
  BY <1>1 DEF Events
<1> HIDE DEF mark, all
<1>4. all \in SUBSET Events /\ \A e \in all : e.seq < n /\ e.when >= t
  BY <1>1, <1>2, <1>3
<1>5. \A e, f \in all : e.seq = f.seq => e = f
  BY <1>1, <1>2, <1>3
<1>6. ASSUME NEW s \in off PROVE LiveOf(all, s) = {}
  BY <1>2, <1>3, <1>6 DEF LiveOf
<1>7. ASSUME NEW s \in Series, s \notin off PROVE LiveOf(all, s) = LiveOf(Q, s)
  <2>1. s # Once
    BY SimAssumption DEF Once
  <2>2. \A e \in Q : e.of = s => e \notin which /\ mark[e] = e
    BY <1>3, <1>7, <2>1
  <2>3. QED
    BY <1>2, <1>3, <2>2 DEF LiveOf
<1>8. ASSUME NEW s \in Series, s \in (C \union off) \union X PROVE LiveOf(all, s) = {}
  BY <1>6, <1>7, <1>8 DEF QueueSound
<1>9. ASSUME NEW s \in Series, s \notin (C \union off) \union X
      PROVE  \E e \in all : LiveOf(all, s) = {e}
  <2>1. PICK e \in Q : LiveOf(Q, s) = {e}
    BY <1>9 DEF QueueSound
  <2>2. LiveOf(all, s) = {e}
    BY <1>7, <1>9, <2>1
  <2>3. e \in all
    BY <2>2 DEF LiveOf
  <2>4. QED
    BY <2>2, <2>3
<1>10. QED
  BY <1>1, <1>4, <1>5, <1>8, <1>9 DEF QueueSound, all

(* Whatever code that runs at a time does to a sound queue, it stays sound, *)
(* and no event is taken out of it.                                         *)
LEMMA EffectSound ==
    ASSUME NEW Q, NEW t \in Nat, NEW X, QueueSound(Q, cancelled, count, t, X),
           NEW effect \in Effects(Q, t)
    PROVE  /\ QueueSound(effect.queue, effect.series, effect.count, t, X)
           /\ \A e \in Q : \E f \in effect.queue : f.seq = e.seq
           /\ effect = [queue |-> effect.queue, series |-> effect.series,
                        count |-> effect.count]
<1>1. CASE effect = [queue |-> Q, series |-> cancelled, count |-> count]
  BY <1>1
<1>2. ASSUME NEW d \in Delays,
             effect = [queue |-> Q \union {Event(After(t, d), count, Once)},
                       series |-> cancelled, count |-> count + 1]
      PROVE  /\ QueueSound(effect.queue, effect.series, effect.count, t, X)
             /\ \A e \in Q : \E f \in effect.queue : f.seq = e.seq
  <2>1. d \in Int
    BY SimAssumption
  <2>2. QED
    BY <1>2, <2>1, ScheduleSound
<1>3. ASSUME NEW which \in SUBSET Q
      PROVE  \A e \in Q : \E f \in Cancel(Q, which) : f.seq = e.seq
  <2> SUFFICES ASSUME NEW e \in Q PROVE \E f \in Cancel(Q, which) : f.seq = e.seq
    OBVIOUS
  <2>1. e \in Events
    BY DEF QueueSound
  <2>2. [e EXCEPT !.live = FALSE].seq = e.seq
    BY <2>1 DEF Events
  <2>3. QED
    BY <2>2 DEF Cancel
<1>4. ASSUME NEW one \in LiveOf(Q, Once),
             effect = [queue |-> Cancel(Q, {one}), series |-> cancelled, count |-> count]
      PROVE  /\ QueueSound(effect.queue, effect.series, effect.count, t, X)
             /\ \A e \in Q : \E f \in effect.queue : f.seq = e.seq
  <2>1. {one} \in SUBSET Q /\ one.of = Once
    BY DEF LiveOf
  <2>2. QueueSound(Cancel(Q, {one}), cancelled \union {}, count, t, X)
    BY <2>1, CancelSound
  <2>3. QED
    BY <1>3, <1>4, <2>1, <2>2
<1>5. ASSUME NEW s \in Series,
             effect = [queue |-> Cancel(Q, LiveOf(Q, s)),
                       series |-> cancelled \union {s}, count |-> count]
      PROVE  /\ QueueSound(effect.queue, effect.series, effect.count, t, X)
             /\ \A e \in Q : \E f \in effect.queue : f.seq = e.seq
  <2>1. LiveOf(Q, s) \in SUBSET Q /\ \A e \in LiveOf(Q, s) : e.of \in {s}
    BY DEF LiveOf
  <2>2. QueueSound(Cancel(Q, LiveOf(Q, s)), cancelled \union {s}, count, t, X)
    BY <2>1, CancelSound
  <2>3. QED
    BY <1>3, <1>5, <2>1, <2>2
<1>6. \/ effect = [queue |-> Q, series |-> cancelled, count |-> count]
      \/ \E d \in Delays :
            effect = [queue |-> Q \union {Event(After(t, d), count, Once)},
                      series |-> cancelled, count |-> count + 1]
      \/ \E one \in LiveOf(Q, Once) :
            effect = [queue |-> Cancel(Q, {one}), series |-> cancelled, count |-> count]
      \/ \E s \in Series :
            effect = [queue |-> Cancel(Q, LiveOf(Q, s)),
                      series |-> cancelled \union {s}, count |-> count]
  BY DEF Effects
<1>7. effect = [queue |-> effect.queue, series |-> effect.series, count |-> effect.count]
  BY <1>6
<1>8. QED
  BY <1>1, <1>2, <1>4, <1>5, <1>6, <1>7

(* A repeating timer that was run has its next event, unless it was         *)
(* cancelled meanwhile; a single shot has none.                             *)
LEMMA RearmSound ==
    ASSUME NEW done, NEW Q, NEW C, NEW n, NEW t \in Nat, NEW of \in Series \union {Once},
           done = [queue |-> Q, series |-> C, count |-> n],
           QueueSound(Q, C, n, t, {of})
    PROVE  LET next == Rearm(done, of, t)
           IN  QueueSound(next.queue, next.series, next.count, t, {}) /\ Q \subseteq next.queue
<1>1. CASE of \in Series \ C
  <2> DEFINE new == Event(After(t, Interval[of]), n, of)
  <2>1. Rearm(done, of, t) = [queue |-> Q \union {new}, series |-> C, count |-> n + 1]
    BY <1>1 DEF Rearm
  <2>2. Interval[of] \in Int
    BY <1>1, SimAssumption
  <2>3. QueueSound(Q \union {new}, C, n + 1, t, {})
    BY <1>1, <2>2, ScheduleSound
  <2> HIDE DEF new
  <2>4. QED
    BY <2>1, <2>3
<1>2. CASE of \notin Series \ C
  <2>1. Rearm(done, of, t) = done
    BY <1>2 DEF Rearm
  <2>2. \A s \in Series : s \in C \union {of} <=> s \in C \union {}
    BY <1>2, SimAssumption DEF Once
  <2>3. QueueSound(Q, C, n, t, {})
    BY <2>2 DEF QueueSound
  <2>4. QED
    BY <2>1, <2>3
<1>3. QED
  BY <1>1, <1>2

-----------------------------------------------------------------------------
(* The loop's inductive invariant: its types, a sound queue, and a horizon  *)
(* that is not behind it while it runs.                                     *)
LoopInv ==
    /\ LoopTypeOK
    /\ QueueSound(queue, cancelled, count, now, {})
    /\ stage # "out" => horizon = NoHorizon \/ horizon >= now

(* Of a sound queue, the rest when the earliest event was popped is sound   *)
(* at the time of that event, the series it belongs to being run.           *)
LEMMA PopSound ==
    ASSUME LoopInv, queue # {}
    PROVE  LET e == Earliest(queue)
           IN  /\ e \in queue /\ e \in Events /\ e.when >= now
               /\ \A f \in queue : Earlier(e, f)
               /\ e.live => QueueSound(queue \ {e}, cancelled, count, e.when, {e.of})
               /\ ~e.live => QueueSound(queue \ {e}, cancelled, count, now, {})
<1> DEFINE e == Earliest(queue)
           rest == queue \ {e}
<1>1. queue \in SUBSET Events /\ count \in Nat /\ cancelled \in SUBSET Series
      /\ (\A f \in queue : f.seq < count /\ f.when >= now)
      /\ \A f, g \in queue : f.seq = g.seq => f = g
  BY DEF LoopInv, QueueSound
<1>2. e \in queue /\ \A f \in queue : Earlier(e, f)
  BY <1>1, EarliestFirst
<1> HIDE DEF e
<1>3. e \in Events /\ e.when >= now
  BY <1>1, <1>2
<1>4. \A f \in rest : f.when >= e.when
  BY <1>1, <1>2 DEF Earlier, Events
<1>5. \A s \in Series :
          /\ s \in cancelled => LiveOf(queue, s) = {}
          /\ s \notin cancelled => \E f \in queue : LiveOf(queue, s) = {f}
  BY DEF LoopInv, QueueSound
<1>6. ASSUME e.live
      PROVE  QueueSound(rest, cancelled, count, e.when, {e.of})
  <2>1. ASSUME NEW s \in Series, s # e.of PROVE LiveOf(rest, s) = LiveOf(queue, s)
    BY <2>1 DEF LiveOf
  <2>2. ASSUME NEW s \in Series, s = e.of PROVE LiveOf(rest, s) = {}
    <3>1. e \in LiveOf(queue, s)
      BY <1>2, <1>6, <2>2 DEF LiveOf
    <3>2. LiveOf(queue, s) = {e}
      BY <1>5, <3>1
    <3>3. QED
      BY <3>2 DEF LiveOf
  <2>3. \A s \in Series : s \in cancelled \union {e.of} => LiveOf(rest, s) = {}
    BY <1>5, <2>1, <2>2
  <2>4. ASSUME NEW s \in Series, s \notin cancelled \union {e.of}
        PROVE  \E f \in rest : LiveOf(rest, s) = {f}
    <3>1. PICK f \in queue : LiveOf(queue, s) = {f}
      BY <1>5, <2>4
    <3>2. LiveOf(rest, s) = {f}
      BY <2>1, <2>4, <3>1
    <3>3. f \in rest
      BY <3>2 DEF LiveOf
    <3>4. QED
      BY <3>2, <3>3
  <2>5. QED
    BY <1>1, <1>4, <2>3, <2>4 DEF QueueSound
<1>7. ASSUME ~e.live
      PROVE  QueueSound(rest, cancelled, count, now, {})
  <2>1. \A s \in Series : LiveOf(rest, s) = LiveOf(queue, s)
    BY <1>7 DEF LiveOf
  <2>2. \A s \in Series : s \in cancelled \union {} => LiveOf(rest, s) = {}
    BY <1>5, <2>1
  <2>3. ASSUME NEW s \in Series, s \notin cancelled \union {}
        PROVE  \E f \in rest : LiveOf(rest, s) = {f}
    <3>1. PICK f \in queue : LiveOf(rest, s) = {f}
      BY <1>5, <2>1, <2>3
    <3>2. f \in rest
      BY <3>1 DEF LiveOf
    <3>3. QED
      BY <3>1, <3>2
  <2>4. QED
    BY <1>1, <2>2, <2>3 DEF QueueSound
<1>8. QED
  BY <1>2, <1>3, <1>6, <1>7 DEF e

(* Running the earliest event: time goes to it, the queue it leaves is      *)
(* sound, and every other event is still queued, or marked as cancelled.    *)
LEMMA RunEventSound ==
    ASSUME LoopInv, RunEvent
    PROVE  LET e == Earliest(queue)
           IN  /\ e \in queue
               /\ \A f \in queue : Earlier(e, f)
               /\ now' \in Nat /\ now' >= now
               /\ now' = IF e.live THEN e.when ELSE now
               /\ QueueSound(queue', cancelled', count', now', {})
               /\ \A f \in queue \ {e} : \E g \in queue' : g.seq = f.seq
<1> DEFINE e == Earliest(queue)
           rest == queue \ {e}
<1>1. queue # {}
  BY DEF RunEvent
<1>2. /\ e \in queue /\ e \in Events /\ e.when >= now
      /\ \A f \in queue : Earlier(e, f)
      /\ e.live => QueueSound(rest, cancelled, count, e.when, {e.of})
      /\ ~e.live => QueueSound(rest, cancelled, count, now, {})
  BY <1>1, PopSound
<1>3. \/ ~e.live /\ queue' = rest /\ UNCHANGED <<now, count, cancelled>>
      \/ /\ e.live /\ now' = e.when
         /\ \E effect \in Effects(rest, e.when) : TakeEffect(Rearm(effect, e.of, e.when))
  BY DEF RunEvent
<1> HIDE DEF e
<1>4. e.when \in Nat /\ e.of \in Series \union {Once} /\ now \in Nat
  BY <1>2 DEF Events, LoopInv, LoopTypeOK
<1>5. CASE ~e.live /\ queue' = rest /\ UNCHANGED <<now, count, cancelled>>
  BY <1>2, <1>4, <1>5 DEF e
<1>6. ASSUME e.live, now' = e.when,
             NEW effect \in Effects(rest, e.when), TakeEffect(Rearm(effect, e.of, e.when))
      PROVE  /\ QueueSound(queue', cancelled', count', now', {})
             /\ \A f \in rest : \E g \in queue' : g.seq = f.seq
  <2>1. /\ QueueSound(effect.queue, effect.series, effect.count, e.when, {e.of})
        /\ \A f \in rest : \E g \in effect.queue : g.seq = f.seq
        /\ effect = [queue |-> effect.queue, series |-> effect.series,
                     count |-> effect.count]
    BY <1>2, <1>4, <1>6, EffectSound
  <2> DEFINE next == Rearm(effect, e.of, e.when)
  <2>2. QueueSound(next.queue, next.series, next.count, e.when, {})
        /\ effect.queue \subseteq next.queue
    BY <1>4, <2>1, RearmSound
  <2>3. queue' = next.queue /\ cancelled' = next.series /\ count' = next.count
    BY <1>6 DEF TakeEffect
  <2> HIDE DEF next
  <2>4. QED
    BY <1>6, <2>1, <2>2, <2>3
<1>7. QED
  BY <1>2, <1>3, <1>4, <1>5, <1>6 DEF e

-----------------------------------------------------------------------------
LEMMA PacedType ==
    ASSUME LoopTypeOK, NEW t \in Nat
    PROVE  /\ Paced(t) \in Nat /\ Paced(t) >= wall
           /\ stretch # Unpaced => Paced(t) >= wallStart + t * stretch
<1>1. stretch \in Nat /\ wall \in Nat /\ wallStart \in Nat
  BY SimAssumption DEF LoopTypeOK
<1>2. t * stretch \in Nat
  BY <1>1
<1>3. QED
  BY <1>1, <1>2 DEF Paced, Later

LEMMA QueueLater ==
    ASSUME NEW Q, NEW C, NEW n, NEW t, NEW u, NEW X, QueueSound(Q, C, n, t, X),
           \A e \in Q : e.when >= u
    PROVE  QueueSound(Q, C, n, u, X)
BY DEF QueueSound

(* Every iteration of the loop keeps its invariant, and time does not go    *)
(* back.                                                                    *)
LEMMA LoopInductive == LoopInv /\ Loop => LoopInv' /\ now' >= now
<1> SUFFICES ASSUME LoopInv, Loop PROVE LoopInv' /\ now' >= now
  OBVIOUS
<1>1. /\ now \in Nat /\ wall \in Nat /\ wallStart \in Nat /\ nextPoll \in Nat
      /\ stretch \in Nat /\ stretch \in Stretches
      /\ horizon \in Nat \union {NoHorizon}
      /\ stopped \in BOOLEAN /\ stage \in Stages
      /\ queue \in SUBSET Events
      /\ \A e \in queue : e.when \in Nat /\ e.when >= now
      /\ QueueSound(queue, cancelled, count, now, {})
      /\ IdleStep \in Nat
      /\ horizon # NoHorizon /\ stage # "out" => horizon >= now
  BY SimAssumption DEF LoopInv, LoopTypeOK, QueueSound, Events
<1>2. LoopTypeOK
  BY DEF LoopInv
<1>3. CASE LoopHead
  BY <1>1, <1>2, <1>3 DEF LoopHead, LoopInv, LoopTypeOK, QueueSound, Stages, paceVars, queueVars
<1>4. CASE Idle
  <2>1. queue = {} /\ horizon = NoHorizon /\ UNCHANGED <<queueVars, nextPoll, paceVars, stopped>>
    BY <1>4 DEF Idle
  <2>2. now' \in Nat /\ now' >= now /\ wall' \in Nat /\ stage' \in Stages
    BY <1>1, <1>4 DEF Idle, Stages
  <2>3. QueueSound(queue, cancelled, count, now', {})
    BY <1>1, <2>1, QueueLater
  <2>4. LoopTypeOK'
    BY <1>2, <2>1, <2>2 DEF LoopTypeOK, queueVars, paceVars
  <2>5. QED
    BY <2>1, <2>2, <2>3, <2>4 DEF LoopInv, QueueSound, queueVars, paceVars
<1>5. CASE ReachHorizon
  <2>1. /\ horizon \in Nat /\ horizon >= now /\ now' = horizon /\ stage' = "out"
        /\ \A e \in queue : e.when > horizon
        /\ UNCHANGED <<queueVars, nextPoll, paceVars, wall, stopped>>
    BY <1>1, <1>5 DEF ReachHorizon, PastHorizon
  <2>2. QueueSound(queue, cancelled, count, now', {})
    BY <1>1, <2>1, QueueLater
  <2>3. LoopTypeOK'
    BY <1>2, <2>1 DEF LoopTypeOK, queueVars, paceVars, Stages
  <2>4. QED
    BY <1>1, <2>1, <2>2, <2>3 DEF LoopInv, QueueSound, queueVars, paceVars
<1>6. CASE GoToPoll
  <2>1. /\ now' = Later(now, nextPoll) /\ wall' = Paced(nextPoll) /\ stage' = "head"
        /\ \A e \in queue : e.when > nextPoll
        /\ horizon = NoHorizon \/ \E e \in queue : ~ (e.when > horizon)
        /\ stage = "step"
        /\ UNCHANGED <<queueVars, nextPoll, paceVars, stopped>>
    BY <1>6 DEF GoToPoll, BeyondPoll, PastHorizon
  <2>2. now' \in Nat /\ now' >= now /\ \A e \in queue : e.when >= now'
    BY <1>1, <2>1 DEF Later
  <2>3. horizon = NoHorizon \/ horizon >= now'
    BY <1>1, <2>1, <2>2
  <2>4. wall' \in Nat
    BY <1>1, <1>2, <2>1, PacedType
  <2>5. QueueSound(queue, cancelled, count, now', {})
    BY <1>1, <2>2, QueueLater
  <2>6. LoopTypeOK'
    BY <1>2, <2>1, <2>2, <2>4 DEF LoopTypeOK, queueVars, paceVars, Stages
  <2>7. QED
    BY <2>1, <2>2, <2>3, <2>5, <2>6 DEF LoopInv, QueueSound, queueVars, paceVars
<1>7. CASE RunEvent
  <2> DEFINE e == Earliest(queue)
  <2>1. /\ e \in queue
        /\ \A f \in queue : Earlier(e, f)
        /\ now' \in Nat /\ now' >= now
        /\ now' = IF e.live THEN e.when ELSE now
        /\ QueueSound(queue', cancelled', count', now', {})
    BY <1>7, RunEventSound
  <2>2. /\ horizon = NoHorizon \/ \E f \in queue : ~ (f.when > horizon)
        /\ stage = "step" /\ stage' = "head"
        /\ UNCHANGED <<nextPoll, paceVars, stopped>>
        /\ wall' = wall \/ wall' = Paced(e.when)
    BY <1>7 DEF RunEvent, PastHorizon
  <2> HIDE DEF e
  <2>3. e.when \in Nat /\ \A f \in queue : f.when >= e.when
    BY <1>1, <2>1 DEF Earlier
  <2>4. horizon = NoHorizon \/ horizon >= now'
    <3>1. CASE ~e.live
      BY <1>1, <2>1, <2>2, <3>1
    <3>2. CASE e.live
      BY <1>1, <2>1, <2>2, <2>3, <3>2
    <3>3. QED
      BY <3>1, <3>2
  <2>5. wall' \in Nat
    BY <1>1, <1>2, <2>2, <2>3, PacedType
  <2>6. queue' \subseteq Events /\ cancelled' \subseteq Series /\ count' \in Nat
    BY <2>1 DEF QueueSound
  <2>7. LoopTypeOK'
    BY <1>2, <2>1, <2>2, <2>5, <2>6 DEF LoopTypeOK, paceVars, Stages
  <2>8. QED
    BY <2>1, <2>2, <2>4, <2>7 DEF LoopInv, QueueSound, paceVars
<1>8. QED
  BY <1>3, <1>4, <1>5, <1>6, <1>7 DEF Loop

(* ... and so does everything else that touches the loop: run(), the poll,  *)
(* a command that pump() executes, a signal and the wall clock.             *)
LEMMA NextLoopInductive == LoopInv /\ [Next]_vars => LoopInv' /\ now' >= now
<1> SUFFICES ASSUME LoopInv, [Next]_vars PROVE LoopInv' /\ now' >= now
  OBVIOUS
<1>1. /\ now \in Nat /\ wall \in Nat /\ nextPoll \in Nat /\ stage \in Stages
      /\ horizon \in Nat \union {NoHorizon}
      /\ QueueSound(queue, cancelled, count, now, {})
      /\ PollInterval \in Nat /\ stretch \in Stretches
      /\ horizon # NoHorizon /\ stage # "out" => horizon >= now
  BY SimAssumption DEF LoopInv, LoopTypeOK
<1>2. LoopTypeOK
  BY DEF LoopInv
<1>3. ASSUME NEW until \in {NoHorizon} \union {now + d : d \in Drains}, Run(until)
      PROVE  LoopInv' /\ now' >= now
  <2>1. until \in Nat \union {NoHorizon} /\ (until = NoHorizon \/ until >= now)
    BY <1>1, SimAssumption
  <2>2. /\ horizon' = until /\ stage' = "head" /\ nextPoll' = 0 /\ wallStart' = wall
        /\ UNCHANGED <<now, queueVars, stretch, wall, stopped>>
    BY <1>3 DEF Run
  <2>3. LoopTypeOK'
    BY <1>2, <2>1, <2>2 DEF LoopTypeOK, Stages, queueVars
  <2>4. QED
    BY <1>1, <2>1, <2>2, <2>3 DEF LoopInv, QueueSound, queueVars
<1>4. CASE Pump
  <2>1. UNCHANGED <<now, stage, nextPoll, horizon, wallStart, wall>> /\ Handle
    BY <1>4 DEF Pump
  <2>2. CASE \E effect \in Effects(queue, now) : TakeEffect(effect) /\ UNCHANGED <<stretch, stopped>>
    <3>1. PICK effect \in Effects(queue, now) : TakeEffect(effect)
      BY <2>2
    <3>2. QueueSound(effect.queue, effect.series, effect.count, now, {})
      BY <1>1, EffectSound
    <3>3. QueueSound(queue', cancelled', count', now', {})
      BY <2>1, <3>1, <3>2 DEF TakeEffect
    <3>4. LoopTypeOK'
      BY <1>2, <2>1, <2>2, <3>3 DEF LoopTypeOK, QueueSound
    <3>5. QED
      BY <1>1, <2>1, <3>3, <3>4 DEF LoopInv, QueueSound
  <2>3. CASE stretch' \in Scales /\ UNCHANGED <<queueVars, stopped>>
    BY <1>1, <1>2, <2>1, <2>3, ControlAssumption DEF LoopInv, LoopTypeOK, QueueSound, queueVars
  <2>4. CASE stopped' = TRUE /\ UNCHANGED <<queueVars, stretch>>
    BY <1>1, <1>2, <2>1, <2>4 DEF LoopInv, LoopTypeOK, QueueSound, queueVars
  <2>5. QED
    BY <2>1, <2>2, <2>3, <2>4 DEF Handle
<1>5. CASE PumpDone
  BY <1>1, <1>2, <1>5 DEF PumpDone, PollDone, LoopInv, LoopTypeOK, QueueSound, Stages,
                          queueVars, paceVars
<1>6. CASE Signal
  BY <1>1, <1>2, <1>6 DEF Signal, LoopInv, LoopTypeOK, QueueSound, queueVars, paceVars
<1>7. CASE Elapse
  BY <1>1, <1>2, <1>7 DEF Elapse, LoopInv, LoopTypeOK, QueueSound, queueVars, paceVars
<1>8. CASE UNCHANGED loopVars
  BY <1>1, <1>2, <1>8 DEF loopVars, LoopInv, LoopTypeOK, QueueSound, queueVars, paceVars
<1>9. CASE Loop
  BY <1>9, LoopInductive
<1>10. QED
  BY <1>3, <1>4, <1>5, <1>6, <1>7, <1>8, <1>9 DEF Next, vars, Send, GetAnswer, GiveUp

LEMMA LoopStarts == ControlInit => LoopInv
<1> SUFFICES ASSUME ControlInit PROVE LoopInv
  OBVIOUS
<1>1. Cardinality(Series) \in Nat
  BY SimAssumption, FS_CardinalityType
<1>2. PICK age \in [Series -> 0 .. Cardinality(Series) - 1] :
        /\ \A s, t \in Series : age[s] = age[t] => s = t
        /\ queue = {Event(0, age[s], s) : s \in Series}
  BY DEF ControlInit, Init
<1> DEFINE first == [s \in Series |-> Event(0, age[s], s)]
<1>3. \A s \in Series :
        /\ first[s] \in Events /\ first[s].seq = age[s] /\ first[s].when = 0
        /\ first[s].of = s /\ first[s].live
        /\ age[s] \in Nat /\ age[s] < Cardinality(Series)
  BY <1>1 DEF Event, Events
<1>4. queue = {first[s] : s \in Series}
  BY <1>2
<1> HIDE DEF first
<1>5. now = 0 /\ count = Cardinality(Series) /\ cancelled = {}
  BY DEF ControlInit, Init
<1>6. \A s \in Series : LiveOf(queue, s) = {first[s]}
  BY <1>3, <1>4 DEF LiveOf
<1>7. /\ queue \in SUBSET Events
      /\ \A e \in queue : e.seq < count /\ e.when >= now
      /\ \A e, f \in queue : e.seq = f.seq => e = f
  <2>1. \A e \in queue : \E s \in Series : e = first[s]
    BY <1>4
  <2>2. queue \in SUBSET Events
    BY <1>3, <2>1
  <2>3. \A e \in queue : e.seq < count /\ e.when >= now
    BY <1>3, <1>5, <2>1
  <2>4. ASSUME NEW e \in queue, NEW f \in queue, e.seq = f.seq PROVE e = f
    <3>1. PICK s, t \in Series : e = first[s] /\ f = first[t]
      BY <2>1
    <3>2. age[s] = age[t]
      BY <1>3, <2>4, <3>1
    <3>3. QED
      BY <1>2, <3>1, <3>2
  <2>5. QED
    BY <2>2, <2>3, <2>4
<1>8. QueueSound(queue, cancelled, count, now, {})
  BY <1>1, <1>4, <1>5, <1>6, <1>7 DEF QueueSound
<1>9. LoopTypeOK /\ stage = "out"
  <2>1. /\ stage = "out" /\ nextPoll = 0 /\ horizon = NoHorizon /\ stretch \in Stretches
        /\ wall = 0 /\ wallStart = 0 /\ stopped = FALSE
    BY DEF ControlInit, Init
  <2>2. QED
    BY <1>1, <1>5, <1>7, <2>1 DEF LoopTypeOK, Stages
<1>10. QED
  BY <1>8, <1>9 DEF LoopInv

THEOREM LoopCorrect == Spec => []LoopInv
BY LoopStarts, NextLoopInductive, PTL DEF Spec

(* Virtual time never goes back, whatever horizons run() is given and       *)
(* whatever delays below zero a callback asks for.                          *)
THEOREM TimeForwardCorrect == Spec => TimeForward
<1>1. LoopInv /\ [Next]_vars => [now' >= now]_loopVars
  BY NextLoopInductive
<1>2. QED
  BY <1>1, LoopCorrect, PTL DEF Spec, TimeForward

-----------------------------------------------------------------------------
(* Only the loop takes an event out of the queue, by running it.            *)
LEMMA OnlyRunEventRemoves ==
    ASSUME LoopInv, [Next]_vars, ~RunEvent
    PROVE  \A e \in queue : \E f \in queue' : f.seq = e.seq
<1>1. CASE UNCHANGED queue
  BY <1>1
<1>2. CASE Pump
  <2>1. CASE \E effect \in Effects(queue, now) : TakeEffect(effect)
    <3>1. PICK effect \in Effects(queue, now) : queue' = effect.queue
      BY <2>1 DEF TakeEffect
    <3>2. now \in Nat /\ QueueSound(queue, cancelled, count, now, {})
      BY DEF LoopInv, LoopTypeOK
    <3>3. QED
      BY <3>1, <3>2, EffectSound
  <2>2. QED
    BY <1>1, <1>2, <2>1 DEF Pump, Handle, queueVars
<1>3. QED
  BY <1>1, <1>2 DEF Next, vars, loopVars, queueVars, Run, Loop, LoopHead, Idle, ReachHorizon,
         GoToPoll, PumpDone, PollDone, Signal, Send, GetAnswer, GiveUp, Elapse

(* Events run in the order of their times, and at one time in the order     *)
(* they were scheduled, also when commands and callbacks schedule and       *)
(* cancel others in between.                                                *)
THEOREM RunsInTurnCorrect == Spec => RunsInTurn
<1> DEFINE InTurn ==
        \A e \in queue : e.live /\ now' = e.when /\ queue' # queue
              /\ (\A f \in queue' : f.seq # e.seq)
           => \A f \in queue : f.live =>
                  f.when > e.when \/ (f.when = e.when /\ f.seq >= e.seq)
<1>1. LoopInv /\ [Next]_vars => InTurn
  <2> SUFFICES ASSUME LoopInv, [Next]_vars, NEW e \in queue, NEW f \in queue,
                      \A g \in queue' : g.seq # e.seq
               PROVE  f.when > e.when \/ (f.when = e.when /\ f.seq >= e.seq)
    OBVIOUS
  <2>1. RunEvent
    BY OnlyRunEventRemoves
  <2> DEFINE x == Earliest(queue)
  <2>2. /\ x \in queue
        /\ \A g \in queue : Earlier(x, g)
        /\ \A g \in queue \ {x} : \E h \in queue' : h.seq = g.seq
    BY <2>1, RunEventSound
  <2> HIDE DEF x
  <2>3. e = x
    BY <2>2
  <2>4. Earlier(e, f) /\ e \in Events /\ f \in Events
    BY <2>2, <2>3 DEF LoopInv, QueueSound
  <2>5. QED
    BY <2>4 DEF Earlier, Events
<1>2. LoopInv /\ [Next]_vars => [InTurn]_loopVars
  BY <1>1
<1>3. QED
  BY <1>2, LoopCorrect, PTL DEF Spec, RunsInTurn

-----------------------------------------------------------------------------
(* The pace is taken from the start of the run with the scale of the        *)
(* moment, and an idle loop sleeps the same at every scale.  So the loop    *)
(* keeps up with the wall clock as long as nobody slows it down, and as     *)
(* long as one slower than the wall clock always has an event to come.      *)
NobodySlowsDown ==
    stretch' # stretch => stretch' = Unpaced \/ (stretch # Unpaced /\ stretch' < stretch)

SlowIsBusy == stretch <= 1 \/ queue # {}

(* Virtual time has not run ahead of the wall clock, and the next poll is   *)
(* no further away than the polls are apart.                                *)
PaceInv ==
    stage # "out" =>
        /\ nextPoll <= now + PollInterval
        /\ stretch # Unpaced => wall >= wallStart + now * stretch

LEMMA PaceTypes ==
    ASSUME LoopInv
    PROVE  /\ {now, wall, wallStart, nextPoll, stretch} \subseteq Nat
           /\ {PollInterval, IdleStep} \subseteq Nat \ {0} /\ IdleStep <= PollInterval
           /\ now * stretch \in Nat /\ PollInterval * stretch \in Nat
<1>1. now \in Nat /\ stretch \in Nat /\ PollInterval \in Nat
  BY SimAssumption DEF LoopInv, LoopTypeOK
<1>2. QED
  BY <1>1, SimAssumption DEF LoopInv, LoopTypeOK

(* A paced loop that goes to a time no later than the next poll sleeps no   *)
(* longer than to the next poll.                                            *)
LEMMA PacedShort ==
    ASSUME LoopInv, PaceInv, stage # "out", stretch # Unpaced, NEW t \in Nat, t <= nextPoll
    PROVE  Paced(t) - wall <= PollInterval * Later(stretch, 1)
<1>1. /\ {now, wall, wallStart, nextPoll, stretch, PollInterval} \subseteq Nat
      /\ now * stretch \in Nat /\ PollInterval * stretch \in Nat
  BY PaceTypes
<1>2. t <= now + PollInterval /\ wall >= wallStart + now * stretch
  BY <1>1 DEF PaceInv
<1>3. t * stretch <= (now + PollInterval) * stretch /\ t * stretch \in Nat
  BY <1>1, <1>2, TimesMonotone
<1>4. (now + PollInterval) * stretch = now * stretch + PollInterval * stretch
  BY <1>1
<1>5. Later(stretch, 1) = stretch
  BY <1>1 DEF Later, Unpaced
<1>6. Paced(t) = Later(wall, wallStart + t * stretch)
  BY DEF Paced
<1>7. QED
  BY <1>1, <1>2, <1>3, <1>4, <1>5, <1>6 DEF Later

LEMMA PaceInductive ==
    ASSUME LoopInv, PaceInv, SlowIsBusy, [Next]_vars, [NobodySlowsDown]_vars
    PROVE  PaceInv' /\ wall' - wall <= PollInterval * Later(stretch, 1)
<1>1. /\ {now, wall, wallStart, nextPoll, stretch} \subseteq Nat
      /\ {PollInterval, IdleStep} \subseteq Nat \ {0} /\ IdleStep <= PollInterval
      /\ now * stretch \in Nat /\ PollInterval * stretch \in Nat
  BY PaceTypes
<1> DEFINE bound == PollInterval * Later(stretch, 1)
<1> SUFFICES PaceInv' /\ wall' - wall <= bound
  OBVIOUS
<1>2. Later(stretch, 1) \in Nat /\ Later(stretch, 1) >= 1
  BY <1>1 DEF Later
<1>3. bound \in Nat /\ bound >= PollInterval
  <2>1. 1 * PollInterval <= Later(stretch, 1) * PollInterval
    BY <1>1, <1>2, TimesMonotone
  <2>2. QED
    BY <1>1, <1>2, <2>1
<1> HIDE DEF bound
<1>4. bound >= 1
  BY <1>1, <1>3
<1>5. CASE wall' = wall /\ UNCHANGED <<now, stage, nextPoll, stretch, wallStart>>
  BY <1>1, <1>3, <1>5 DEF PaceInv
<1>6. ASSUME NEW until, Run(until) PROVE PaceInv' /\ wall' - wall <= bound
  <2>1. now' = now /\ wall' = wall /\ wallStart' = wall /\ nextPoll' = 0 /\ stretch' = stretch
        /\ (stretch # Unpaced => now = 0)
    BY <1>6 DEF Run
  <2>2. QED
    BY <1>1, <1>3, <2>1 DEF PaceInv
<1>7. CASE LoopHead
  BY <1>1, <1>3, <1>7 DEF LoopHead, PaceInv, paceVars
<1>8. CASE Idle
  <2>1. CASE stretch = Unpaced
    BY <1>1, <1>3, <1>8, <2>1 DEF Idle, PaceInv
  <2>2. CASE stretch # Unpaced
    <3>1. stretch = 1 /\ stage # "out"
      BY <1>1, <1>8, <2>2 DEF Idle, SlowIsBusy, Unpaced
    <3>2. now' = now + IdleStep /\ wall' = wall + IdleStep /\ nextPoll' = nextPoll
          /\ stretch' = stretch /\ wallStart' = wallStart
      BY <1>8, <2>2 DEF Idle, paceVars
    <3>3. wall >= wallStart + now /\ nextPoll <= now + PollInterval
      BY <1>1, <2>2, <3>1 DEF PaceInv
    <3>4. QED
      BY <1>1, <1>3, <3>1, <3>2, <3>3 DEF PaceInv
  <2>3. QED
    BY <2>1, <2>2
<1>9. CASE ReachHorizon
  BY <1>1, <1>3, <1>9 DEF ReachHorizon, PaceInv
<1>10. CASE GoToPoll
  <2>1. /\ stage # "out" /\ stretch # Unpaced
        /\ wall' = Paced(nextPoll) /\ now' = Later(now, nextPoll)
        /\ UNCHANGED <<nextPoll, stretch, wallStart>>
    BY <1>10 DEF GoToPoll, BeyondPoll, paceVars
  <2>2. Paced(nextPoll) \in Nat /\ Paced(nextPoll) >= wall
        /\ Paced(nextPoll) >= wallStart + nextPoll * stretch
    BY <1>1, <2>1, PacedType DEF LoopInv
  <2>3. wall >= wallStart + now * stretch /\ nextPoll <= now + PollInterval
    BY <2>1 DEF PaceInv
  <2>4. wall' >= wallStart + now' * stretch /\ nextPoll <= now' + PollInterval
    <3>1. CASE now > nextPoll
      BY <1>1, <2>1, <2>2, <2>3, <3>1 DEF Later
    <3>2. CASE ~ (now > nextPoll)
      BY <1>1, <2>1, <2>2, <3>2 DEF Later
    <3>3. QED
      BY <3>1, <3>2
  <2>5. wall' - wall <= bound
    BY <1>1, <2>1, PacedShort DEF bound
  <2>6. QED
    BY <2>1, <2>4, <2>5 DEF PaceInv
<1>11. CASE RunEvent
  <2> DEFINE e == Earliest(queue)
  <2>1. /\ e \in queue /\ \A f \in queue : Earlier(e, f)
        /\ now' \in Nat /\ now' >= now
        /\ now' = IF e.live THEN e.when ELSE now
    BY <1>11, RunEventSound
  <2>2. /\ stage # "out"
        /\ stretch = Unpaced \/ \E f \in queue : ~ (f.when > nextPoll)
        /\ UNCHANGED <<nextPoll, stretch, wallStart>>
        /\ wall' = IF e.live THEN Paced(e.when) ELSE wall
    BY <1>11 DEF RunEvent, BeyondPoll, paceVars
  <2> HIDE DEF e
  <2>3. \A f \in queue : f.when \in Nat
    BY DEF LoopInv, QueueSound, Events
  <2>4. e.when \in Nat /\ (stretch # Unpaced => e.when <= nextPoll)
    BY <1>1, <2>1, <2>2, <2>3 DEF Earlier
  <2>5. CASE ~e.live
    BY <1>1, <1>3, <2>1, <2>2, <2>5 DEF PaceInv
  <2>6. CASE e.live /\ stretch = Unpaced
    BY <1>1, <1>3, <2>1, <2>2, <2>6 DEF PaceInv, Paced
  <2>7. CASE e.live /\ stretch # Unpaced
    <3>1. Paced(e.when) \in Nat /\ Paced(e.when) >= wallStart + e.when * stretch
      BY <2>4, <2>7, PacedType DEF LoopInv
    <3>2. Paced(e.when) - wall <= bound
      BY <2>2, <2>4, <2>7, PacedShort DEF bound
    <3>3. nextPoll <= now' + PollInterval
      BY <1>1, <2>1, <2>2 DEF PaceInv
    <3>4. QED
      BY <2>1, <2>2, <2>7, <3>1, <3>2, <3>3 DEF PaceInv
  <2>8. QED
    BY <2>5, <2>6, <2>7
<1>12. CASE Pump
  <2>1. UNCHANGED <<now, stage, nextPoll, wallStart, wall>>
    BY <1>12 DEF Pump
  <2>2. stretch' = stretch \/ stretch' = Unpaced
        \/ (stretch # Unpaced /\ stretch' \in Nat /\ stretch' < stretch)
    <3>1. stretch' \in Nat
      BY NextLoopInductive, SimAssumption DEF LoopInv, LoopTypeOK
    <3>2. CASE vars' = vars
      BY <3>2 DEF vars, loopVars, paceVars
    <3>3. QED
      BY <3>1, <3>2 DEF NobodySlowsDown
  <2>3. CASE stretch' = stretch \/ stretch' = Unpaced
    BY <1>1, <1>3, <2>1, <2>3 DEF PaceInv
  <2>4. CASE stretch # Unpaced /\ stretch' \in Nat /\ stretch' < stretch
    <3>1. stretch' * now <= stretch * now
      BY <1>1, <2>4, TimesMonotone
    <3>2. now * stretch' <= now * stretch /\ now * stretch' \in Nat
      BY <1>1, <2>4, <3>1
    <3>3. QED
      BY <1>1, <1>3, <2>1, <2>4, <3>2 DEF PaceInv
  <2>5. QED
    BY <2>2, <2>3, <2>4
<1>13. CASE PumpDone
  BY <1>1, <1>3, <1>13 DEF PumpDone, PollDone, PaceInv, paceVars
<1>14. CASE Elapse
  <2>1. wall' = wall + 1 /\ UNCHANGED <<now, stage, nextPoll, stretch, wallStart>>
    BY <1>14 DEF Elapse, paceVars
  <2>2. QED
    BY <1>1, <1>3, <1>4, <2>1 DEF PaceInv
<1>15. CASE Signal
  BY <1>5, <1>15 DEF Signal, paceVars
<1>16. CASE UNCHANGED loopVars
  BY <1>5, <1>16 DEF loopVars, paceVars
<1>17. QED
  BY <1>6, <1>7, <1>8, <1>9, <1>10, <1>11, <1>12, <1>13, <1>14, <1>15, <1>16
     DEF Next, vars, Loop, Send, GetAnswer, GiveUp

(* The loop keeps time: it never goes back, runs events in turn, and, under *)
(* the two conditions above, never sleeps longer than to the next poll.     *)
THEOREM KeepsTimeCorrect ==
    Spec /\ [][NobodySlowsDown]_vars /\ []SlowIsBusy => KeepsTime
<1>1. ControlInit => PaceInv
  BY DEF ControlInit, Init, PaceInv
<1>2. LoopInv /\ PaceInv /\ SlowIsBusy /\ [Next]_vars /\ [NobodySlowsDown]_vars
        => PaceInv' /\ [wall' - wall <= PollInterval * Later(stretch, 1)]_loopVars
  BY PaceInductive
<1>3. Spec /\ [][NobodySlowsDown]_vars /\ []SlowIsBusy => SleepsShort
  BY <1>1, <1>2, LoopCorrect, PTL DEF Spec, SleepsShort
<1>4. QED
  BY <1>3, TimeForwardCorrect, RunsInTurnCorrect DEF KeepsTime

(* Both conditions hold of a lab that runs at the speed of the wall clock   *)
(* and whose clients may only ask for the highest speed.                    *)
COROLLARY KeepsTimeAtWallClockSpeed ==
    ASSUME Stretches \subseteq {Unpaced, 1}, Scales \subseteq {Unpaced}
    PROVE  Spec => KeepsTime
<1>1. LoopInv => SlowIsBusy
  BY DEF LoopInv, LoopTypeOK, SlowIsBusy, Unpaced
<1>2. [Next]_vars => [NobodySlowsDown]_vars
  <2>1. ASSUME Pump PROVE NobodySlowsDown
    BY <2>1 DEF Pump, Handle, NobodySlowsDown
  <2>2. QED
    BY <2>1 DEF Next, vars, loopVars, paceVars, Run, Loop, LoopHead, Idle, ReachHorizon,
           GoToPoll, RunEvent, PumpDone, PollDone, Signal, Send, GetAnswer, GiveUp, Elapse,
           NobodySlowsDown
<1>3. QED
  BY <1>1, <1>2, LoopCorrect, KeepsTimeCorrect, PTL DEF Spec

-----------------------------------------------------------------------------
(* The threads' side of the type invariant.                                 *)
ClientsOK ==
    /\ inbox \in Seq(Requests)
    /\ client \in [Clients -> [waiting : BOOLEAN, number : 0 .. MaxRequests, since : Nat]]
    /\ reply \in [Requests \union Clients -> Requests \union {Nobody}]
    /\ executed \in Seq(Requests)
    /\ answered \in [Requests -> Requests \union {Nobody, Busy}]

(* Executed and then queued, a client's requests are in the order it sent   *)
(* them, none newer than its last one; a reply queue holds the answer to    *)
(* its own request or none, and only after the request was executed.        *)
RequestsInv ==
    /\ ClientsOK
    /\ \A c \in Clients : client[c].waiting => client[c].number > 0
    /\ \A i \in DOMAIN inbox : inbox[i].number <= client[inbox[i].by].number
    /\ \A i \in DOMAIN executed : executed[i].number <= client[executed[i].by].number
    /\ \A i \in DOMAIN executed, j \in DOMAIN inbox :
          executed[i].by = inbox[j].by => executed[i].number < inbox[j].number
    /\ \A i, j \in DOMAIN inbox :
          i < j /\ inbox[i].by = inbox[j].by => inbox[i].number < inbox[j].number
    /\ ExecutedOnceInOrder
    /\ \A r \in Requests :
          reply[r] # Nobody => reply[r] = r /\ \E i \in DOMAIN executed : executed[i] = r
    /\ AnswersOwn

LEMMA SendKeeps ==
    ASSUME LoopInv, RequestsInv, NEW c \in Clients, Send(c)
    PROVE  RequestsInv'
<1> DEFINE request == [by |-> c, number |-> client[c].number + 1]
<1>1. /\ client[c].number \in Nat /\ client[c].number < MaxRequests /\ MaxRequests \in Nat
      /\ wall \in Nat /\ DOMAIN client = Clients
      /\ \A b \in Clients : client[b].number \in Nat
  BY ControlAssumption DEF Send, RequestsInv, ClientsOK, LoopInv, LoopTypeOK
<1>2. request \in Requests /\ request.by = c /\ request.number = client[c].number + 1
  BY <1>1 DEF Requests
<1>3. /\ client' = [client EXCEPT ![c] =
            [waiting |-> TRUE, number |-> client[c].number + 1, since |-> wall]]
      /\ inbox' = Append(inbox, request)
      /\ UNCHANGED <<reply, executed, answered>>
  BY DEF Send
<1> HIDE DEF request
<1>4. /\ inbox \in Seq(Requests) /\ Len(inbox) \in Nat /\ DOMAIN inbox = 1 .. Len(inbox)
      /\ inbox' \in Seq(Requests) /\ DOMAIN inbox' = 1 .. (Len(inbox) + 1)
      /\ \A i \in DOMAIN inbox : inbox'[i] = inbox[i] /\ inbox[i] \in Requests
      /\ inbox'[Len(inbox) + 1] = request
  BY <1>2, <1>3 DEF RequestsInv, ClientsOK
<1>5. /\ client' \in [Clients -> [waiting : BOOLEAN, number : 0 .. MaxRequests, since : Nat]]
      /\ client'[c].number = client[c].number + 1
      /\ \A b \in Clients : b # c => client'[b] = client[b]
  BY <1>1, <1>3 DEF RequestsInv, ClientsOK
<1>6. \A b \in Clients : client'[b].waiting => client'[b].number > 0
  BY <1>1, <1>5 DEF RequestsInv
<1>7. \A i \in DOMAIN inbox' :
        inbox'[i] = request \/ (i \in DOMAIN inbox /\ inbox'[i] = inbox[i])
  BY <1>4
<1>8. \A r \in Requests : r.by \in Clients /\ r.number \in Nat
  BY DEF Requests
<1>9. \A i \in DOMAIN inbox' : inbox'[i].number <= client'[inbox'[i].by].number
  <2> SUFFICES ASSUME NEW i \in DOMAIN inbox'
               PROVE  inbox'[i].number <= client'[inbox'[i].by].number
    OBVIOUS
  <2>1. CASE inbox'[i] = request
    BY <1>1, <1>2, <1>5, <2>1
  <2>2. CASE i \in DOMAIN inbox /\ inbox'[i] = inbox[i]
    <3>1. inbox[i] \in Requests /\ inbox[i].number <= client[inbox[i].by].number
      BY <1>4, <2>2 DEF RequestsInv
    <3>2. QED
      BY <1>1, <1>5, <1>8, <2>2, <3>1
  <2>3. QED
    BY <1>7, <2>1, <2>2
<1>10. executed \in Seq(Requests) /\ \A i \in DOMAIN executed : executed[i] \in Requests
  BY DEF RequestsInv, ClientsOK
<1>11. \A i \in DOMAIN executed : executed[i].number <= client'[executed[i].by].number
  <2> SUFFICES ASSUME NEW i \in DOMAIN executed
               PROVE  executed[i].number <= client'[executed[i].by].number
    OBVIOUS
  <2>1. executed[i] \in Requests /\ executed[i].number <= client[executed[i].by].number
    BY <1>10 DEF RequestsInv
  <2>2. QED
    BY <1>1, <1>5, <1>8, <2>1
<1>12. \A i \in DOMAIN executed, j \in DOMAIN inbox' :
          executed[i].by = inbox'[j].by => executed[i].number < inbox'[j].number
  BY <1>1, <1>2, <1>7, <1>8, <1>10 DEF RequestsInv
<1>13. \A i, j \in DOMAIN inbox' :
          i < j /\ inbox'[i].by = inbox'[j].by => inbox'[i].number < inbox'[j].number
  <2> SUFFICES ASSUME NEW i \in DOMAIN inbox', NEW j \in DOMAIN inbox', i < j,
                      inbox'[i].by = inbox'[j].by
               PROVE  inbox'[i].number < inbox'[j].number
    OBVIOUS
  <2>1. i \in DOMAIN inbox /\ inbox'[i] = inbox[i]
    BY <1>4
  <2>2. CASE j \in DOMAIN inbox
    BY <1>4, <2>1, <2>2 DEF RequestsInv
  <2>3. CASE inbox'[j] = request
    BY <1>1, <1>2, <1>4, <1>8, <2>1, <2>3 DEF RequestsInv
  <2>4. QED
    BY <1>7, <2>2, <2>3
<1>14. ClientsOK'
  BY <1>3, <1>4, <1>5 DEF RequestsInv, ClientsOK
<1>15. QED
  BY <1>3, <1>6, <1>9, <1>11, <1>12, <1>13, <1>14
     DEF RequestsInv, ExecutedOnceInOrder, AnswersOwn

(* A thread that gets its answer, or gives up, changes only what its        *)
(* current request was answered with.                                       *)
LEMMA AnswerKeeps ==
    ASSUME RequestsInv, NEW c \in Clients, GetAnswer(c) \/ GiveUp(c)
    PROVE  RequestsInv'
<1> DEFINE r == Current(c)
<1>1. client[c].waiting /\ client[c].number \in 1 .. MaxRequests
  BY ControlAssumption DEF RequestsInv, ClientsOK, GetAnswer, GiveUp
<1>2. r \in Requests
  BY <1>1 DEF Current, Requests
<1>3. PICK text :
                  /\ client' = [client EXCEPT ![c].waiting = FALSE]
                  /\ answered' = [answered EXCEPT ![r] = text]
                  /\ text = Busy \/ (text = reply[r] /\ reply[r] # Nobody)
  BY DEF GetAnswer, GiveUp, Answer, ReplyQueue
<1>4. reply' = reply \/ reply' = [reply EXCEPT ![r] = Nobody]
  BY DEF GetAnswer, GiveUp, ReplyQueue
<1>5. UNCHANGED <<inbox, executed>>
  BY DEF GetAnswer, GiveUp
<1> HIDE DEF r
<1>6. /\ client' \in [Clients -> [waiting : BOOLEAN, number : 0 .. MaxRequests, since : Nat]]
      /\ \A b \in Clients : client'[b].number = client[b].number
      /\ \A b \in Clients : client'[b].waiting => client[b].waiting
  <2> DEFINE Threads == [waiting : BOOLEAN, number : 0 .. MaxRequests, since : Nat]
  <2>1. client \in [Clients -> Threads]
    BY DEF RequestsInv, ClientsOK
  <2>2. client' = [client EXCEPT ![c] = [client[c] EXCEPT !.waiting = FALSE]]
    BY <1>3
  <2>3. client[c] \in Threads
    BY <2>1
  <2>4. /\ [client[c] EXCEPT !.waiting = FALSE] \in Threads
        /\ [client[c] EXCEPT !.waiting = FALSE].number = client[c].number
        /\ ~ [client[c] EXCEPT !.waiting = FALSE].waiting
    BY <2>3
  <2> HIDE DEF Threads
  <2>5. client' \in [Clients -> Threads]
    BY <2>1, <2>2, <2>4
  <2>6. /\ client'[c] = [client[c] EXCEPT !.waiting = FALSE]
        /\ \A b \in Clients : b # c => client'[b] = client[b]
    BY <2>1, <2>2
  <2>7. QED
    BY <2>4, <2>5, <2>6 DEF Threads
<1>7. /\ reply' \in [Requests \union Clients -> Requests \union {Nobody}]
      /\ \A q \in Requests : reply'[q] # Nobody => reply'[q] = reply[q]
  BY <1>2, <1>4 DEF RequestsInv, ClientsOK
<1>8. text = Busy \/ (text = r /\ \E i \in DOMAIN executed : executed[i] = r)
  BY <1>2, <1>3 DEF RequestsInv
<1>9. /\ answered' \in [Requests -> Requests \union {Nobody, Busy}]
      /\ \A q \in Requests : q # r => answered'[q] = answered[q]
      /\ answered'[r] = text
  BY <1>2, <1>3, <1>8 DEF RequestsInv, ClientsOK
<1>10. AnswersOwn'
  <2> SUFFICES ASSUME NEW q \in Requests, answered'[q] \notin {Nobody, Busy}
               PROVE  answered'[q] = q /\ \E i \in DOMAIN executed : executed[i] = q
    BY <1>5 DEF AnswersOwn
  <2>1. CASE q = r
    BY <1>8, <1>9, <2>1
  <2>2. CASE q # r
    BY <1>9, <2>2 DEF RequestsInv, AnswersOwn
  <2>3. QED
    BY <2>1, <2>2
<1>11. ClientsOK'
  BY <1>5, <1>6, <1>7, <1>9 DEF RequestsInv, ClientsOK
<1>12. /\ \A i \in DOMAIN inbox : inbox[i].by \in Clients
       /\ \A i \in DOMAIN executed : executed[i].by \in Clients
  <2>1. inbox \in Seq(Requests) /\ executed \in Seq(Requests)
    BY DEF RequestsInv, ClientsOK
  <2>2. /\ \A i \in DOMAIN inbox : inbox[i] \in Requests
        /\ \A i \in DOMAIN executed : executed[i] \in Requests
    BY <2>1
  <2>3. QED
    BY <2>2 DEF Requests
<1>13. QED
  BY <1>5, <1>6, <1>7, <1>10, <1>11, <1>12 DEF RequestsInv, ExecutedOnceInOrder

(* pump() moves the oldest request from the queue to those executed, and    *)
(* answers it in its own reply queue.                                       *)
LEMMA PumpKeeps ==
    ASSUME RequestsInv, Pump
    PROVE  RequestsInv'
<1> DEFINE r == Head(inbox)
<1>1. /\ inbox \in Seq(Requests) /\ inbox # <<>> /\ executed \in Seq(Requests)
      /\ inbox' = Tail(inbox) /\ executed' = Append(executed, r)
      /\ reply' = [reply EXCEPT ![r] = IF @ = Nobody THEN r ELSE @]
      /\ UNCHANGED <<client, answered>>
  BY DEF RequestsInv, ClientsOK, Pump, ReplyQueue
<1>2. /\ Len(inbox) \in Nat /\ DOMAIN inbox = 1 .. Len(inbox) /\ Len(inbox) > 0
      /\ r = inbox[1] /\ r \in Requests
      /\ inbox' \in Seq(Requests) /\ DOMAIN inbox' = 1 .. (Len(inbox) - 1)
      /\ \A i \in DOMAIN inbox' : i + 1 \in DOMAIN inbox /\ inbox'[i] = inbox[i + 1]
  BY <1>1
<1> HIDE DEF r
<1>3. /\ Len(executed) \in Nat /\ DOMAIN executed = 1 .. Len(executed)
      /\ executed' \in Seq(Requests) /\ DOMAIN executed' = 1 .. (Len(executed) + 1)
      /\ \A i \in DOMAIN executed : executed'[i] = executed[i] /\ i \in DOMAIN executed'
      /\ executed'[Len(executed) + 1] = r
  BY <1>1, <1>2
<1>4. \A i \in DOMAIN executed' :
        executed'[i] = r \/ (i \in DOMAIN executed /\ executed'[i] = executed[i])
  BY <1>3
<1>5. \A i \in DOMAIN inbox' : inbox'[i].number <= client[inbox'[i].by].number
  BY <1>2 DEF RequestsInv
<1>6. \A i \in DOMAIN executed' : executed'[i].number <= client[executed'[i].by].number
  BY <1>2, <1>4 DEF RequestsInv
<1>7. \A i, j \in DOMAIN inbox' :
          i < j /\ inbox'[i].by = inbox'[j].by => inbox'[i].number < inbox'[j].number
  BY <1>2 DEF RequestsInv
<1>8. \A j \in DOMAIN inbox' : r.by = inbox'[j].by => r.number < inbox'[j].number
  BY <1>2 DEF RequestsInv
<1>9. \A i \in DOMAIN executed', j \in DOMAIN inbox' :
          executed'[i].by = inbox'[j].by => executed'[i].number < inbox'[j].number
  BY <1>2, <1>4, <1>8 DEF RequestsInv
<1>10. \A i \in DOMAIN executed : executed[i].by = r.by => executed[i].number < r.number
  BY <1>2 DEF RequestsInv
<1>11. ExecutedOnceInOrder'
  <2> SUFFICES ASSUME NEW i \in DOMAIN executed', NEW j \in DOMAIN executed', i < j,
                      executed'[i].by = executed'[j].by
               PROVE  executed'[i].number < executed'[j].number
    BY DEF ExecutedOnceInOrder
  <2>1. i \in DOMAIN executed /\ executed'[i] = executed[i]
    BY <1>3
  <2>2. CASE j \in DOMAIN executed
    BY <1>3, <2>1, <2>2 DEF RequestsInv, ExecutedOnceInOrder
  <2>3. CASE executed'[j] = r
    BY <1>10, <2>1, <2>3
  <2>4. QED
    BY <1>4, <2>2, <2>3
<1>12. /\ reply' \in [Requests \union Clients -> Requests \union {Nobody}]
       /\ \A q \in Requests : q # r => reply'[q] = reply[q]
       /\ reply'[r] = IF reply[r] = Nobody THEN r ELSE reply[r]
  BY <1>1, <1>2 DEF RequestsInv, ClientsOK
<1>13. \A q : (\E i \in DOMAIN executed : executed[i] = q)
               => \E i \in DOMAIN executed' : executed'[i] = q
  BY <1>3
<1>14. \E i \in DOMAIN executed' : executed'[i] = r
  BY <1>3
<1>15. \A q \in Requests :
          reply'[q] # Nobody => reply'[q] = q /\ \E i \in DOMAIN executed' : executed'[i] = q
  BY <1>2, <1>12, <1>13, <1>14 DEF RequestsInv
<1>16. AnswersOwn'
  BY <1>1, <1>13 DEF RequestsInv, AnswersOwn
<1>17. ClientsOK'
  BY <1>1, <1>2, <1>3, <1>12 DEF RequestsInv, ClientsOK
<1>18. QED
  BY <1>1, <1>5, <1>6, <1>7, <1>9, <1>11, <1>15, <1>16, <1>17 DEF RequestsInv

LEMMA RequestsInductive == LoopInv /\ RequestsInv /\ [Next]_vars => RequestsInv'
<1> SUFFICES ASSUME LoopInv, RequestsInv, [Next]_vars PROVE RequestsInv'
  OBVIOUS
<1>1. CASE UNCHANGED clientVars
  BY <1>1 DEF clientVars, RequestsInv, ClientsOK, ExecutedOnceInOrder, AnswersOwn
<1>2. QED
  BY <1>1, SendKeeps, AnswerKeeps, PumpKeeps DEF Next, vars, PumpDone, Elapse

LEMMA RequestsStart == ControlInit => RequestsInv
<1> SUFFICES ASSUME ControlInit PROVE RequestsInv
  OBVIOUS
<1>1. /\ inbox = <<>> /\ executed = <<>>
      /\ client = [c \in Clients |-> [waiting |-> FALSE, number |-> 0, since |-> 0]]
      /\ reply = [q \in Requests \union Clients |-> Nobody]
      /\ answered = [r \in Requests |-> Nobody]
  BY DEF ControlInit
<1>2. ClientsOK
  BY <1>1, ControlAssumption DEF ClientsOK
<1>3. DOMAIN inbox = {} /\ DOMAIN executed = {}
  BY <1>1
<1>4. QED
  BY <1>1, <1>2, <1>3 DEF RequestsInv, ExecutedOnceInOrder, AnswersOwn

(* Every answer is the answer to the request it is given for, a request is  *)
(* executed once at most, and those of one client in the order it sent      *)
(* them, however many clients there are and however often they give up.     *)
THEOREM RequestsRightCorrect == Spec => []RequestsRight
<1>1. RequestsInv => RequestsRight
  BY DEF RequestsInv, RequestsRight
<1>2. QED
  BY <1>1, RequestsStart, RequestsInductive, LoopCorrect, PTL DEF Spec

(* The loop keeps its types, and a repeating timer has exactly one event to *)
(* come until it is cancelled, and none from then on.                       *)
THEOREM LoopSoundCorrect == Spec => []LoopSound
<1>1. LoopInv /\ RequestsInv => LoopSound
  <2>1. LoopInv => SeriesArmed
    BY DEF LoopInv, QueueSound, SeriesArmed
  <2>2. LoopInv /\ RequestsInv => TypeOK
    BY DEF LoopInv, RequestsInv, ClientsOK, TypeOK
  <2>3. QED
    BY <2>1, <2>2 DEF LoopSound
<1>2. QED
  BY <1>1, RequestsStart, RequestsInductive, LoopCorrect, PTL DEF Spec

=============================================================================
