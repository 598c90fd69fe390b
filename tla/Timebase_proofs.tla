-------------------------- MODULE Timebase_proofs --------------------------
(***************************************************************************)
(* Proofs about the timebase between the CMTS and one modem, for any       *)
(* lengths, intervals, delays and faults.                                  *)
(***************************************************************************)
EXTENDS Timebase, SequenceTheorems, WellFoundedInduction, TLAPS

-----------------------------------------------------------------------------
(* The state, attribute by attribute.                                       *)
Bursts == [at : Nat, first : Nat, initial : BOOLEAN]
Arriving == [start : Nat, first : Nat, initial : BOOLEAN]
Modems == [phase : Phases, ucd : BOOLEAN, clock : Int, offset : Int, sid : BOOLEAN,
           t3 : Nat, tx : SUBSET Bursts, missed : BOOLEAN, waited : Nat]
Records == [known : BOOLEAN, due : Int, ranging : BOOLEAN, offset : Int]

Typed ==
    /\ now \in Nat /\ busy \in Nat /\ delay \in Nat
    /\ flight \in Seq(Frames) /\ nextMinislot \in Nat /\ record \in Records
    /\ modem \in Modems /\ upstream \in SUBSET Arriving
    /\ losses \in Nat /\ reinits \in Nat

(* The arithmetic of the clock stays among the integers.                    *)
LEMMA Divided ==
    ASSUME NEW a \in Int, NEW n \in Nat \ {0}
    PROVE  a % n \in 0 .. n - 1 /\ a % n = a - n * (a \div n) /\ a \div n \in Int
<1>1. n \in Int /\ n > 0
  OBVIOUS
<1>2. a \div n \in Int
  BY <1>1
<1>3. a % n \in 0 .. n - 1
  BY <1>1
<1>4. a % n = a - n * (a \div n)
  BY <1>1, SMTT(20)
<1>5. QED
  BY <1>2, <1>3, <1>4

LEMMA ClockTypes ==
    /\ \A t \in Int : TimestampAt(t) \in 0 .. Modulus - 1
    /\ \A a, b \in Int : TimestampDelta(a, b) \in Int
    /\ \A t \in Nat : NumberAt(t) \in Nat /\ StartOf(t) \in Nat /\ MinislotsFor(t) \in Nat
    /\ InitialNeed \in Nat /\ StationNeed \in Nat
<1>1. /\ Modulus \in Nat \ {0} /\ Slot \in Nat \ {0} /\ Burst \in Nat \ {0}
      /\ MaxReach \in Nat
  BY TimebaseAssumption
<1>2. \A t \in Int : TimestampAt(t) \in 0 .. Modulus - 1
  BY <1>1, Divided DEF TimestampAt
<1>3. \A a, b \in Int : TimestampDelta(a, b) \in Int
  <2> SUFFICES ASSUME NEW a \in Int, NEW b \in Int PROVE TimestampDelta(a, b) \in Int
    OBVIOUS
  <2>1. (a - b) % Modulus \in Int
    BY <1>1, Divided
  <2>2. QED
    BY <1>1, <2>1 DEF TimestampDelta
<1>4. ASSUME NEW t \in Nat PROVE NumberAt(t) \in Nat /\ StartOf(t) \in Nat
  BY <1>1 DEF NumberAt, StartOf
<1>5. ASSUME NEW t \in Nat PROVE MinislotsFor(t) \in Nat
  <2>1. t + Slot - 1 \in Nat
    BY <1>1
  <2>2. (t + Slot - 1) \div Slot \in Nat
    BY <1>1, <2>1
  <2>3. QED
    BY <2>2 DEF MinislotsFor
<1>6. InitialNeed \in Nat /\ StationNeed \in Nat
  <2>1. MinislotsFor(Burst) \in Nat /\ MinislotsFor(2 * MaxReach) \in Nat
    BY <1>1, <1>5
  <2>2. QED
    BY <2>1 DEF InitialNeed, StationNeed
<1>7. QED
  BY <1>2, <1>3, <1>4, <1>5, <1>6

-----------------------------------------------------------------------------
(* What the modem's handlers make of its attributes.                        *)
LEMMA SyncTypes ==
    ASSUME NEW m \in Modems, NEW frame \in Messages, frame.kind = "SYNC", now \in Nat,
           delay \in Nat
    PROVE  OnSync(m, frame) \in Modems /\ OnSync(m, frame).offset = m.offset
           /\ (OnSync(m, frame).phase = "scan" => m.phase = "scan")
<1>1. frame.stamp \in Int /\ SyncLen \in Nat /\ Modulus \in Nat
  BY TimebaseAssumption DEF Messages
<1>2. PICK c \in Int : c = IF m.clock = NoClock THEN frame.stamp + SyncLen - now
              ELSE m.clock + TimestampDelta(frame.stamp, TimestampAt(now + m.clock)) + SyncLen
  <2>1. m.clock \in Int /\ TimestampAt(now + m.clock) \in Int
    BY ClockTypes DEF Modems
  <2>2. TimestampDelta(frame.stamp, TimestampAt(now + m.clock)) \in Int
    BY <1>1, <2>1, ClockTypes
  <2>3. QED
    BY <1>1, <2>1, <2>2
<1>3. PICK p \in Phases : p = IF m.phase = "sync-wait" THEN "ucd-wait" ELSE m.phase
  BY DEF Modems, Phases
<1>4. PICK w \in Nat : w = AtLeast(m.waited, Waited(frame))
  <2>1. PICK x \in Int : x = now - delay - SyncLen - frame.stamp
    BY <1>1, TimebaseAssumption
  <2>2. Waited(frame) \in Nat
    <3>1. Modulus \in Nat \ {0}
      BY TimebaseAssumption
    <3>2. x % Modulus \in 0 .. Modulus - 1
      BY <3>1, Divided
    <3>3. QED
      BY <2>1, <3>1, <3>2 DEF Waited
  <2>3. m.waited \in Nat
    BY DEF Modems
  <2>4. QED
    BY <2>2, <2>3 DEF AtLeast
<1>5. OnSync(m, frame) = [m EXCEPT !.clock = c, !.waited = w, !.phase = p]
  BY <1>2, <1>3, <1>4, Zenon DEF OnSync
<1>6. QED
  BY <1>3, <1>4, <1>5 DEF Modems, Phases

LEMMA UcdTypes ==
    ASSUME NEW m \in Modems
    PROVE  OnUcd(m) \in Modems /\ OnUcd(m).offset = m.offset /\ OnUcd(m).clock = m.clock
           /\ (OnUcd(m).phase = "scan" => m.phase = "scan")
<1>1. PICK p \in Phases : p = IF m.phase = "ucd-wait" THEN "ranging-wait" ELSE m.phase
  BY DEF Modems, Phases
<1>2. OnUcd(m) = [m EXCEPT !.ucd = TRUE, !.phase = p]
  BY <1>1, Zenon DEF OnUcd
<1>3. QED
  BY <1>1, <1>2 DEF Modems, Phases

(* A burst is only ever scheduled from now on.                              *)
LEMMA ScheduleTypes ==
    ASSUME NEW m \in Modems, NEW slot \in Nat, NEW jitter \in Int, NEW state \in Phases,
           now \in Nat
    PROVE  /\ ScheduleBurst(m, slot, jitter, state) \in Modems
           /\ ScheduleBurst(m, slot, jitter, state).offset = m.offset
           /\ ScheduleBurst(m, slot, jitter, state).clock = m.clock
           /\ ScheduleBurst(m, slot, jitter, state).phase \in {m.phase, state}
           /\ \A tx \in ScheduleBurst(m, slot, jitter, state).tx : tx \in m.tx \/ tx.at >= now
<1> DEFINE when == LocalTimeOf(m, slot) + jitter
<1>1. when \in Int /\ T3 \in Nat
  <2>1. StartOf(slot) \in Int /\ m.offset \in Int /\ m.clock \in Int
    BY ClockTypes DEF Modems
  <2>2. QED
    BY <2>1, TimebaseAssumption DEF LocalTimeOf
<1> HIDE DEF when
<1>2. PICK b \in BOOLEAN : b = (state = "ranging-initial")
  OBVIOUS
<1> DEFINE tx == [at |-> when, first |-> slot, initial |-> b]
<1>3. \/ ScheduleBurst(m, slot, jitter, state) = m
      \/ ScheduleBurst(m, slot, jitter, state) = [m EXCEPT !.missed = TRUE]
      \/ /\ ~(when < now)
         /\ ScheduleBurst(m, slot, jitter, state)
                = [m EXCEPT !.tx = @ \union {tx}, !.phase = state, !.t3 = now + T3]
  BY <1>2, Zenon DEF ScheduleBurst, when
<1>4. CASE ~(when < now) /\ ScheduleBurst(m, slot, jitter, state)
                = [m EXCEPT !.tx = @ \union {tx}, !.phase = state, !.t3 = now + T3]
  <2>1. tx \in Bursts /\ tx.at >= now
    BY <1>1, <1>2, <1>4 DEF Bursts
  <2> HIDE DEF tx
  <2>2. PICK X \in SUBSET Bursts : X = m.tx \union {tx}
    BY <2>1 DEF Modems
  <2>3. PICK n \in Nat : n = now + T3
    BY <1>1
  <2>4. ScheduleBurst(m, slot, jitter, state) = [m EXCEPT !.tx = X, !.phase = state, !.t3 = n]
    BY <1>4, <2>2, <2>3, Zenon
  <2> DEFINE s == ScheduleBurst(m, slot, jitter, state)
  <2>5. /\ s \in Modems /\ s.offset = m.offset /\ s.clock = m.clock
        /\ s.phase = state /\ s.tx = X
    BY <2>4 DEF Modems
  <2>6. \A x \in X : x \in m.tx \/ x.at >= now
    BY <2>1, <2>2
  <2> HIDE DEF s
  <2>7. QED
    BY <2>5, <2>6 DEF s
<1>5. QED
  BY <1>3, <1>4 DEF Modems
LEMMA MapTypes ==
    ASSUME NEW m \in Modems, NEW map \in Messages, map.kind = "MAP",
           NEW takes \in BOOLEAN, NEW jitter \in Int, now \in Nat
    PROVE  /\ OnMap(m, map, takes, jitter) \in Modems
           /\ OnMap(m, map, takes, jitter).offset = m.offset
           /\ OnMap(m, map, takes, jitter).clock = m.clock
           /\ OnMap(m, map, takes, jitter).phase = "scan" => m.phase = "scan"
           /\ \A tx \in OnMap(m, map, takes, jitter).tx : tx \in m.tx \/ tx.at >= now
<1>1. map.start \in Nat /\ map.poll \in Nat
  BY DEF Messages
<1>2. "ranging-initial" \in Phases /\ "ranging-station" \in Phases /\ "ranged" \in Phases
  BY DEF Phases
<1> DEFINE After(n, a) == /\ n \in Modems /\ n.offset = a.offset /\ n.clock = a.clock
                          /\ n.phase = "scan" => a.phase = "scan"
                          /\ \A tx \in n.tx : tx \in a.tx \/ tx.at >= now
<1>3. After(OfferInitialMaintenance(m, map, takes, jitter), m)
  <2>1. After(m, m)
    OBVIOUS
  <2>2. After(ScheduleBurst(m, map.start, jitter, "ranging-initial"), m)
    BY <1>1, <1>2, ScheduleTypes
  <2> HIDE DEF After
  <2>3. QED
    BY <2>1, <2>2, Zenon DEF OfferInitialMaintenance
<1>4. ASSUME NEW a \in Modems
      PROVE  After(OfferStationMaintenance(a, map, jitter), a)
  <2>1. After(a, a)
    OBVIOUS
  <2>2. ASSUME NEW p \in {"ranging-station", "ranged"}
        PROVE  After(ScheduleBurst(a, map.poll, jitter, p), a)
    BY <1>1, <1>2, ScheduleTypes
  <2>3. (IF a.phase = "ranged" THEN "ranged" ELSE "ranging-station")
            \in {"ranging-station", "ranged"}
    OBVIOUS
  <2> HIDE DEF After
  <2>4. QED
    BY <2>1, <2>2, <2>3, Zenon DEF OfferStationMaintenance
<1>5. After(m, m)
  OBVIOUS
<1>6. ASSUME NEW a, NEW b, After(a, m), After(b, a) PROVE After(b, m)
  BY <1>6
<1>7. After(OfferInitialMaintenance(m, map, takes, jitter), m)
      => OfferInitialMaintenance(m, map, takes, jitter) \in Modems
  OBVIOUS
<1>8. After(OnMap(m, map, takes, jitter), m)
  <2> HIDE DEF After
  <2>1. After(OfferStationMaintenance(OfferInitialMaintenance(m, map, takes, jitter),
                                      map, jitter),
              OfferInitialMaintenance(m, map, takes, jitter))
    BY <1>3, <1>4, <1>7, Zenon
  <2>2. QED
    BY <1>3, <1>5, <1>6, <2>1, Zenon DEF OnMap
<1>9. QED
  BY <1>8

LEMMA RngRspTypes ==
    ASSUME NEW m \in Modems, NEW frame \in Messages, frame.kind = "RNG-RSP"
    PROVE  /\ OnRngRsp(m, frame) \in Modems
           /\ OnRngRsp(m, frame).offset = m.offset + frame.adjust
           /\ OnRngRsp(m, frame).clock = m.clock
           /\ OnRngRsp(m, frame).phase = "scan" => m.phase = "scan"
           /\ OnRngRsp(m, frame).tx = m.tx
<1>1. frame.adjust \in Int /\ m.offset \in Int
  BY DEF Messages, Modems
<1>2. PICK o \in Int : o = m.offset + frame.adjust
  BY <1>1
<1>3. PICK p \in Phases :
          p = IF m.phase \notin {"ranging-initial", "ranging-station"} THEN m.phase
              ELSE IF frame.success THEN "ranged" ELSE "ranging-station"
  BY DEF Modems, Phases
<1>4. OnRngRsp(m, frame) = [m EXCEPT !.t3 = 0, !.sid = TRUE, !.offset = o, !.phase = p]
  BY <1>2, <1>3, Zenon DEF OnRngRsp
<1>5. p = "scan" => m.phase = "scan"
  BY <1>3
<1> DEFINE n == OnRngRsp(m, frame)
<1>6. n \in Modems /\ n.offset = o /\ n.clock = m.clock /\ n.phase = p /\ n.tx = m.tx
  <2>1. PICK k : k = [m EXCEPT !.t3 = 0, !.sid = TRUE]
    OBVIOUS
  <2>2. k \in Modems /\ k.clock = m.clock /\ k.tx = m.tx
    BY <2>1 DEF Modems
  <2>3. n = [k EXCEPT !.offset = o, !.phase = p]
    BY <1>4, <2>1
  <2> HIDE DEF n
  <2>4. QED
    BY <2>2, <2>3 DEF Modems
<1> HIDE DEF n
<1>7. QED
  BY <1>2, <1>5, <1>6 DEF n

-----------------------------------------------------------------------------
(* Induction, for a set in the place of a predicate.                        *)
LEMMA InductionUpTo ==
    ASSUME NEW N \in Nat, NEW T, 0 \in T, \A k \in 0 .. N - 1 : k \in T => k + 1 \in T
    PROVE  0 .. N \subseteq T
<1> SUFFICES ASSUME ~(0 .. N \subseteq T) PROVE FALSE
  OBVIOUS
<1> DEFINE Out == {n \in 0 .. N : n \notin T}
<1>1. Out \in SUBSET Nat /\ Out # {}
  OBVIOUS
<1>2. \E x \in Out : \A y \in Out : ~ (<<y, x>> \in OpToRel(<, Nat))
  <2> HIDE DEF Out
  <2> QED BY <1>1, WFMin, NatLessThanWellFounded, Zenon
<1>3. PICK x \in Out : \A y \in Out : ~ (<<y, x>> \in OpToRel(<, Nat))
  BY <1>2, Zenon
<1>4. x \in Nat /\ x # 0 /\ x - 1 \in Nat /\ x - 1 < x
  OBVIOUS
<1>5. x - 1 \notin Out
  <2> HIDE DEF Out
  <2>1. <<x - 1, x>> \in OpToRel(<, Nat)
    BY <1>4, Zenon DEF OpToRel
  <2> QED BY <1>3, <2>1, Zenon
<1>6. QED
  BY <1>4, <1>5

(* The corrections of a sequence of frames, from the first of them on.      *)
LEMMA CorrectionTypes ==
    ASSUME NEW f \in Frames PROVE Correction(f.msg) \in Int
  BY DEF Frames, Messages, Correction

Partial(frames, sum) ==
    sum = [n \in 0 .. Len(frames) |->
              IF n = 0 THEN 0 ELSE sum[n - 1] + Correction(frames[n].msg)]

LEMMA PartialSums ==
    ASSUME NEW frames \in Seq(Frames)
    PROVE  \E sum \in [0 .. Len(frames) -> Int] : Partial(frames, sum)
<1> DEFINE N == Len(frames)
           Of(g, k) == \A n \in 0 .. k :
                           g[n] = IF n = 0 THEN 0 ELSE g[n - 1] + Correction(frames[n].msg)
           Reached == {k \in 0 .. N : \E g \in [0 .. N -> Int] : Of(g, k)}
<1>1. N \in Nat
  OBVIOUS
<1>2. \A n \in 1 .. N : Correction(frames[n].msg) \in Int
  BY CorrectionTypes
<1>3. 0 \in Reached
  <2>1. [n \in 0 .. N |-> 0] \in [0 .. N -> Int] /\ Of([n \in 0 .. N |-> 0], 0)
    BY <1>1
  <2>2. \E g \in [0 .. N -> Int] : Of(g, 0)
    BY <2>1
  <2>3. QED
    BY <1>1, <2>2
<1>4. ASSUME NEW k \in 0 .. N - 1, k \in Reached PROVE k + 1 \in Reached
  <2>1. PICK g \in [0 .. N -> Int] : Of(g, k)
    BY <1>4
  <2>2. PICK c \in Int : c = g[k] + Correction(frames[k + 1].msg)
    <3> HIDE DEF N, Of, Reached
    <3>1. k \in 0 .. N /\ k + 1 \in 1 .. N
      BY <1>1
    <3>2. g[k] \in Int
      BY <3>1, Zenon
    <3>3. PICK d \in Int : d = Correction(frames[k + 1].msg)
      BY <1>2, <3>1, Zenon
    <3>4. g[k] + d \in Int
      BY <3>2
    <3>5. QED
      BY <3>3, <3>4, Zenon
  <2> DEFINE h == [g EXCEPT ![k + 1] = c]
  <2>3. h \in [0 .. N -> Int] /\ h[k + 1] = c /\ \A n \in 0 .. k : h[n] = g[n]
    BY <1>1, <2>2
  <2> HIDE DEF h
  <2>4. ASSUME NEW n \in 0 .. k + 1
        PROVE  h[n] = IF n = 0 THEN 0 ELSE h[n - 1] + Correction(frames[n].msg)
    <3>1. CASE n = k + 1
      BY <1>1, <2>2, <2>3, <3>1
    <3>2. CASE n = 0
      BY <1>1, <2>1, <2>3, <3>2
    <3>3. CASE n \in 1 .. k
      <4>1. n - 1 \in 0 .. k /\ n \in 0 .. k
        BY <1>1, <3>3
      <4>2. QED
        BY <2>1, <2>3, <4>1
    <3>4. QED
      BY <1>1, <3>1, <3>2, <3>3
  <2>5. Of(h, k + 1)
    BY <2>4
  <2>6. \E g2 \in [0 .. N -> Int] : Of(g2, k + 1)
    BY <2>3, <2>5
  <2>7. k + 1 \in 0 .. N
    BY <1>1
  <2>8. QED
    BY <2>6, <2>7
<1>5. N \in Reached
  <2> HIDE DEF Reached, N
  <2>1. 0 .. N \subseteq Reached
    BY <1>1, <1>3, <1>4, InductionUpTo
  <2>2. N \in 0 .. N
    BY <1>1
  <2>3. QED
    BY <2>1, <2>2, Zenon
<1>6. PICK g \in [0 .. N -> Int] : Of(g, N)
  <2> HIDE DEF N, Of
  <2>1. QED
    BY <1>5, Zenon
<1>7. Partial(frames, g)
  BY <1>1, <1>6 DEF Partial
<1>8. QED
  BY <1>6, <1>7

(* The sum of the corrections, one frame after the other.                   *)
LEMMA CorrectionsIs ==
    ASSUME NEW frames \in Seq(Frames)
    PROVE  \E sum \in [0 .. Len(frames) -> Int] :
               /\ Corrections(frames) = sum[Len(frames)] /\ sum[0] = 0
               /\ \A n \in 0 .. Len(frames) - 1 :
                      sum[n + 1] = sum[n] + Correction(frames[n + 1].msg)
<1> DEFINE Chosen == CHOOSE sum : Partial(frames, sum)
<1>1. PICK s \in [0 .. Len(frames) -> Int] : Partial(frames, s)
  BY PartialSums
<1>2. Partial(frames, Chosen)
  BY <1>1
<1>3. Corrections(frames) = Chosen[Len(frames)]
  BY DEF Corrections, Partial
<1> HIDE DEF Chosen
<1>4. Len(frames) \in Nat
  OBVIOUS
<1>5. /\ Chosen = [n \in 0 .. Len(frames) |-> Chosen[n]]
      /\ \A n \in 0 .. Len(frames) :
             Chosen[n] = IF n = 0 THEN 0 ELSE Chosen[n - 1] + Correction(frames[n].msg)
  <2>1. \A n \in 0 .. Len(frames) :
             Chosen[n] = IF n = 0 THEN 0 ELSE Chosen[n - 1] + Correction(frames[n].msg)
    BY <1>2 DEF Partial
  <2>2. Chosen = [n \in 0 .. Len(frames) |->
              IF n = 0 THEN 0 ELSE Chosen[n - 1] + Correction(frames[n].msg)]
    BY <1>2, Zenon DEF Partial
  <2>3. QED
    BY <2>1, <2>2
<1>6. \A n \in 0 .. Len(frames) : Chosen[n] \in Int
  <2> DEFINE T == {n \in 0 .. Len(frames) : Chosen[n] \in Int}
  <2>1. 0 \in T
    BY <1>4, <1>5
  <2>2. ASSUME NEW k \in 0 .. Len(frames) - 1, k \in T PROVE k + 1 \in T
    <3>1. k + 1 \in 1 .. Len(frames)
      BY <1>4
    <3>2. Correction(frames[k + 1].msg) \in Int
      BY <3>1, CorrectionTypes
    <3>3. Chosen[k + 1] = Chosen[k] + Correction(frames[k + 1].msg)
      <4>1. k + 1 \in 0 .. Len(frames) /\ k + 1 # 0 /\ (k + 1) - 1 = k
        BY <1>4
      <4>2. QED
        BY <1>5, <4>1
    <3>4. QED
      BY <1>4, <2>2, <3>1, <3>2, <3>3
  <2> HIDE DEF T
  <2>3. 0 .. Len(frames) \subseteq T
    BY <1>4, <2>1, <2>2, InductionUpTo
  <2>4. QED
    BY <2>3 DEF T
<1>7. Chosen \in [0 .. Len(frames) -> Int]
  BY <1>5, <1>6
<1>8. Chosen[0] = 0
  BY <1>4, <1>5
<1>9. ASSUME NEW n \in 0 .. Len(frames) - 1
      PROVE  Chosen[n + 1] = Chosen[n] + Correction(frames[n + 1].msg)
  <2>1. n + 1 \in 0 .. Len(frames) /\ n + 1 # 0 /\ (n + 1) - 1 = n
    BY <1>4
  <2>2. QED
    BY <1>5, <2>1
<1>10. QED
  BY <1>3, <1>7, <1>8, <1>9

(* Sequences that grow by the same steps stay as far apart as they began.   *)
Apart(g, h, d, N) ==
    /\ N \in Nat /\ d \in Int
    /\ \A n \in 0 .. N : g[n] \in Int /\ h[n] \in Int
    /\ g[0] = h[0] + d
    /\ \A n \in 0 .. N - 1 : g[n + 1] - g[n] = h[n + 1] - h[n]

EndsApart(g, h, d, N) == g[N] = h[N] + d

LEMMA SameSteps ==
    ASSUME NEW g, NEW h, NEW d, NEW N, Apart(g, h, d, N)
    PROVE  EndsApart(g, h, d, N)
<1> USE DEF Apart
<1> DEFINE T == {n \in 0 .. N : g[n] = h[n] + d}
<1>1. 0 \in T
  OBVIOUS
<1>2. ASSUME NEW k \in 0 .. N - 1, k \in T PROVE k + 1 \in T
  BY <1>2
<1> HIDE DEF T
<1>3. 0 .. N \subseteq T
  BY <1>1, <1>2, InductionUpTo
<1>4. QED
  BY <1>3 DEF T, EndsApart

LEMMA CorrectionsOfNone == Corrections(<<>>) = 0
<1>1. <<>> \in Seq(Frames) /\ Len(<<>>) = 0
  OBVIOUS
<1>2. QED
  BY <1>1, CorrectionsIs

LEMMA CorrectionsAppend ==
    ASSUME NEW frames \in Seq(Frames), NEW f \in Frames
    PROVE  /\ Corrections(frames) \in Int
           /\ Corrections(Append(frames, f)) = Corrections(frames) + Correction(f.msg)
<1> DEFINE N == Len(frames)
           more == Append(frames, f)
<1>1. /\ N \in Nat /\ more \in Seq(Frames) /\ Len(more) = N + 1
      /\ \A n \in 1 .. N : more[n] = frames[n]
      /\ more[N + 1] = f
  BY AppendProperties
<1>2. PICK g \in [0 .. N -> Int] :
          /\ Corrections(frames) = g[N] /\ g[0] = 0
          /\ \A n \in 0 .. N - 1 : g[n + 1] = g[n] + Correction(frames[n + 1].msg)
  BY CorrectionsIs
<1>3. PICK h \in [0 .. N + 1 -> Int] :
          /\ Corrections(more) = h[N + 1] /\ h[0] = 0
          /\ \A n \in 0 .. N : h[n + 1] = h[n] + Correction(more[n + 1].msg)
  <2>1. PICK h \in [0 .. Len(more) -> Int] :
            /\ Corrections(more) = h[Len(more)] /\ h[0] = 0
            /\ \A n \in 0 .. Len(more) - 1 : h[n + 1] = h[n] + Correction(more[n + 1].msg)
    BY <1>1, CorrectionsIs
  <2>2. Len(more) - 1 = N
    BY <1>1
  <2>3. QED
    BY <1>1, <2>1, <2>2
<1> HIDE DEF N, more
<1>4. \A n \in 0 .. N : g[n] \in Int /\ h[n] \in Int
  BY <1>1
<1>5. ASSUME NEW n \in 0 .. N - 1 PROVE h[n + 1] - h[n] = g[n + 1] - g[n]
  <2>1. n + 1 \in 1 .. N /\ n \in 0 .. N /\ n + 1 \in 0 .. N
    BY <1>1
  <2>2. more[n + 1] = frames[n + 1]
    BY <1>1, <2>1
  <2>3. h[n + 1] = h[n] + Correction(frames[n + 1].msg)
    BY <1>3, <2>1, <2>2
  <2>4. g[n + 1] = g[n] + Correction(frames[n + 1].msg)
    BY <1>2
  <2>5. Correction(frames[n + 1].msg) \in Int
    BY <2>1, CorrectionTypes DEF N
  <2>6. QED
    BY <1>4, <2>1, <2>3, <2>4, <2>5
<1>6. h[N] = g[N] + 0
  <2>1. 0 \in Int /\ h[0] = g[0] + 0
    BY <1>2, <1>3
  <2>2. QED
    <3>1. \A n \in 0 .. N : h[n] \in Int /\ g[n] \in Int
      BY <1>4, Zenon
    <3>2. \A n \in 0 .. N - 1 : h[n + 1] - h[n] = g[n + 1] - g[n]
      BY <1>5, Zenon
    <3>3. N \in Nat
      BY <1>1, Zenon
    <3>4. QED
      <4>1. Apart(h, g, 0, N)
        BY <2>1, <3>1, <3>2, <3>3, Zenon DEF Apart
      <4>2. EndsApart(h, g, 0, N)
        BY <4>1, SameSteps, Zenon
      <4>3. QED
        BY <4>2 DEF EndsApart
<1>7. h[N + 1] = h[N] + Correction(f.msg)
  BY <1>1, <1>3
<1>8. QED
  BY <1>1, <1>2, <1>3, <1>4, <1>6, <1>7 DEF more

LEMMA CorrectionsTail ==
    ASSUME NEW frames \in Seq(Frames), frames # <<>>
    PROVE  Corrections(frames) = Correction(Head(frames).msg) + Corrections(Tail(frames))
<1> DEFINE N == Len(frames) - 1
           rest == Tail(frames)
<1>1. /\ N \in Nat /\ rest \in Seq(Frames) /\ Len(rest) = N /\ Len(frames) = N + 1
      /\ \A n \in 1 .. N : rest[n] = frames[n + 1]
      /\ Head(frames) = frames[1] /\ frames[1] \in Frames
  BY HeadTailProperties
<1>2. PICK g \in [0 .. N + 1 -> Int] :
          /\ Corrections(frames) = g[N + 1] /\ g[0] = 0
          /\ \A n \in 0 .. N : g[n + 1] = g[n] + Correction(frames[n + 1].msg)
  <2>1. PICK g \in [0 .. Len(frames) -> Int] :
            /\ Corrections(frames) = g[Len(frames)] /\ g[0] = 0
            /\ \A n \in 0 .. Len(frames) - 1 : g[n + 1] = g[n] + Correction(frames[n + 1].msg)
    BY CorrectionsIs
  <2>2. QED
    BY <1>1, <2>1
<1>3. PICK h \in [0 .. N -> Int] :
          /\ Corrections(rest) = h[N] /\ h[0] = 0
          /\ \A n \in 0 .. N - 1 : h[n + 1] = h[n] + Correction(rest[n + 1].msg)
  <2>1. PICK h \in [0 .. Len(rest) -> Int] :
            /\ Corrections(rest) = h[Len(rest)] /\ h[0] = 0
            /\ \A n \in 0 .. Len(rest) - 1 : h[n + 1] = h[n] + Correction(rest[n + 1].msg)
    <3> HIDE DEF rest
    <3> QED BY <1>1, CorrectionsIs
  <2>2. QED
    BY <1>1, <2>1
<1> HIDE DEF N, rest
<1>4. PICK up : up = [n \in 0 .. N |-> g[n + 1]]
  OBVIOUS
<1>5. PICK first : first = Correction(frames[1].msg)
  OBVIOUS
<1>6. \A n \in 0 .. N : up[n] \in Int /\ h[n] \in Int /\ up[n] = g[n + 1]
  BY <1>1, <1>4
<1>7. first \in Int /\ up[0] = first
  BY <1>1, <1>2, <1>4, <1>5, CorrectionTypes
<1>8. ASSUME NEW n \in 0 .. N - 1 PROVE up[n + 1] - up[n] = h[n + 1] - h[n]
  <2>1. n + 1 \in 1 .. N /\ n \in 0 .. N /\ n + 1 \in 0 .. N /\ (n + 1) + 1 \in 1 .. N + 1
    BY <1>1
  <2>2. rest[n + 1] = frames[(n + 1) + 1]
    BY <1>1, <2>1
  <2>3. g[(n + 1) + 1] = g[n + 1] + Correction(frames[(n + 1) + 1].msg)
    BY <1>2, <2>1
  <2>4. h[n + 1] = h[n] + Correction(frames[(n + 1) + 1].msg)
    BY <1>3, <2>2
  <2>5. Correction(frames[(n + 1) + 1].msg) \in Int
    BY <1>1, <2>1, CorrectionTypes
  <2>6. QED
    BY <1>6, <2>1, <2>3, <2>4, <2>5
<1>9. up[N] = h[N] + first
  <2>1. up[0] = h[0] + first
    BY <1>3, <1>7
  <2>2. \A n \in 0 .. N : up[n] \in Int /\ h[n] \in Int
    BY <1>6
  <2>3. \A n \in 0 .. N - 1 : up[n + 1] - up[n] = h[n + 1] - h[n]
    BY <1>8
  <2>4. N \in Nat /\ first \in Int
    BY <1>1, <1>7
  <2>5. QED
    <3>1. Apart(up, h, first, N)
      BY <2>1, <2>2, <2>3, <2>4, Zenon DEF Apart
    <3>2. EndsApart(up, h, first, N)
      BY <3>1, SameSteps, Zenon
    <3>3. QED
      BY <3>2 DEF EndsApart
<1>10. QED
  BY <1>1, <1>2, <1>3, <1>6, <1>7, <1>9, <1>5 DEF rest
-----------------------------------------------------------------------------
(* Frames on the downstream: in order, each after its own time on the wire, *)
(* and a SYNC with the clock it was sent at.                                *)
InOrder ==
    /\ \A i \in DOMAIN flight : flight[i].at >= now /\ flight[i].at <= busy + delay
    /\ \A i, j \in DOMAIN flight : i < j => flight[i].at < flight[j].at

SyncRight ==
    \A i \in DOMAIN flight : flight[i].msg.kind = "SYNC" =>
        /\ flight[i].msg.stamp = TimestampAt(flight[i].sent)
        /\ flight[i].at >= flight[i].sent + SyncLen + delay

(* A modem that never started over hears no response before it has asked.   *)
Unanswered == \A i \in DOMAIN flight : flight[i].msg.kind # "RNG-RSP"
Fresh ==
    modem.phase = "scan" /\ reinits = 0 =>
        modem.tx = {} /\ upstream = {} /\ Unanswered

OwnersTyped == DOMAIN owners \subseteq Nat
TimersTyped == nextSync \in Nat /\ nextUcd \in Nat /\ nextMap \in Nat

TimebaseInv ==
    /\ Typed /\ OwnersTyped /\ TimersTyped
    /\ InOrder /\ SyncRight /\ Fresh /\ OffsetAgreed

LEMMA Lengths ==
    /\ SyncLen \in Nat \ {0} /\ UcdLen \in Nat \ {0} /\ MapLen \in Nat \ {0}
    /\ RspLen \in Nat \ {0} /\ TrafficLen \in Nat \ {0}
  BY TimebaseAssumption

LEMMA Later ==
    ASSUME NEW b \in Nat, NEW d \in Nat, NEW n \in Nat, NEW length \in Nat, b >= n + length
    PROVE  b + d \in Nat /\ b + d >= n /\ b + d >= n + length + d
  OBVIOUS

Still == UNCHANGED <<now, delay>>
Stamped(msg, length) ==
    msg.kind = "SYNC" => msg.stamp = TimestampAt(now) /\ length = SyncLen

(* A frame joins the end of the line.                                       *)
LEMMA SentOn ==
    ASSUME Typed, InOrder, SyncRight, Still,
           NEW msg \in Messages, NEW length \in Nat \ {0}, SendDownstream(msg, length),
           Stamped(msg, length)
    PROVE  /\ busy' \in Nat /\ flight' \in Seq(Frames) /\ InOrder' /\ SyncRight'
           /\ Corrections(flight') = Corrections(flight) + Correction(msg)
           /\ Unanswered /\ msg.kind # "RNG-RSP" => Unanswered'
<1>1. now \in Nat /\ busy \in Nat /\ delay \in Nat /\ flight \in Seq(Frames)
  BY DEF Typed
<1>2. PICK at \in Nat : at = busy' + delay /\ busy' \in Nat /\ busy' > busy
                        /\ busy' >= now + length /\ at >= now
  <2>1. busy' = AtLeast(busy, now) + length
    BY Zenon DEF SendDownstream
  <2>2. busy' \in Nat /\ busy' > busy /\ busy' >= now + length
    BY <1>1, <2>1 DEF AtLeast
  <2>3. length \in Nat
    OBVIOUS
  <2>4. busy' + delay \in Nat /\ busy' + delay >= now
    BY <1>1, <2>2, <2>3, Later, Zenon
  <2>5. QED
    BY <2>2, <2>4
<1> DEFINE f == [msg |-> msg, sent |-> now, at |-> at]
<1>3. f \in Frames /\ f.at = at /\ f.msg = msg /\ f.sent = now
  BY <1>1, <1>2 DEF Frames
<1>4. flight' = Append(flight, f)
  BY <1>2, Zenon DEF SendDownstream
<1> HIDE DEF f
<1> DEFINE N == Len(flight)
<1>5. /\ N \in Nat /\ flight' \in Seq(Frames) /\ DOMAIN flight = 1 .. N
      /\ DOMAIN flight' = 1 .. N + 1
      /\ \A i \in 1 .. N : flight'[i] = flight[i]
      /\ flight'[N + 1] = f
  <2>1. Len(flight') = N + 1 /\ flight' \in Seq(Frames)
    BY <1>1, <1>3, <1>4, AppendProperties
  <2>2. (\A i \in 1 .. N : flight'[i] = flight[i]) /\ flight'[N + 1] = f
    BY <1>1, <1>3, <1>4, AppendProperties
  <2>3. QED
    BY <1>1, <2>1, <2>2
<1> HIDE DEF N
<1>6. ASSUME NEW i \in 1 .. N
      PROVE  i \in DOMAIN flight /\ flight[i].at \in Nat /\ flight[i].at <= busy + delay
             /\ flight[i].at >= now
  <2>1. i \in DOMAIN flight /\ flight[i] \in Frames
    BY <1>1, <1>5
  <2>2. flight[i].at \in Nat
    BY <2>1 DEF Frames
  <2>3. QED
    BY <2>1, <2>2 DEF InOrder, Still
<1>7. InOrder'
  <2>1. ASSUME NEW i \in 1 .. N + 1
        PROVE  flight'[i].at >= now /\ flight'[i].at <= busy' + delay
    <3>1. CASE i = N + 1
      BY <1>2, <1>3, <1>5, <3>1
    <3>2. CASE i \in 1 .. N
      BY <1>1, <1>2, <1>5, <1>6, <3>2
    <3>3. QED
      BY <1>5, <3>1, <3>2
  <2>2. ASSUME NEW i \in 1 .. N + 1, NEW j \in 1 .. N + 1, i < j
        PROVE  flight'[i].at < flight'[j].at
    <3>1. i \in 1 .. N
      BY <1>5, <2>2
    <3>2. CASE j = N + 1
      BY <1>1, <1>2, <1>3, <1>5, <1>6, <3>1, <3>2
    <3>3. CASE j \in 1 .. N
      BY <1>5, <2>2, <3>1, <3>3 DEF InOrder
    <3>4. QED
      BY <1>5, <3>2, <3>3
  <2>3. QED
    BY <1>5, <2>1, <2>2 DEF InOrder, Still
<1>8. SyncRight'
  <2>1. ASSUME NEW i \in 1 .. N + 1, flight'[i].msg.kind = "SYNC"
        PROVE  /\ flight'[i].msg.stamp = TimestampAt(flight'[i].sent)
               /\ flight'[i].at >= flight'[i].sent + SyncLen + delay
    <3>1. CASE i = N + 1
      <4>1. msg.kind = "SYNC"
        BY <1>3, <1>5, <2>1, <3>1
      <4>2. at >= now + SyncLen + delay
        <5>1. length \in Nat /\ length = SyncLen
          BY <4>1 DEF Stamped
        <5>2. at = busy' + delay /\ busy' + delay >= now + length + delay
          BY <1>1, <1>2, <5>1, Later, Zenon
        <5>3. QED
          BY <5>1, <5>2, Zenon
      <4>3. QED
        BY <1>3, <1>5, <3>1, <4>1, <4>2 DEF Stamped
    <3>2. CASE i \in 1 .. N
      BY <1>5, <2>1, <3>2 DEF SyncRight
    <3>3. QED
      BY <1>5, <3>1, <3>2
  <2>2. QED
    BY <1>5, <2>1 DEF SyncRight, TimestampAt, Still
<1>9. Corrections(flight') = Corrections(flight) + Correction(msg)
  BY <1>1, <1>3, <1>4, CorrectionsAppend
<1>10. Unanswered /\ msg.kind # "RNG-RSP" => Unanswered'
  <2>1. ASSUME Unanswered, msg.kind # "RNG-RSP", NEW i \in 1 .. N + 1
        PROVE  flight'[i].msg.kind # "RNG-RSP"
    BY <1>3, <1>5, <2>1 DEF Unanswered
  <2>2. QED
    BY <1>5, <2>1 DEF Unanswered
<1>11. QED
  BY <1>2, <1>5, <1>7, <1>8, <1>9, <1>10

(* The first frame leaves it, to the modem or to nowhere.                   *)
LEMMA TakenOff ==
    ASSUME Typed, InOrder, SyncRight, Still, busy' = busy,
           flight # <<>>, flight' = Tail(flight)
    PROVE  /\ flight' \in Seq(Frames) /\ InOrder' /\ SyncRight'
           /\ Head(flight) \in Frames
           /\ Corrections(flight) = Correction(Head(flight).msg) + Corrections(flight')
           /\ Unanswered => Unanswered' /\ Head(flight).msg.kind # "RNG-RSP"
<1>1. flight \in Seq(Frames)
  BY DEF Typed
<1> DEFINE N == Len(flight)
<1>2. /\ N \in Nat \ {0} /\ DOMAIN flight = 1 .. N /\ DOMAIN flight' = 1 .. N - 1
      /\ flight' \in Seq(Frames) /\ Head(flight) = flight[1] /\ flight[1] \in Frames
      /\ \A i \in 1 .. N - 1 : flight'[i] = flight[i + 1]
  BY <1>1, HeadTailProperties
<1> HIDE DEF N
<1>3. ASSUME NEW i \in 1 .. N - 1 PROVE i + 1 \in 1 .. N /\ flight'[i] = flight[i + 1]
  BY <1>2
<1>4. InOrder'
  <2>1. ASSUME NEW i \in 1 .. N - 1
        PROVE  flight'[i].at >= now /\ flight'[i].at <= busy + delay
    BY <1>2, <1>3 DEF InOrder
  <2>2. ASSUME NEW i \in 1 .. N - 1, NEW j \in 1 .. N - 1, i < j
        PROVE  flight'[i].at < flight'[j].at
    <3>1. i + 1 < j + 1
      BY <1>2, <2>2
    <3>2. QED
      BY <1>2, <1>3, <3>1 DEF InOrder
  <2>3. QED
    BY <1>2, <2>1, <2>2 DEF InOrder, Still
<1>5. SyncRight'
  <2>1. ASSUME NEW i \in 1 .. N - 1, flight'[i].msg.kind = "SYNC"
        PROVE  /\ flight'[i].msg.stamp = TimestampAt(flight'[i].sent)
               /\ flight'[i].at >= flight'[i].sent + SyncLen + delay
    BY <1>2, <1>3, <2>1 DEF SyncRight
  <2>2. QED
    BY <1>2, <2>1 DEF SyncRight, TimestampAt, Still
<1>6. Corrections(flight) = Correction(Head(flight).msg) + Corrections(flight')
  BY <1>1, CorrectionsTail
<1>7. Unanswered => Unanswered' /\ Head(flight).msg.kind # "RNG-RSP"
  BY <1>2, <1>3 DEF Unanswered
<1>8. QED
  BY <1>2, <1>4, <1>5, <1>6, <1>7
-----------------------------------------------------------------------------
(* Every step keeps the invariant.                                          *)
ModemStill == UNCHANGED <<modem, upstream, losses, reinits>>
CmtsStill == UNCHANGED <<nextMinislot, record, owners>>

LEMMA FreshStays ==
    ASSUME Fresh, ModemStill, Unanswered => Unanswered' PROVE Fresh'
  BY DEF Fresh, ModemStill

(* A message that is no ranging response.                                   *)
LEMMA SentKeeps ==
    ASSUME TimebaseInv, Still, ModemStill, NEW msg \in Messages, NEW length \in Nat \ {0},
           SendDownstream(msg, length), Stamped(msg, length), msg.kind # "RNG-RSP",
           record' \in Records, record'.offset = record.offset, nextMinislot' \in Nat,
           OwnersTyped', TimersTyped'
    PROVE  TimebaseInv'
<1>1. /\ busy' \in Nat /\ flight' \in Seq(Frames) /\ InOrder' /\ SyncRight'
      /\ Corrections(flight') = Corrections(flight) + Correction(msg)
      /\ Unanswered => Unanswered'
  BY SentOn DEF TimebaseInv
<1>2. Typed'
  BY <1>1 DEF TimebaseInv, Typed, Still, ModemStill
<1>3. Fresh'
  BY <1>1, FreshStays DEF TimebaseInv
<1>4. OffsetAgreed'
  <2>1. Correction(msg) = 0
    BY DEF Correction
  <2>2. Corrections(flight) \in Int
    BY CorrectionsIs DEF TimebaseInv, Typed
  <2>3. Corrections(flight') = Corrections(flight)
    BY <1>1, <2>1, <2>2
  <2>4. QED
    BY <2>3 DEF TimebaseInv, OffsetAgreed, ModemStill
<1>5. QED
  BY <1>1, <1>2, <1>3, <1>4 DEF TimebaseInv

LEMMA SendSyncKeeps ==
    ASSUME TimebaseInv, SendSync PROVE TimebaseInv'
<1> DEFINE msg == [kind |-> "SYNC", stamp |-> TimestampAt(now)]
<1>1. Still /\ ModemStill /\ CmtsStill /\ SendDownstream(msg, SyncLen)
  BY Zenon DEF SendSync, Still, ModemStill, CmtsStill, scheduler, bounds
<1>2. TimestampAt(now) \in 0 .. Modulus - 1
  <2>1. now \in Int
    BY DEF TimebaseInv, Typed
  <2>2. QED
    BY <2>1, ClockTypes
<1>3. msg \in Messages /\ msg.kind = "SYNC" /\ Stamped(msg, SyncLen)
  BY <1>2 DEF Messages, Stamped
<1> HIDE DEF msg
<1>4. record' \in Records /\ record'.offset = record.offset /\ nextMinislot' \in Nat /\ OwnersTyped'
  BY <1>1 DEF TimebaseInv, Typed, CmtsStill, OwnersTyped
<1>5. TimersTyped'
  <2>1. nextUcd' = nextUcd /\ nextMap' = nextMap /\ nextSync' = now + SyncInterval
    BY Zenon DEF SendSync
  <2>2. now \in Nat /\ SyncInterval \in Nat
    BY TimebaseAssumption DEF TimebaseInv, Typed
  <2>3. now + SyncInterval \in Nat
    BY <2>2
  <2>4. QED
    BY <2>1, <2>3 DEF TimebaseInv, TimersTyped
<1>6. QED
  BY <1>1, <1>3, <1>4, <1>5, SentKeeps, Lengths

LEMMA SendUcdsKeeps ==
    ASSUME TimebaseInv, SendUcds PROVE TimebaseInv'
<1> DEFINE msg == [kind |-> "UCD"]
<1>1. Still /\ ModemStill /\ CmtsStill /\ SendDownstream(msg, UcdLen)
  BY Zenon DEF SendUcds, Still, ModemStill, CmtsStill, scheduler, bounds
<1>2. msg \in Messages /\ msg.kind = "UCD" /\ Stamped(msg, UcdLen)
  BY DEF Messages, Stamped
<1> HIDE DEF msg
<1>3. record' \in Records /\ record'.offset = record.offset /\ nextMinislot' \in Nat /\ OwnersTyped'
  BY <1>1 DEF TimebaseInv, Typed, CmtsStill, OwnersTyped
<1>4. TimersTyped'
  <2>1. nextSync' = nextSync /\ nextMap' = nextMap /\ nextUcd' = now + UcdInterval
    BY Zenon DEF SendUcds
  <2>2. now \in Nat /\ UcdInterval \in Nat
    BY TimebaseAssumption DEF TimebaseInv, Typed
  <2>3. now + UcdInterval \in Nat
    BY <2>2
  <2>4. QED
    BY <2>1, <2>3 DEF TimebaseInv, TimersTyped
<1>5. QED
  BY <1>1, <1>2, <1>3, <1>4, SentKeeps, Lengths

LEMMA SendTrafficKeeps ==
    ASSUME TimebaseInv, SendTraffic PROVE TimebaseInv'
<1> DEFINE msg == [kind |-> "PDU"]
<1>1. Still /\ ModemStill /\ CmtsStill /\ SendDownstream(msg, TrafficLen)
  BY Zenon DEF SendTraffic, Still, ModemStill, CmtsStill, scheduler
<1>2. msg \in Messages /\ msg.kind = "PDU" /\ Stamped(msg, TrafficLen)
  BY DEF Messages, Stamped
<1> HIDE DEF msg
<1>3. record' \in Records /\ record'.offset = record.offset /\ nextMinislot' \in Nat /\ OwnersTyped'
  BY <1>1 DEF TimebaseInv, Typed, CmtsStill, OwnersTyped
<1>4. TimersTyped'
  BY TimebaseAssumption DEF TimebaseInv, Typed, TimersTyped, SendTraffic, timers
<1>5. QED
  BY <1>1, <1>2, <1>3, <1>4, SentKeeps, Lengths

LEMMA OwnedTypes ==
    ASSUME NEW table, DOMAIN table \subseteq Nat, NEW start \in Nat, NEW length
    PROVE  DOMAIN Owned(table, start, length) \subseteq Nat
  BY DEF Owned

LEMMA SendMapKeeps ==
    ASSUME TimebaseInv, SendMap PROVE TimebaseInv'
<1> DEFINE start0   == AllocStart
           initial0 == now + Advance >= nextInitial /\ InitialNeed <= Span
           skipped0 == IF initial0 THEN InitialNeed ELSE 0
           station0 == /\ record.known
                       /\ record.due <= StartOf(start0 + Span)
                       /\ skipped0 + StationNeed <= Span
           end0     == skipped0 + (IF station0 THEN StationNeed ELSE 0)
           withIm0  == IF initial0 THEN Owned(owners, start0, InitialNeed) ELSE owners
           withSm0  == IF station0 THEN Owned(withIm0, start0 + skipped0, StationNeed)
                       ELSE withIm0
           table0   == IF end0 < Span THEN Owned(withSm0, start0 + end0, Span - end0)
                       ELSE withSm0
           due0     == StartOf(start0)
                           + IF record.ranging THEN RangingInterval ELSE OnlineInterval
           msg == [kind |-> "MAP", initial |-> initial0, station |-> station0,
                   start |-> start0, poll |-> start0 + skipped0]
<1>1. /\ Still /\ ModemStill /\ SendDownstream(msg, MapLen)
      /\ nextMinislot' = start0 + Span
      /\ record' = IF station0 THEN [record EXCEPT !.due = due0] ELSE record
      /\ owners' = Pruned(table0, start0)
  BY Zenon DEF SendMap, Still, ModemStill, bounds
<1>2. now \in Nat /\ nextMinislot \in Nat /\ record \in Records /\ DOMAIN owners \subseteq Nat
  BY DEF TimebaseInv, Typed, OwnersTyped
<1>3. start0 \in Nat
  <2>1. now + Advance \in Nat
    BY <1>2, TimebaseAssumption
  <2>2. NumberAt(now + Advance) \in Nat
    BY <2>1, ClockTypes
  <2>3. QED
    BY <1>2, <2>2 DEF AllocStart, AtLeast
<1>4. initial0 \in BOOLEAN /\ station0 \in BOOLEAN
  OBVIOUS
<1>5. skipped0 \in Nat
  <2> HIDE DEF initial0
  <2>1. QED
    BY ClockTypes
<1>6. end0 \in Nat
  <2> HIDE DEF skipped0, station0
  <2>1. QED
    BY <1>5, ClockTypes
<1>7. due0 \in Int
  <2>1. StartOf(start0) \in Nat
    BY <1>3, ClockTypes
  <2> HIDE DEF start0
  <2>2. QED
    BY <2>1, TimebaseAssumption
<1> HIDE DEF start0, initial0, skipped0, station0, end0, due0
<1>8. Span \in Nat
  BY TimebaseAssumption
<1>9. start0 + skipped0 \in Nat /\ start0 + end0 \in Nat /\ start0 + Span \in Nat
  BY <1>3, <1>5, <1>6, <1>8
<1>10. msg \in Messages /\ msg.kind = "MAP" /\ Stamped(msg, MapLen)
  BY <1>3, <1>4, <1>9 DEF Messages, Stamped
<1> HIDE DEF msg
<1>11. record' \in Records /\ record'.offset = record.offset
  <2>1. [record EXCEPT !.due = due0] \in Records
        /\ [record EXCEPT !.due = due0].offset = record.offset
    BY <1>2, <1>7 DEF Records
  <2>2. QED
    BY <1>1, <1>2, <2>1
<1>12. OwnersTyped'
  <2>1. DOMAIN withIm0 \subseteq Nat
    BY <1>2, <1>3, OwnedTypes
  <2>2. DOMAIN withSm0 \subseteq Nat
    <3> HIDE DEF withIm0
    <3>1. QED
      BY <1>9, <2>1, OwnedTypes
  <2>3. DOMAIN table0 \subseteq Nat
    <3> HIDE DEF withSm0
    <3>1. QED
      BY <1>9, <2>2, OwnedTypes
  <2> HIDE DEF table0
  <2>4. DOMAIN Pruned(table0, start0) \subseteq Nat
    BY <2>3 DEF Pruned
  <2>5. QED
    BY <1>1, <2>4 DEF OwnersTyped
<1>13. nextMinislot' \in Nat
  BY <1>1, <1>9
<1>14. TimersTyped'
  <2>1. nextSync' = nextSync /\ nextUcd' = nextUcd /\ nextMap' = now + Span * Slot
    BY Zenon DEF SendMap
  <2>2. Span * Slot \in Nat
    BY TimebaseAssumption
  <2>3. now + Span * Slot \in Nat
    BY <1>2, <2>2
  <2>4. QED
    BY <2>1, <2>3 DEF TimebaseInv, TimersTyped
<1>15. QED
  BY <1>1, <1>10, <1>11, <1>12, <1>13, <1>14, SentKeeps, Lengths
(* What the CMTS measures is what the modem is told.                        *)
LEMMA OnUpstreamBurstKeeps ==
    ASSUME TimebaseInv, OnUpstreamBurst PROVE TimebaseInv'
<1>0. TimersTyped'
  BY Zenon DEF OnUpstreamBurst, timers, TimebaseInv, TimersTyped
<1>1. PICK burst \in upstream :
          /\ upstream' = upstream \ {burst}
          /\ \/ /\ SendDownstream([kind |-> "RNG-RSP", adjust |-> TimingAdjust(burst),
                       success |-> ~burst.initial /\ Abs(TimingAdjust(burst)) <= Tolerance],
                       RspLen)
                /\ record' = [known |-> TRUE,
                        ranging |-> record.ranging
                            /\ ~(~burst.initial /\ Abs(TimingAdjust(burst)) <= Tolerance),
                        due |-> IF ~burst.initial /\ Abs(TimingAdjust(burst)) <= Tolerance
                                THEN now + OnlineInterval
                                ELSE IF record.known THEN record.due ELSE now,
                        offset |-> record.offset + TimingAdjust(burst)]
             \/ UNCHANGED <<busy, flight, record>>
          /\ Still /\ UNCHANGED <<nextMinislot, owners, modem, losses, reinits>>
  BY Zenon DEF OnUpstreamBurst, Still, bounds
<1>2. Typed /\ OwnersTyped /\ InOrder /\ SyncRight /\ Fresh /\ OffsetAgreed
  BY DEF TimebaseInv
<1>3. now \in Nat /\ delay \in Nat /\ record \in Records /\ burst \in Arriving
  BY <1>2 DEF Typed
<1>4. UNCHANGED <<nextMinislot, owners, modem, losses, reinits>>
  BY <1>1
<1>5. /\ upstream' \in SUBSET Arriving
      /\ OwnersTyped'
      /\ modem.phase # "scan" \/ reinits # 0
  BY <1>1, <1>2, <1>4 DEF Typed, OwnersTyped, Fresh
<1>6. Fresh' /\ OwnersTyped'
  BY <1>2, <1>4, <1>5, <1>1 DEF Fresh, OwnersTyped
<1>7. CASE UNCHANGED <<busy, flight, record>>
  <2>1. Typed' /\ InOrder' /\ OffsetAgreed'
    BY <1>1, <1>2, <1>4, <1>5, <1>7 DEF Typed, InOrder, OffsetAgreed, Still
  <2>2. SyncRight'
    BY <1>1, <1>2, <1>7 DEF SyncRight, Still, TimestampAt
  <2>3. QED
    BY <1>0, <1>6, <2>1, <2>2 DEF TimebaseInv
<1>8. ASSUME NEW adjust \in Int, NEW success \in BOOLEAN,
             SendDownstream([kind |-> "RNG-RSP", adjust |-> adjust, success |-> success],
                            RspLen),
             record' = [known |-> TRUE, ranging |-> record.ranging /\ ~success,
                        due |-> IF success THEN now + OnlineInterval
                                ELSE IF record.known THEN record.due ELSE now,
                        offset |-> record.offset + adjust]
      PROVE  TimebaseInv'
  <2> DEFINE msg == [kind |-> "RNG-RSP", adjust |-> adjust, success |-> success]
  <2>1. msg \in Messages /\ Stamped(msg, RspLen) /\ Correction(msg) = adjust
    BY DEF Messages, Stamped, Correction
  <2>2. SendDownstream(msg, RspLen)
    BY <1>8
  <2> HIDE DEF msg
  <2>3. /\ busy' \in Nat /\ flight' \in Seq(Frames) /\ InOrder' /\ SyncRight'
        /\ Corrections(flight') = Corrections(flight) + Correction(msg)
    BY <1>1, <1>2, <2>1, <2>2, SentOn, Lengths
  <2>4. record' \in Records /\ record'.offset = record.offset + adjust
    <3>1. PICK r \in BOOLEAN : r = (record.ranging /\ ~success)
      OBVIOUS
    <3>2. PICK d \in Int : d = IF success THEN now + OnlineInterval
                               ELSE IF record.known THEN record.due ELSE now
      BY <1>3, TimebaseAssumption DEF Records
    <3>3. PICK o \in Int : o = record.offset + adjust
      BY <1>3 DEF Records
    <3>4. record' = [known |-> TRUE, ranging |-> r, due |-> d, offset |-> o]
      BY <1>8, <3>1, <3>2, <3>3, Zenon
    <3>5. record' \in Records /\ record'.offset = o
      BY <3>4 DEF Records
    <3>6. QED
      BY <3>3, <3>5
  <2>5. Typed'
    BY <1>1, <1>2, <1>4, <1>5, <2>3, <2>4 DEF Typed, Still
  <2>6. OffsetAgreed'
    <3>1. Corrections(flight) \in Int /\ record.offset \in Int /\ modem.offset \in Int
      <4>1. flight \in Seq(Frames)
        BY <1>2 DEF Typed
      <4>2. PICK sum \in [0 .. Len(flight) -> Int] : Corrections(flight) = sum[Len(flight)]
        BY <4>1, CorrectionsIs
      <4>3. Len(flight) \in 0 .. Len(flight)
        BY <4>1
      <4>4. Corrections(flight) \in Int
        BY <4>2, <4>3
      <4>5. record.offset \in Int /\ modem.offset \in Int
        BY <1>2 DEF Typed, Records, Modems
      <4>6. QED
        BY <4>4, <4>5
    <3>2. ASSUME losses' = 0, reinits' = 0
          PROVE  record'.offset = modem'.offset + Corrections(flight')
      <4>1. record.offset = modem.offset + Corrections(flight)
        BY <1>2, <1>4, <3>2 DEF OffsetAgreed
      <4>2. modem' = modem
        BY <1>4
      <4>3. QED
        BY <2>1, <2>3, <2>4, <3>1, <4>1, <4>2
    <3>3. QED
      BY <3>2 DEF OffsetAgreed
  <2>7. QED
    BY <1>0, <1>6, <2>3, <2>5, <2>6 DEF TimebaseInv
<1>9. TimingAdjust(burst) \in Int
  <2>1. burst.start \in Nat /\ burst.first \in Nat
    BY <1>3 DEF Arriving
  <2>2. StartOf(burst.first) \in Nat
    BY <2>1, ClockTypes
  <2>3. QED
    BY <2>1, <2>2 DEF TimingAdjust
<1>10. (~burst.initial /\ Abs(TimingAdjust(burst)) <= Tolerance) \in BOOLEAN
  BY Zenon
<1>11. QED
  BY <1>1, <1>7, <1>8, <1>9, <1>10, Zenon

-----------------------------------------------------------------------------
(* The modem's steps: its offset moves only by a correction that arrives.   *)
CmtsQuiet ==
    UNCHANGED <<now, nextSync, nextUcd, nextMap, busy, delay, nextMinislot, record, owners,
                upstream>>

(* A step of the modem that leaves the downstream alone.                    *)
LEMMA ModemKeeps ==
    ASSUME TimebaseInv, CmtsQuiet, flight' = flight, losses' = losses, reinits' = reinits,
           modem' \in Modems, modem'.offset = modem.offset,
           modem'.phase = "scan" => modem.phase = "scan" /\ modem'.tx \subseteq modem.tx
    PROVE  TimebaseInv'
<1>1. Typed' /\ OwnersTyped' /\ TimersTyped' /\ OffsetAgreed'
  BY DEF TimebaseInv, Typed, OwnersTyped, TimersTyped, OffsetAgreed, CmtsQuiet
<1>2. InOrder' /\ SyncRight'
  BY DEF TimebaseInv, InOrder, SyncRight, CmtsQuiet, TimestampAt
<1>3. Fresh'
  BY DEF TimebaseInv, Fresh, CmtsQuiet, Unanswered
<1>4. QED
  BY <1>1, <1>2, <1>3 DEF TimebaseInv

LEMMA ReceiveKeeps ==
    ASSUME TimebaseInv, Receive PROVE TimebaseInv'
<1>1. /\ flight # <<>> /\ flight' = Tail(flight) /\ CmtsQuiet
      /\ losses' = losses /\ reinits' = reinits
  BY Zenon DEF Receive, CmtsQuiet, timers, scheduler, bounds
<1>2. Typed /\ OwnersTyped /\ TimersTyped /\ InOrder /\ SyncRight /\ Fresh /\ OffsetAgreed
  BY DEF TimebaseInv
<1>3. /\ flight' \in Seq(Frames) /\ InOrder' /\ SyncRight'
      /\ Head(flight) \in Frames
      /\ Corrections(flight) = Correction(Head(flight).msg) + Corrections(flight')
      /\ Unanswered => Unanswered' /\ Head(flight).msg.kind # "RNG-RSP"
  BY <1>1, <1>2, TakenOff DEF CmtsQuiet, Still
<1>4. PICK frame \in Messages : frame = Head(flight).msg
  BY <1>3 DEF Frames
<1>5. now \in Nat /\ modem \in Modems
  BY <1>2 DEF Typed
<1>6. /\ modem' \in Modems
      /\ modem'.phase = "scan" => modem.phase = "scan" /\ modem' = modem
      /\ modem.phase # "scan" => modem'.offset = modem.offset + Correction(frame)
      /\ modem.phase = "scan" => modem' = modem
  <2>0. modem.offset \in Int
    BY <1>5 DEF Modems
  <2>1. CASE modem.phase = "scan"
    <3>1. modem' = modem
      BY <2>1 DEF Receive
    <3>2. QED
      BY <1>5, <2>1, <3>1
  <2>2. CASE modem.phase # "scan" /\ frame.kind = "SYNC"
    <3>1. modem' = OnSync(modem, frame)
      BY <1>4, <2>2 DEF Receive
    <3>2. Correction(frame) = 0
      BY <2>2 DEF Correction
    <3>3. delay \in Nat
      BY DEF TimebaseInv, Typed
    <3>4. QED
      BY <1>5, <2>0, <2>2, <3>1, <3>2, <3>3, SyncTypes
  <2>3. CASE modem.phase # "scan" /\ frame.kind = "UCD"
    <3>1. modem' = OnUcd(modem)
      BY <1>4, <2>3 DEF Receive
    <3>2. Correction(frame) = 0
      BY <2>3 DEF Correction
    <3>3. QED
      BY <1>5, <2>0, <2>3, <3>1, <3>2, UcdTypes
  <2>4. CASE modem.phase # "scan" /\ frame.kind = "MAP"
    <3>1. PICK takes \in BOOLEAN, jitter \in -Jitter .. Jitter :
              modem' = OnMap(modem, frame, takes, jitter)
      BY <1>4, <2>4 DEF Receive
    <3>2. jitter \in Int
      BY <3>1, TimebaseAssumption
    <3>3. Correction(frame) = 0
      BY <2>4 DEF Correction
    <3>4. QED
      BY <1>5, <2>0, <2>4, <3>1, <3>2, <3>3, MapTypes
  <2>5. CASE modem.phase # "scan" /\ frame.kind = "RNG-RSP"
    <3>1. modem' = OnRngRsp(modem, frame)
      BY <1>4, <2>5 DEF Receive
    <3>2. Correction(frame) = frame.adjust
      BY <2>5 DEF Correction
    <3>3. QED
      BY <1>5, <2>0, <2>5, <3>1, <3>2, RngRspTypes
  <2>6. CASE modem.phase # "scan" /\ frame.kind = "PDU"
    <3>1. modem' = modem
      BY <1>4, <2>6 DEF Receive
    <3>2. Correction(frame) = 0
      BY <2>6 DEF Correction
    <3>3. QED
      BY <1>5, <2>0, <2>6, <3>1, <3>2
  <2>7. frame.kind \in {"SYNC", "UCD", "PDU", "MAP", "RNG-RSP"}
    BY DEF Messages
  <2>8. QED
    BY <2>1, <2>2, <2>3, <2>4, <2>5, <2>6, <2>7
<1>7. Typed'
  BY <1>1, <1>2, <1>3, <1>6 DEF Typed, CmtsQuiet
<1>8. OwnersTyped' /\ TimersTyped'
  BY <1>1, <1>2 DEF OwnersTyped, TimersTyped, CmtsQuiet
<1>9. Fresh'
  BY <1>1, <1>2, <1>3, <1>6 DEF Fresh, CmtsQuiet
<1>10. OffsetAgreed'
  <2>1. Corrections(flight) \in Int /\ Corrections(flight') \in Int
        /\ Correction(frame) \in Int /\ modem.offset \in Int
    <3>1. ASSUME NEW frames \in Seq(Frames) PROVE Corrections(frames) \in Int
      BY CorrectionsIs
    <3>2. Correction(frame) \in Int
      BY <1>3, <1>4, CorrectionTypes
    <3>3. flight \in Seq(Frames) /\ modem.offset \in Int
      BY <1>2, <1>5 DEF Typed, Modems
    <3>4. QED
      BY <1>3, <3>1, <3>2, <3>3
  <2>2. ASSUME losses' = 0, reinits' = 0
        PROVE  record'.offset = modem'.offset + Corrections(flight')
    <3>1. record.offset = modem.offset + Corrections(flight) /\ record' = record
      BY <1>1, <1>2, <2>2 DEF OffsetAgreed, CmtsQuiet
    <3>2. modem'.offset = modem.offset + Correction(frame)
      <4>1. CASE modem.phase = "scan"
        <5>1. Head(flight).msg.kind # "RNG-RSP" /\ modem' = modem
          BY <1>1, <1>2, <1>3, <1>6, <2>2, <4>1 DEF Fresh
        <5>2. Correction(frame) = 0
          BY <1>4, <5>1 DEF Correction
        <5>3. QED
          BY <2>1, <5>1, <5>2
      <4>2. QED
        BY <1>6, <4>1
    <3>3. QED
      BY <1>3, <1>4, <2>1, <3>1, <3>2
  <2>3. QED
    BY <2>2 DEF OffsetAgreed
<1>11. QED
  BY <1>3, <1>7, <1>8, <1>9, <1>10 DEF TimebaseInv
LEMMA LoseKeeps ==
    ASSUME TimebaseInv, Lose PROVE TimebaseInv'
<1>1. /\ flight # <<>> /\ flight' = Tail(flight) /\ CmtsQuiet
      /\ losses' = losses + 1 /\ reinits' = reinits /\ modem' = modem
  BY Zenon DEF Lose, CmtsQuiet, timers, scheduler
<1>2. Typed /\ OwnersTyped /\ TimersTyped /\ InOrder /\ SyncRight /\ Fresh
  BY DEF TimebaseInv
<1>3. /\ flight' \in Seq(Frames) /\ InOrder' /\ SyncRight'
      /\ Unanswered => Unanswered'
  BY <1>1, <1>2, TakenOff DEF CmtsQuiet, Still
<1>4. Typed'
  BY <1>1, <1>2, <1>3 DEF Typed, CmtsQuiet
<1>5. OwnersTyped' /\ TimersTyped' /\ Fresh'
  BY <1>1, <1>2, <1>3 DEF OwnersTyped, TimersTyped, Fresh, CmtsQuiet
<1>6. OffsetAgreed'
  <2>1. losses' # 0
    BY <1>1, <1>2 DEF Typed
  <2>2. QED
    BY <2>1 DEF OffsetAgreed
<1>7. QED
  BY <1>3, <1>4, <1>5, <1>6 DEF TimebaseInv

LEMMA LockKeeps ==
    ASSUME TimebaseInv, Lock PROVE TimebaseInv'
<1>1. /\ CmtsQuiet /\ flight' = flight /\ losses' = losses /\ reinits' = reinits
      /\ modem' = [modem EXCEPT !.phase = "sync-wait"]
  BY Zenon DEF Lock, CmtsQuiet, timers, scheduler, bounds
<1>2. modem' \in Modems /\ modem'.offset = modem.offset /\ modem'.phase = "sync-wait"
  BY <1>1 DEF TimebaseInv, Typed, Modems, Phases
<1>3. QED
  BY <1>1, <1>2, ModemKeeps

LEMMA T3ExpiredKeeps ==
    ASSUME TimebaseInv, T3Expired PROVE TimebaseInv'
<1>1. PICK p : p = IF modem.phase = "ranged" THEN modem.phase ELSE "ranging-wait"
  OBVIOUS
<1>2. /\ CmtsQuiet /\ flight' = flight /\ losses' = losses /\ reinits' = reinits
      /\ modem' = [modem EXCEPT !.t3 = 0, !.phase = p]
  BY <1>1, Zenon DEF T3Expired, CmtsQuiet, timers, scheduler, bounds
<1>3. p \in Phases /\ p # "scan"
  BY <1>1 DEF Phases
<1>4. modem' \in Modems /\ modem'.offset = modem.offset /\ modem'.phase = p
  BY <1>2, <1>3 DEF TimebaseInv, Typed, Modems
<1>5. QED
  BY <1>2, <1>3, <1>4, ModemKeeps

LEMMA ReinitializeKeeps ==
    ASSUME TimebaseInv, Reinitialize PROVE TimebaseInv'
<1>1. /\ CmtsQuiet /\ flight' = flight /\ losses' = losses /\ reinits' = reinits + 1
      /\ modem' = [Scanning EXCEPT !.tx = modem.tx, !.missed = modem.missed,
                                   !.waited = modem.waited]
  BY Zenon DEF Reinitialize, CmtsQuiet, timers, scheduler
<1>2. Typed /\ OwnersTyped /\ TimersTyped /\ InOrder /\ SyncRight
  BY DEF TimebaseInv
<1>3. modem' \in Modems
  <2>1. Scanning \in Modems
    <3>1. NoClock \in Int
      BY TimebaseAssumption DEF NoClock
    <3>2. QED
      BY <3>1 DEF Scanning, Modems, Phases
  <2>2. /\ modem.tx \in SUBSET Bursts /\ modem.missed \in BOOLEAN
        /\ modem.waited \in Nat
    BY <1>2 DEF Typed, Modems
  <2>3. QED
    BY <1>1, <2>1, <2>2 DEF Modems
<1>4. reinits' \in Nat /\ reinits' # 0
  BY <1>1, <1>2 DEF Typed
<1>5. Typed' /\ OwnersTyped' /\ TimersTyped' /\ InOrder'
  BY <1>1, <1>2, <1>3, <1>4 DEF Typed, OwnersTyped, TimersTyped, InOrder, CmtsQuiet
<1>6. SyncRight'
  BY <1>1, <1>2 DEF SyncRight, CmtsQuiet, TimestampAt
<1>7. Fresh' /\ OffsetAgreed'
  BY <1>4 DEF Fresh, OffsetAgreed
<1>8. QED
  BY <1>5, <1>6, <1>7 DEF TimebaseInv

LEMMA TransmitKeeps ==
    ASSUME TimebaseInv, Transmit PROVE TimebaseInv'
<1>1. PICK tx \in modem.tx :
          /\ modem' = [modem EXCEPT !.tx = modem.tx \ {tx}]
          /\ upstream' = IF modem.ucd
                         THEN upstream \union {[start |-> now + delay,
                                  first |-> tx.first, initial |-> tx.initial]}
                         ELSE upstream
          /\ UNCHANGED <<now, nextSync, nextUcd, nextMap, busy, delay, flight, nextMinislot,
                        record, owners, losses, reinits>>
  BY Zenon DEF Transmit, timers, scheduler, bounds
<1>2. Typed /\ OwnersTyped /\ TimersTyped /\ InOrder /\ SyncRight /\ Fresh /\ OffsetAgreed
  BY DEF TimebaseInv
<1>3. modem \in Modems /\ upstream \in SUBSET Arriving /\ tx \in Bursts
  BY <1>2 DEF Typed, Modems
<1>4. PICK start \in Nat : start = now + delay
  BY <1>2 DEF Typed
<1>5. [start |-> start, first |-> tx.first, initial |-> tx.initial] \in Arriving
  BY <1>3 DEF Bursts, Arriving
<1>6. upstream' \in SUBSET Arriving
  BY <1>1, <1>3, <1>4, <1>5
<1>7. PICK X \in SUBSET Bursts : X = modem.tx \ {tx}
  BY <1>3 DEF Modems
<1>8. modem' = [modem EXCEPT !.tx = X]
  BY <1>1, <1>7
<1>9. modem' \in Modems /\ modem'.offset = modem.offset /\ modem'.phase = modem.phase
  BY <1>3, <1>8 DEF Modems
<1>10. UNCHANGED <<now, nextSync, nextUcd, nextMap, busy, delay, flight, nextMinislot,
                  record, owners, losses, reinits>>
  BY <1>1
<1>11. Typed' /\ OwnersTyped' /\ TimersTyped' /\ InOrder' /\ OffsetAgreed'
  BY <1>2, <1>6, <1>9, <1>10 DEF Typed, OwnersTyped, TimersTyped, InOrder, OffsetAgreed
<1>12. SyncRight'
  BY <1>2, <1>10 DEF SyncRight, TimestampAt
<1>13. Fresh'
  <2>1. modem.phase # "scan" \/ reinits # 0
    BY <1>1, <1>2 DEF Fresh
  <2>2. QED
    BY <1>9, <1>10, <2>1 DEF Fresh
<1>14. QED
  BY <1>11, <1>12, <1>13 DEF TimebaseInv

LEMMA TickKeeps ==
    ASSUME TimebaseInv, Tick PROVE TimebaseInv'
<1>1. /\ now' \in NextTimes /\ \A t \in NextTimes : now' <= t
      /\ UNCHANGED <<nextSync, nextUcd, nextMap, busy, flight, nextMinislot, record, owners, delay, modem,
                     upstream, losses, reinits>>
  BY Zenon DEF Tick, timers, scheduler, bounds
<1>2. Typed /\ OwnersTyped /\ TimersTyped /\ InOrder /\ SyncRight /\ Fresh /\ OffsetAgreed
  BY DEF TimebaseInv
<1>3. UNCHANGED <<nextSync, nextUcd, nextMap, busy, flight, nextMinislot, record, owners, delay, modem,
                  upstream, losses, reinits>>
  BY <1>1
<1>4. now' \in Nat
  <2>1. nextSync \in Nat /\ nextUcd \in Nat /\ nextMap \in Nat
    BY <1>2 DEF TimersTyped
  <2>2. \A i \in DOMAIN flight : flight[i].at \in Nat
    <3>1. ASSUME NEW i \in DOMAIN flight PROVE flight[i] \in Frames
      BY <1>2 DEF Typed
    <3>2. QED
      BY <3>1 DEF Frames
  <2>3. \A tx \in modem.tx : tx.at \in Nat
    BY <1>2 DEF Typed, Modems, Bursts
  <2>4. ASSUME NEW b \in upstream PROVE b.start + Burst \in Nat
    <3>1. b.start \in Nat
      BY <1>2 DEF Typed, Arriving
    <3>2. QED
      BY <3>1, TimebaseAssumption
  <2>5. modem.t3 \in Nat
    BY <1>2 DEF Typed, Modems
  <2>6. QED
    BY <1>1, <2>1, <2>2, <2>3, <2>4, <2>5 DEF NextTimes
<1>5. ASSUME NEW i \in DOMAIN flight PROVE now' <= flight[i].at
  BY <1>1 DEF NextTimes
<1>6. Typed' /\ OwnersTyped' /\ TimersTyped' /\ OffsetAgreed'
  BY <1>2, <1>3, <1>4 DEF Typed, OwnersTyped, TimersTyped, OffsetAgreed
<1>7. InOrder'
  <2>1. \A i \in DOMAIN flight : flight[i].at \in Nat
    <3>1. ASSUME NEW i \in DOMAIN flight PROVE flight[i] \in Frames
      BY <1>2 DEF Typed
    <3>2. QED
      BY <3>1 DEF Frames
  <2>2. \A i \in DOMAIN flight : flight[i].at >= now'
    BY <1>4, <1>5, <2>1
  <2>3. QED
    BY <1>2, <1>3, <2>2 DEF InOrder
<1>8. SyncRight'
  BY <1>2, <1>3 DEF SyncRight, TimestampAt
<1>9. Fresh'
  BY <1>2, <1>3 DEF Fresh, Unanswered
<1>10. QED
  BY <1>6, <1>7, <1>8, <1>9 DEF TimebaseInv
-----------------------------------------------------------------------------
LEMMA TimebaseInit == Init => TimebaseInv
<1> SUFFICES ASSUME Init PROVE TimebaseInv
  OBVIOUS
<1>1. /\ now = 0 /\ busy = 0 /\ flight = <<>> /\ nextMinislot = 0 /\ record = Unknown
      /\ modem = Scanning /\ upstream = {} /\ losses = 0 /\ reinits = 0 /\ owners = <<>>
      /\ nextSync = 0 /\ nextUcd = 1 /\ nextMap = 2 /\ delay \in Delays
  BY DEF Init
<1>2. delay \in Nat
  BY <1>1, TimebaseAssumption
<1>3. Scanning \in Modems /\ Scanning.offset = 0 /\ Scanning.tx = {}
  <2>1. NoClock \in Int
    BY TimebaseAssumption DEF NoClock
  <2>2. QED
    BY <2>1 DEF Scanning, Modems, Phases
<1>4. Unknown \in Records /\ Unknown.offset = 0
  BY DEF Unknown, Records
<1>5. flight \in Seq(Frames) /\ DOMAIN flight = {} /\ DOMAIN owners = {}
  BY <1>1
<1>6. Typed /\ OwnersTyped /\ TimersTyped
  BY <1>1, <1>2, <1>3, <1>4, <1>5 DEF Typed, OwnersTyped, TimersTyped
<1>7. InOrder /\ SyncRight /\ Fresh
  BY <1>1, <1>3, <1>5 DEF InOrder, SyncRight, Fresh, Unanswered
<1>8. OffsetAgreed
  BY <1>1, <1>3, <1>4, CorrectionsOfNone DEF OffsetAgreed
<1>9. QED
  BY <1>6, <1>7, <1>8 DEF TimebaseInv

LEMMA TimebaseNext == TimebaseInv /\ [Next]_vars => TimebaseInv'
<1> SUFFICES ASSUME TimebaseInv, [Next]_vars PROVE TimebaseInv'
  OBVIOUS
<1>1. CASE Next
  BY <1>1, SendSyncKeeps, SendUcdsKeeps, SendMapKeeps, SendTrafficKeeps, ReceiveKeeps,
     LoseKeeps, LockKeeps, T3ExpiredKeeps, ReinitializeKeeps, TransmitKeeps,
     OnUpstreamBurstKeeps, TickKeeps, Zenon DEF Next
<1>2. CASE UNCHANGED vars
  <2>1. TimebaseInv /\ UNCHANGED vars => TimebaseInv'
    BY DEF vars, timers, scheduler, bounds, TimebaseInv, Typed, OwnersTyped, TimersTyped,
           InOrder, SyncRight, Fresh, Unanswered, OffsetAgreed, TimestampAt
  <2>2. QED
    BY <1>2, <2>1
<1>3. QED
  BY <1>1, <1>2

LEMMA TimebaseCorrect == Spec => []TimebaseInv
<1>1. QED
  BY TimebaseInit, TimebaseNext, PTL DEF Spec

(* Every attribute keeps its type and frames arrive in the order they were  *)
(* sent, each after its own time on the wire, whatever is queued.           *)
THEOREM TypeCorrect == Spec => []TypeOK
<1>1. TimebaseInv => TypeOK
  <2> SUFFICES ASSUME TimebaseInv PROVE TypeOK
    OBVIOUS
  <2>1. /\ modem.phase \in Phases /\ modem.clock \in Int /\ modem.offset \in Int
        /\ {modem.ucd, modem.sid, modem.missed} \subseteq BOOLEAN
        /\ {modem.t3, modem.waited} \subseteq Nat /\ modem.tx \subseteq Bursts
    BY DEF TimebaseInv, Typed, Modems
  <2>2. upstream \subseteq Arriving /\ DOMAIN owners \subseteq Nat
    BY DEF TimebaseInv, Typed, OwnersTyped
  <2>3. \A i \in DOMAIN flight : flight[i] \in Frames
    BY DEF TimebaseInv, Typed
  <2>4. /\ \A i \in DOMAIN flight : flight[i].at >= now
        /\ \A i, j \in DOMAIN flight : i < j => flight[i].at < flight[j].at
    BY DEF TimebaseInv, InOrder
  <2>5. QED
    BY <2>1, <2>2, <2>3, <2>4 DEF TypeOK, Bursts, Arriving
<1>2. QED
  BY <1>1, TimebaseCorrect, PTL

(* What the CMTS has measured of a modem, added up, is what the modem has   *)
(* applied and what is still on its way to it, as long as no frame was lost *)
(* and the modem never started over: ranging responses may queue, cross a   *)
(* burst that asks for one more, or arrive after T3 (_on_ranging_burst,     *)
(* _on_rng_rsp).                                                            *)
THEOREM OffsetAgreedCorrect == Spec => []OffsetAgreed
<1>1. TimebaseInv => OffsetAgreed
  BY DEF TimebaseInv
<1>2. QED
  BY <1>1, TimebaseCorrect, PTL
-----------------------------------------------------------------------------
(* The arithmetic of a SYNC's stamp, which counts modulo the timestamp.     *)
LEMMA Residue ==
    ASSUME NEW n \in Int, n > 0, NEW q \in Int, NEW r \in 0 .. n - 1, NEW a \in Int,
           a = n * q + r
    PROVE  a % n = r
  BY SMTT(30)

LEMMA ModulusPositive == Modulus \in Int /\ Modulus > 0 /\ Modulus \in Nat \ {0}
  BY TimebaseAssumption

(* A difference of less than half a turn comes back with its sign.          *)
LEMMA DeltaIs ==
    ASSUME NEW a \in Int, NEW b \in Int, NEW v \in Int, NEW k \in Int,
           a - b = v + Modulus * k, -Modulus < 2 * v, 2 * v + 2 <= Modulus
    PROVE  TimestampDelta(a, b) = v
<1>1. PICK n \in Int : n = Modulus /\ n > 0
  BY ModulusPositive
<1>2. PICK x \in Int : x = a - b
  OBVIOUS
<1>3. PICK half \in Int : half = n \div 2 /\ n - 1 <= 2 * half /\ 2 * half <= n
  BY <1>1
<1>4. TimestampDelta(a, b) = IF x % n >= half THEN (x % n) - n ELSE x % n
  BY <1>1, <1>2, <1>3, Zenon DEF TimestampDelta
<1>5. x = n * k + v
  BY <1>1, <1>2
<1>6. -n < 2 * v /\ 2 * v + 2 <= n
  BY <1>1
<1>7. CASE v >= 0
  <2>1. v \in 0 .. n - 1
    BY <1>1, <1>6, <1>7
  <2>2. x % n = v
    BY <1>1, <1>2, <1>5, <2>1, Residue
  <2>3. ~(v >= half)
    BY <1>1, <1>3, <1>6
  <2>4. QED
    BY <1>4, <2>2, <2>3
<1>8. CASE v < 0
  <2>1. v + n \in 0 .. n - 1
    BY <1>1, <1>6, <1>8
  <2>2. k - 1 \in Int /\ x = n * (k - 1) + (v + n)
    BY <1>1, <1>5
  <2>3. x % n = v + n
    <3>1. ASSUME NEW m \in Int, NEW r \in 0 .. n - 1, x = n * m + r PROVE x % n = r
      BY <1>1, <1>2, <3>1, Residue
    <3>2. QED
      BY <2>1, <2>2, <3>1, Zenon
  <2>4. v + n >= half
    BY <1>1, <1>3, <1>6
  <2>5. QED
    BY <1>1, <1>4, <2>3, <2>4
<1>9. QED
  BY <1>7, <1>8

LEMMA StampIs ==
    ASSUME NEW y \in Int PROVE \E q \in Int : TimestampAt(y) = y - Modulus * q
<1>1. y \div Modulus \in Int /\ y % Modulus = y - Modulus * (y \div Modulus)
  BY ModulusPositive, Divided
<1>2. QED
  BY <1>1 DEF TimestampAt

(* A clock c that lags by the delay d and the wait w0 hears a stamp of the  *)
(* time t after the wait w: from then on it lags by d and w.                *)
Hears(c, d, w0, k, at, t, w) ==
    /\ c \in Int /\ d \in Nat /\ t \in Nat /\ k \in Int /\ at \in Int
    /\ w0 \in 0 .. WaitBound /\ w \in 0 .. WaitBound
    /\ c + d + w0 = Modulus * k /\ at = t + SyncLen + d + w

LEMMA Corrected ==
    ASSUME NEW c, NEW d, NEW w0, NEW k, NEW at, NEW t, NEW w, Hears(c, d, w0, k, at, t, w)
    PROVE  TimestampDelta(TimestampAt(t), TimestampAt(at + c)) = w0 - w - SyncLen
<1>0. /\ c \in Int /\ d \in Nat /\ t \in Nat /\ k \in Int /\ at \in Int
      /\ w0 \in 0 .. WaitBound /\ w \in 0 .. WaitBound
      /\ c + d + w0 = Modulus * k /\ at = t + SyncLen + d + w
  BY DEF Hears
<1>1. WaitBound \in Nat /\ 2 * (WaitBound + SyncLen) < Modulus /\ SyncLen \in Nat \ {0}
  BY <1>0, WaitAssumption, Lengths DEF WaitBound
<1>2. w0 \in Int /\ w \in Int /\ 0 <= w0 /\ w0 <= WaitBound /\ 0 <= w /\ w <= WaitBound
  BY <1>0, <1>1
<1>3. PICK p \in Int : p = Modulus * k
  BY <1>0, ModulusPositive
<1>4. PICK q1 \in Int : TimestampAt(t) = t - Modulus * q1
  BY <1>0, StampIs
<1>5. PICK q2 \in Int : TimestampAt(at + c) = (at + c) - Modulus * q2
  <2>1. at + c \in Int
    BY <1>0
  <2>2. QED
    BY <2>1, StampIs, Zenon
<1>6. PICK v \in Int : v = w0 - w - SyncLen
  BY <1>0, <1>1, <1>2
<1>7. PICK p1 \in Int, p2 \in Int : p1 = Modulus * q1 /\ p2 = Modulus * q2
  BY <1>0, ModulusPositive
<1>8. Modulus * (q2 - q1 - k) = p2 - p1 - p /\ q2 - q1 - k \in Int
  BY <1>0, <1>3, <1>7, ModulusPositive
<1>9. TimestampAt(t) = t - p1 /\ TimestampAt(at + c) = at + c - p2 /\ c + d + w0 = p
  BY <1>0, <1>3, <1>4, <1>5, <1>7
<1>10. TimestampAt(t) - TimestampAt(at + c) = v + Modulus * (q2 - q1 - k)
  <2>1. PICK s \in Int : s = SyncLen
    BY <1>1
  <2>2. (t - p1) - (at + c - p2) = v + (p2 - p1 - p)
    BY <1>0, <1>2, <1>6, <1>9, <2>1
  <2>3. QED
    BY <1>8, <1>9, <2>2
<1>11. TimestampAt(t) \in Int /\ TimestampAt(at + c) \in Int
  BY <1>0, <1>9
<1>12. -Modulus < 2 * v /\ 2 * v + 2 <= Modulus
  BY <1>0, <1>1, <1>2, <1>6, ModulusPositive
<1>13. TimestampDelta(TimestampAt(t), TimestampAt(at + c)) = v
  BY <1>0, <1>8, <1>10, <1>11, <1>12, DeltaIs
<1>14. QED
  BY <1>0, <1>6, <1>13
-----------------------------------------------------------------------------
(* The modem's clock, as long as SYNCs wait no longer than WaitBound.       *)
Lagging(c, w) == \E k \in Int : c + delay + w = Modulus * k

LEMMA LagsAre ==
    ASSUME NEW c \in Int, delay \in Nat, NEW w \in Nat
    PROVE  (c + delay + w) % Modulus = 0 <=> Lagging(c, w)
<1>1. PICK x \in Int : x = c + delay + w
  OBVIOUS
<1>2. x \div Modulus \in Int /\ x % Modulus = x - Modulus * (x \div Modulus)
  BY ModulusPositive, Divided
<1>3. x % Modulus = 0 => Lagging(c, w)
  <2>1. PICK k \in Int : k = x \div Modulus
    BY <1>2
  <2>2. PICK p \in Int : p = Modulus * k
    BY ModulusPositive
  <2>3. x % Modulus = x - p
    BY <1>2, <2>1, <2>2
  <2>4. x % Modulus = 0 => x = Modulus * k
    BY <2>2, <2>3
  <2>5. QED
    BY <1>1, <2>4 DEF Lagging
<1>4. ASSUME Lagging(c, w) PROVE x % Modulus = 0
  <2>1. PICK k \in Int : c + delay + w = Modulus * k
    BY <1>4 DEF Lagging
  <2>2. x = Modulus * k + 0 /\ 0 \in 0 .. Modulus - 1
    BY <1>1, <2>1, ModulusPositive
  <2>3. QED
    BY <2>1, <2>2, ModulusPositive, Residue
<1>5. QED
  BY <1>1, <1>3, <1>4

LEMMA OnSyncClock ==
    ASSUME TimebaseInv, SyncsTimely, ClockLags, Receive, modem.phase # "scan",
           Head(flight).msg.kind = "SYNC"
    PROVE  /\ \E w \in 0 .. WaitBound : Lagging(modem'.clock, w)
           /\ modem.clock # NoClock => Abs(modem'.clock - modem.clock) <= WaitBound
<1>1. flight # <<>> /\ Head(flight).at = now /\ modem' = OnSync(modem, Head(flight).msg)
  BY DEF Receive
<1>2. now \in Nat /\ delay \in Nat /\ flight \in Seq(Frames) /\ modem \in Modems
  BY DEF TimebaseInv, Typed
<1>3. 1 \in DOMAIN flight /\ Head(flight) = flight[1] /\ flight[1] \in Frames
  BY <1>1, <1>2
<1>4. PICK t \in Nat : t = flight[1].sent
  BY <1>3 DEF Frames
<1>5. flight[1].msg.stamp = TimestampAt(t) /\ now >= t + SyncLen + delay
  BY <1>1, <1>3, <1>4 DEF TimebaseInv, SyncRight
<1>6. now <= t + SyncLen + delay + WaitBound
  BY <1>1, <1>3, <1>4 DEF SyncsTimely
<1>7. WaitBound \in Nat /\ SyncLen \in Nat
  BY WaitAssumption, Lengths DEF WaitBound
<1>8. PICK w \in 0 .. WaitBound : now = t + SyncLen + delay + w
  <2>1. now - (t + SyncLen + delay) \in 0 .. WaitBound
    BY <1>2, <1>5, <1>6, <1>7
  <2>2. now = t + SyncLen + delay + (now - (t + SyncLen + delay))
    BY <1>2, <1>7
  <2>3. QED
    BY <2>1, <2>2
<1>9. w \in Nat /\ w <= WaitBound
  BY <1>7
<1>10. PICK c \in Int : c = modem.clock
  BY <1>2 DEF Modems
<1>11. modem'.clock = IF c = NoClock THEN TimestampAt(t) + SyncLen - now
                      ELSE c + TimestampDelta(TimestampAt(t), TimestampAt(now + c)) + SyncLen
  <2>1. PICK e : e = IF c = NoClock THEN TimestampAt(t) + SyncLen - now
                     ELSE c + TimestampDelta(TimestampAt(t), TimestampAt(now + c)) + SyncLen
    OBVIOUS
  <2>2. PICK p : p = IF modem.phase = "sync-wait" THEN "ucd-wait" ELSE modem.phase
    OBVIOUS
  <2>3. PICK x : x = AtLeast(modem.waited, Waited(Head(flight).msg))
    OBVIOUS
  <2>4. modem' = [modem EXCEPT !.clock = e, !.waited = x, !.phase = p]
    BY <1>1, <1>3, <1>5, <1>10, <2>1, <2>2, <2>3, Zenon DEF OnSync
  <2>5. modem'.clock = e
    BY <1>2, <2>4 DEF Modems
  <2>6. QED
    BY <2>1, <2>5
<1>12. CASE c = NoClock
  <2>1. PICK q \in Int : TimestampAt(t) = t - Modulus * q
    BY StampIs
  <2>2. -q \in Int /\ Modulus * (-q) = -(Modulus * q)
    BY ModulusPositive
  <2>3. PICK p \in Int : p = Modulus * q
    BY ModulusPositive
  <2>4. modem'.clock = t - p + SyncLen - now
    BY <1>11, <1>12, <2>1, <2>3
  <2>5. modem'.clock + delay + w = -p
    BY <1>2, <1>7, <1>8, <1>9, <2>4
  <2>6. Lagging(modem'.clock, w)
    BY <2>2, <2>3, <2>5 DEF Lagging
  <2>7. QED
    BY <1>10, <1>12, <2>6
<1>13. CASE c # NoClock
  <2>1. PICK w0 \in 0 .. WaitBound : (c + delay + w0) % Modulus = 0
    BY <1>10, <1>13 DEF ClockLags
  <2>2. w0 \in Nat /\ w0 <= WaitBound
    BY <1>7
  <2>3. PICK k \in Int : c + delay + w0 = Modulus * k
    BY <1>2, <2>1, <2>2, LagsAre DEF Lagging
  <2>4. TimestampDelta(TimestampAt(t), TimestampAt(now + c)) = w0 - w - SyncLen
    <3>1. Hears(c, delay, w0, k, now, t, w)
      BY <1>2, <1>8, <2>3 DEF Hears
    <3>2. QED
      BY <3>1, Corrected, SMT
  <2>5. modem'.clock = c + (w0 - w - SyncLen) + SyncLen
    BY <1>11, <1>13, <2>4
  <2>6. modem'.clock = c + w0 - w
    BY <1>7, <1>9, <2>2, <2>5
  <2>7. modem'.clock + delay + w = c + delay + w0
    BY <1>2, <1>9, <2>2, <2>6
  <2>8. Lagging(modem'.clock, w)
    BY <2>3, <2>7 DEF Lagging
  <2>9. Abs(modem'.clock - modem.clock) <= WaitBound
    <3>1. modem'.clock - modem.clock = w0 - w
      BY <1>9, <1>10, <2>2, <2>6
    <3>2. QED
      BY <1>7, <1>9, <2>2, <3>1 DEF Abs, AtLeast
  <2>10. QED
    BY <2>8, <2>9
<1>14. QED
  BY <1>12, <1>13

(* No other step touches the clock of a modem that has one.                 *)
LEMMA ClockKept ==
    ASSUME TimebaseInv, [Next]_vars,
           ~(Receive /\ modem.phase # "scan" /\ Head(flight).msg.kind = "SYNC")
    PROVE  modem'.clock = modem.clock \/ modem'.clock = NoClock
<1>1. modem \in Modems /\ now \in Nat /\ flight \in Seq(Frames)
  BY DEF TimebaseInv, Typed
<1>2. CASE modem' = modem
  BY <1>2
<1>3. CASE Lock
  BY <1>1, <1>3 DEF Lock, Modems
<1>4. CASE T3Expired
  <2>1. PICK p : modem' = [modem EXCEPT !.t3 = 0, !.phase = p]
    BY <1>4 DEF T3Expired
  <2>2. QED
    BY <1>1, <2>1 DEF Modems
<1>5. CASE Reinitialize
  BY <1>5 DEF Reinitialize, Scanning
<1>6. CASE Transmit
  <2>1. PICK tx : modem' = [modem EXCEPT !.tx = modem.tx \ {tx}]
    BY <1>6, Zenon DEF Transmit
  <2>2. QED
    BY <1>1, <2>1 DEF Modems
<1>7. CASE Receive
  <2>1. flight # <<>>
    BY <1>7 DEF Receive
  <2>2. PICK frame \in Messages : frame = Head(flight).msg
    <3>1. Head(flight) \in Frames
      BY <1>1, <2>1
    <3>2. QED
      BY <3>1 DEF Frames
  <2>3. frame.kind \in {"SYNC", "UCD", "PDU", "MAP", "RNG-RSP"}
    BY DEF Messages
  <2>4. CASE modem.phase = "scan" \/ frame.kind = "PDU"
    BY <1>7, <2>2, <2>4 DEF Receive
  <2>5. CASE modem.phase # "scan" /\ frame.kind = "UCD"
    BY <1>1, <1>7, <2>2, <2>5, UcdTypes DEF Receive
  <2>6. CASE modem.phase # "scan" /\ frame.kind = "MAP"
    <3>1. PICK takes \in BOOLEAN, jitter \in -Jitter .. Jitter :
              modem' = OnMap(modem, frame, takes, jitter)
      BY <1>7, <2>2, <2>6 DEF Receive
    <3>2. jitter \in Int
      BY <3>1, TimebaseAssumption
    <3>3. QED
      BY <1>1, <2>6, <3>1, <3>2, MapTypes
  <2>7. CASE modem.phase # "scan" /\ frame.kind = "RNG-RSP"
    <3>1. modem' = OnRngRsp(modem, frame)
      BY <1>7, <2>2, <2>7 DEF Receive
    <3>2. QED
      BY <1>1, <2>7, <3>1, RngRspTypes
  <2>8. QED
    BY <1>7, <2>2, <2>3, <2>4, <2>5, <2>6, <2>7
<1>8. CASE SendSync \/ SendUcds \/ SendMap \/ SendTraffic \/ Lose \/ OnUpstreamBurst \/ Tick
  <2>1. modem' = modem
    BY <1>8, Zenon DEF SendSync, SendUcds, SendMap, SendTraffic, Lose, OnUpstreamBurst, Tick
  <2>2. QED
    BY <2>1
<1>9. CASE UNCHANGED vars
  BY <1>9 DEF vars
<1>10. QED
  BY <1>3, <1>4, <1>5, <1>6, <1>7, <1>8, <1>9 DEF Next

LEMMA ClockStep ==
    TimebaseInv /\ SyncsTimely /\ ClockLags /\ [Next]_vars
        => /\ ClockLags'
           /\ modem.clock # NoClock /\ modem'.clock # NoClock
                  => Abs(modem'.clock - modem.clock) <= WaitBound
<1> SUFFICES ASSUME TimebaseInv, SyncsTimely, ClockLags, [Next]_vars
             PROVE  /\ ClockLags'
                    /\ modem.clock # NoClock /\ modem'.clock # NoClock
                           => Abs(modem'.clock - modem.clock) <= WaitBound
  OBVIOUS
<1>1. delay' = delay
  BY Zenon DEF Next, vars, SendSync, SendUcds, SendMap, SendTraffic, Receive, Lose, Lock,
               T3Expired, Reinitialize, Transmit, OnUpstreamBurst, Tick
<1>2. delay \in Nat /\ modem \in Modems /\ modem' \in Modems
  BY TimebaseNext DEF TimebaseInv, Typed
<1>3. modem.clock \in Int /\ modem'.clock \in Int /\ WaitBound \in Nat
  BY <1>2, WaitAssumption, Lengths DEF Modems, WaitBound
<1>4. CASE Receive /\ modem.phase # "scan" /\ Head(flight).msg.kind = "SYNC"
  <2>1. PICK w \in 0 .. WaitBound : Lagging(modem'.clock, w)
    BY <1>4, OnSyncClock
  <2>2. w \in Nat
    BY <1>3
  <2>3. PICK c \in Int : c = modem'.clock
    BY <1>3
  <2>4. (c + delay + w) % Modulus = 0
    BY <1>2, <2>1, <2>2, <2>3, LagsAre
  <2>5. ClockLags'
    BY <1>1, <2>1, <2>3, <2>4 DEF ClockLags, WaitBound
  <2>6. QED
    BY <1>4, <2>5, OnSyncClock
<1>5. CASE ~(Receive /\ modem.phase # "scan" /\ Head(flight).msg.kind = "SYNC")
  <2>1. modem'.clock = modem.clock \/ modem'.clock = NoClock
    BY <1>5, ClockKept
  <2>2. ClockLags'
    BY <1>1, <2>1 DEF ClockLags, WaitBound, NoClock
  <2>3. modem'.clock = modem.clock => Abs(modem'.clock - modem.clock) <= WaitBound
    BY <1>3 DEF Abs, AtLeast
  <2>4. QED
    BY <2>1, <2>2, <2>3
<1>6. QED
  BY <1>4, <1>5

LEMMA ClockInit == Init => ClockLags
  BY DEF Init, Scanning, ClockLags

(* As long as no SYNC waits longer for the downstream than WaitBound, which *)
(* the runs check on the instance, the modem's clock lags the CMTS's by the *)
(* delay and such a wait, give or take whole turns, at every moment, and    *)
(* ...                                                                      *)
THEOREM ClockLagsCorrect == Spec /\ []SyncsTimely => []ClockLags
<1>1. QED
  BY ClockInit, ClockStep, TimebaseCorrect, PTL DEF Spec

(* ... no SYNC moves the clock of a modem that has one by more than that    *)
(* wait, whenever the timestamp wraps (_on_sync, with timestamp_delta).     *)
THEOREM ClockSteadyCorrect == Spec /\ []SyncsTimely => ClockSteady
<1>1. TimebaseInv /\ SyncsTimely /\ ClockLags /\ [Next]_vars
      => [modem.clock # NoClock /\ modem'.clock # NoClock
             => Abs(modem'.clock - modem.clock) <= WaitBound]_vars
  BY ClockStep
<1>2. QED
  BY <1>1, ClockLagsCorrect, TimebaseCorrect, PTL DEF Spec, ClockSteady
=============================================================================
