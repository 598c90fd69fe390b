----------------------- MODULE UpstreamScheduler_proofs -----------------------
(***************************************************************************)
(* Proofs about the upstream scheduler, for every set of SIDs and every    *)
(* size of interval, region and grant; and about the sizing of bursts, for *)
(* every channel, DOCSIS version and length of frame.                      *)
(***************************************************************************)
EXTENDS UpstreamScheduler, BurstSizing, FiniteSetTheorems, SequenceTheorems,
        WellFoundedInduction, TLAPS

(* A MAP describes at least one mini-slot (`max(1, ...)` in span).          *)
LEMMA SpanType == Span \in Nat \ {0}
BY TimeAssumption DEF Span, AtLeast

(* A mini-slot number is a natural number, and lies no further than its     *)
(* own time: start_of(number_at(t)) <= t < start_of(number_at(t) + 1).      *)
LEMMA NumberAtBounds ==
    ASSUME NEW t \in Nat
    PROVE  /\ NumberAt(t) \in Nat
           /\ StartOf(NumberAt(t)) <= t
           /\ t < StartOf(NumberAt(t) + 1)
<1>1. Duration \in Nat \ {0}
  BY TimeAssumption
<1>2. NumberAt(t) \in Nat
  BY <1>1 DEF NumberAt
<1>3. t = Duration * (t \div Duration) + (t % Duration) /\ t % Duration \in 0..(Duration - 1)
  BY <1>1
<1>4. QED
  BY <1>1, <1>2, <1>3 DEF NumberAt, StartOf

(* The mini-slot a MAP starts with: never before the one the last MAP ended *)
(* with, and further away than the advance.                                 *)
LEMMA AllocStartBounds ==
    ASSUME TypeOK
    PROVE  /\ AllocStart \in Nat
           /\ AllocStart >= nextMinislot
           /\ StartOf(AllocStart) > now + MapAdvance
<1>1. now + MapAdvance \in Nat /\ Duration \in Nat \ {0} /\ nextMinislot \in Nat
  BY TimeAssumption DEF TypeOK
<1> DEFINE earliest == NumberAt(now + MapAdvance) + 1
<1>2. earliest \in Nat /\ StartOf(earliest) > now + MapAdvance
  BY <1>1, NumberAtBounds
<1>3. AllocStart = IF nextMinislot >= earliest THEN nextMinislot ELSE earliest
  BY DEF AllocStart, AtLeast
<1> HIDE DEF earliest
<1>4. AllocStart \in Nat /\ AllocStart >= nextMinislot /\ AllocStart >= earliest
  BY <1>1, <1>2, <1>3
<1>5. StartOf(AllocStart) >= StartOf(earliest)
  BY <1>1, <1>2, <1>4 DEF StartOf
<1>6. StartOf(AllocStart) \in Nat /\ StartOf(earliest) \in Nat
  BY <1>1, <1>2, <1>4 DEF StartOf
<1>7. QED
  BY <1>1, <1>2, <1>4, <1>5, <1>6

(* Where the maintenance regions end is a number of mini-slots.             *)
LEMMA MaintType ==
    ASSUME TypeOK
    PROVE  /\ InitialLength \in Nat
           /\ InitialLength <= Span
           /\ Polled \in SUBSET Sids
           /\ Cardinality(Polled) \in Nat
           /\ MaintEnd \in Nat
           /\ \A s \in Due : PollEnd(s) \in Nat /\ PollEnd(s) >= InitialLength + StationNeed
<1>1. InitialLength \in Nat /\ InitialLength <= Span
  BY SizeAssumption, SpanType DEF InitialLength, OffersInitial
<1>2. Due \in SUBSET Sids /\ Polled \in SUBSET Due
  BY DEF TypeOK, Due, Polled
<1>3. IsFiniteSet(Due) /\ Cardinality(Polled) \in Nat
  BY <1>2, SidsAssumption, FS_Subset, FS_CardinalityType
<1>4. StationNeed \in Nat \ {0}
  BY SizeAssumption
<1>5. MaintEnd \in Nat
  BY <1>1, <1>3, <1>4 DEF MaintEnd
<1>6. ASSUME NEW s \in Due
      PROVE  PollEnd(s) \in Nat /\ PollEnd(s) >= InitialLength + StationNeed
  <2> DEFINE upto == {t \in Due : t <= s}
  <2>1. IsFiniteSet(upto) /\ Cardinality(upto) \in Nat
    BY <1>3, FS_Subset, FS_CardinalityType
  <2>2. s \in upto
    BY <1>2, SidsAssumption
  <2>3. Cardinality(upto) # 0
    BY <2>1, <2>2, FS_EmptySet
  <2>4. PollEnd(s) = InitialLength + StationNeed * Cardinality(upto)
    BY DEF PollEnd
  <2> HIDE DEF upto
  <2>5. QED
    BY <1>1, <1>4, <2>1, <2>3, <2>4
<1>7. QED
  BY <1>1, <1>2, <1>3, <1>5, <1>6

(* A grant is never negative, never more than was asked, and never more     *)
(* than the room in front of the Request region.                            *)
LEMMA GrantLengthBounds ==
    ASSUME TypeOK, NEW s \in Wanting, NEW offset \in Nat
    PROVE  /\ GrantLength(s, offset) \in Nat
           /\ GrantLength(s, offset) <= pending[s]
           /\ GrantLength(s, offset) > 0 => offset + GrantLength(s, offset) <= Span - RequestRegion
           /\ GrantLength(s, offset) = 0 => offset >= Span - RequestRegion
<1>1. pending[s] \in Nat \ {0}
  BY DEF TypeOK, Sizes, Wanting
<1>2. Span \in Nat /\ RequestRegion \in Nat
  BY SpanType, SizeAssumption
<1>3. GrantCap(pending[s]) \in Nat \ {0} /\ GrantCap(pending[s]) <= pending[s]
  BY <1>1, SizeAssumption DEF GrantCap, AtMost
<1>4. QED
  BY <1>1, <1>2, <1>3 DEF GrantLength, Room, AtMost

(* Every waiting SID goes through the loop's body one of the three ways, is *)
(* granted mini-slots exactly if it is not told to wait, and what it is not *)
(* granted remains.                                                         *)
LEMMA LoopAnswers ==
    ASSUME TypeOK, NEW offset \in [Wanting -> MaintEnd..Span], NEW s \in Wanting
    PROVE  /\ s \in Grantees(offset) \union NoRoom(offset) \union NothingToGrant(offset)
           /\ s \in Grantees(offset) <=> GrantLength(s, offset[s]) > 0
           /\ s \in NoRoom(offset) \union NothingToGrant(offset)
                 <=> GrantLength(s, offset[s]) = 0
           /\ Remaining(s, offset) = pending[s] - GrantLength(s, offset[s])
<1>1. offset[s] \in Nat /\ pending[s] \in Nat /\ Span \in Nat /\ RequestRegion \in Nat
  BY MaintType, SpanType, SizeAssumption DEF TypeOK, Sizes, Wanting
<1>2. GrantLength(s, offset[s]) \in Nat /\ GrantLength(s, offset[s]) <= pending[s]
  BY <1>1, GrantLengthBounds
<1>3. Room(offset[s]) \in Int /\ (Room(offset[s]) <= 0 => GrantLength(s, offset[s]) = 0)
  BY <1>1 DEF Room, GrantLength
<1>4. s \in Grantees(offset) <=> Room(offset[s]) > 0 /\ GrantLength(s, offset[s]) > 0
  BY DEF Grantees
<1>5. s \in NoRoom(offset) <=> Room(offset[s]) <= 0
  BY DEF NoRoom
<1>6. s \in NothingToGrant(offset) <=> Room(offset[s]) > 0 /\ GrantLength(s, offset[s]) <= 0
  BY DEF NothingToGrant
<1>7. Remaining(s, offset) = pending[s] - GrantLength(s, offset[s])
  BY <1>1, <1>2, <1>3, <1>4 DEF Remaining, AtLeast
<1>8. QED
  BY <1>2, <1>3, <1>4, <1>5, <1>6, <1>7

-----------------------------------------------------------------------------
(* Everything build() assigns has the type of the attribute it assigns.     *)
LEMMA BuildType == TypeOK /\ Build => TypeOK'
<1> SUFFICES ASSUME TypeOK, Build PROVE TypeOK'
  OBVIOUS
<1>1. AllocStart \in Nat /\ Span \in Nat /\ StartOf(AllocStart) \in Nat
  BY AllocStartBounds, SpanType, TimeAssumption DEF StartOf
<1>2. now' \in Nat /\ nextBuild' \in Nat /\ nextMinislot' \in Nat /\ nextInitialMaint' \in Nat
  BY <1>1, TimeAssumption DEF Build, TypeOK
<1>3. tracked' \in SUBSET Sids /\ ranging' \in SUBSET Sids
  BY DEF Build, TypeOK
<1>4. maintDue' \in Sizes
  BY <1>1, TimeAssumption DEF Build, TypeOK, Sizes
<1>5. PICK offset \in [Wanting -> MaintEnd..Span], end \in MaintEnd..Span :
        /\ pending' = [s \in Sids |-> Remaining(s, offset)]
        /\ lastMap' = MapFor(offset, end)
  BY DEF Build
<1>6. MaintEnd \in Nat
  BY MaintType
<1>7. \A s \in Wanting : offset[s] \in Nat /\ GrantLength(s, offset[s]) \in Nat
                         /\ GrantLength(s, offset[s]) <= pending[s]
  BY <1>1, <1>6, GrantLengthBounds
<1>8. pending' \in Sizes
  <2>1. \A s \in Sids : pending[s] \in Nat
    BY DEF TypeOK, Sizes
  <2>2. \A s \in Wanting : Remaining(s, offset) \in Nat
    BY <1>7, <2>1, LoopAnswers DEF Wanting
  <2>3. \A s \in Sids \ Wanting : Remaining(s, offset) = pending[s]
    BY DEF Remaining, Grantees
  <2>4. QED
    BY <1>5, <2>1, <2>2, <2>3 DEF Sizes
<1>9. lastMap' \in MapRecords
  <2> DEFINE request == AtLeast(0, AtMost(RequestRegion, Span - end))
  <2>1. request \in Nat /\ end + request \in Nat
    BY <1>1, <1>6, SizeAssumption DEF AtLeast, AtMost
  <2>2. [s \in Sids |-> IF s \in Polled THEN PollEnd(s) - StationNeed ELSE 0] \in Sizes
    BY MaintType, SizeAssumption DEF Sizes, Polled
  <2>3. [s \in Sids |-> IF s \in Wanting THEN offset[s] ELSE 0] \in Sizes
    BY <1>7 DEF Sizes
  <2>4. [s \in Sids |-> IF s \in Grantees(offset) THEN GrantLength(s, offset[s]) ELSE 0] \in Sizes
    BY <1>7 DEF Sizes, Grantees
  <2>5. NumberAt(now) \in Nat
    BY NumberAtBounds DEF TypeOK
  <2>6. /\ Polled \in SUBSET Sids /\ InitialLength \in Nat
        /\ Grantees(offset) \in SUBSET Sids
        /\ NoRoom(offset) \union NothingToGrant(offset) \in SUBSET Sids
    BY MaintType DEF Grantees, NoRoom, NothingToGrant, Wanting
  <2> HIDE DEF request
  <2>7. QED
    BY <1>1, <1>5, <2>1, <2>2, <2>3, <2>4, <2>5, <2>6 DEF MapRecords, MapFor, request
<1>10. QED
  BY <1>2, <1>3, <1>4, <1>8, <1>9 DEF TypeOK

LEMMA TypeInductive == TypeOK /\ [Next]_vars => TypeOK'
<1> SUFFICES ASSUME TypeOK, [Next]_vars PROVE TypeOK'
  OBVIOUS
<1>1. ASSUME NEW s \in Sids, NEW n \in RequestSizes, AddRequest(s, n)
      PROVE  TypeOK'
  BY <1>1, SizeAssumption DEF AddRequest, TypeOK, Sizes
<1>2. ASSUME NEW s \in Sids, NEW n \in RequestSizes, AddUnsolicited(s, n)
      PROVE  TypeOK'
  BY <1>2, SizeAssumption DEF AddUnsolicited, TypeOK, Sizes, AtLeast
<1>3. ASSUME NEW s \in Sids, NEW r \in BOOLEAN, TrackModem(s, r)
      PROVE  TypeOK'
  BY <1>3 DEF TrackModem, TypeOK, Sizes
<1>4. ASSUME NEW s \in Sids, UntrackModem(s)
      PROVE  TypeOK'
  BY <1>4 DEF UntrackModem, TypeOK, Sizes
<1>5. ASSUME NEW s \in Sids, RangingComplete(s)
      PROVE  TypeOK'
  BY <1>5, TimeAssumption DEF RangingComplete, TypeOK, Sizes
<1>6. CASE Build
  BY <1>6, BuildType
<1>7. CASE Tick
  BY <1>7, TimeAssumption DEF Tick, TypeOK, AtMost
<1>8. CASE UNCHANGED vars
  BY <1>8 DEF vars, TypeOK
<1>9. QED
  BY <1>1, <1>2, <1>3, <1>4, <1>5, <1>6, <1>7, <1>8 DEF Next

(* Type correctness of the scheduler: in particular a request is never      *)
(* granted more than it asked for, so nothing it holds goes negative.       *)
THEOREM TypeCorrect == Spec => []TypeOK
<1>1. Init => TypeOK
  BY TimeAssumption DEF Init, TypeOK, Sizes, MapRecords, NoMap
<1>2. QED
  BY <1>1, TypeInductive, PTL DEF Spec

-----------------------------------------------------------------------------
(* Only build() makes a MAP, and it makes the one for AllocStart.           *)
LEMMA OnlyBuildMaps ==
    ASSUME [Next]_vars, lastMap' # lastMap
    PROVE  Build /\ lastMap'.start = AllocStart
<1>1. Build
  BY DEF Next, vars, AddRequest, AddUnsolicited, TrackModem, UntrackModem,
         RangingComplete, Tick
<1>2. PICK offset, end : lastMap' = MapFor(offset, end)
  BY <1>1 DEF Build
<1>3. QED
  BY <1>1, <1>2 DEF MapFor

(* A MAP always starts further away than the advance, so it reaches every   *)
(* modem before its first mini-slot does.                                   *)
THEOREM MapsAheadCorrect == Spec => MapsAhead
<1>1. TypeOK /\ [Next]_vars => (lastMap' # lastMap => StartOf(lastMap'.start) > now + MapAdvance)
  BY OnlyBuildMaps, AllocStartBounds
<1>2. TypeOK /\ [Next]_vars
        => [lastMap' # lastMap => StartOf(lastMap'.start) > now + MapAdvance]_vars
  BY <1>1
<1>3. QED
  BY <1>2, TypeCorrect, PTL DEF Spec, MapsAhead

-----------------------------------------------------------------------------
(* A MAP leaves the scheduler at the end of the span it describes, and a    *)
(* real MAP never looks like the one before the first.                      *)
MapEndInv ==
    /\ lastMap # NoMap => nextMinislot >= lastMap.start + Span
    /\ lastMap = NoMap => nextMinislot = 0

LEMMA BuildMapEnd ==
    ASSUME TypeOK, Build
    PROVE  /\ lastMap' # NoMap
           /\ lastMap'.start = AllocStart
           /\ nextMinislot' = AllocStart + Span
<1>1. AllocStart \in Nat /\ StartOf(AllocStart) > now + MapAdvance
  BY AllocStartBounds
<1>2. AllocStart # 0
  BY <1>1, TimeAssumption DEF StartOf, TypeOK
<1>3. PICK offset, end : lastMap' = MapFor(offset, end)
  BY DEF Build
<1>4. lastMap'.start = AllocStart /\ NoMap.start = 0
  BY <1>3 DEF MapFor, NoMap
<1>5. QED
  BY <1>2, <1>4 DEF Build

LEMMA MapEndInductive == TypeOK /\ MapEndInv /\ [Next]_vars => MapEndInv'
<1> SUFFICES ASSUME TypeOK, MapEndInv, [Next]_vars PROVE MapEndInv'
  OBVIOUS
<1>1. CASE Build
  BY <1>1, BuildMapEnd, AllocStartBounds, SpanType DEF MapEndInv
<1>2. CASE UNCHANGED <<lastMap, nextMinislot>>
  BY <1>2 DEF MapEndInv
<1>3. QED
  BY <1>1, <1>2 DEF Next, vars, AddRequest, AddUnsolicited, TrackModem, UntrackModem,
         RangingComplete, Tick

THEOREM MapEndCorrect == Spec => []MapEndInv
<1>1. Init => MapEndInv
  BY DEF Init, MapEndInv
<1>2. QED
  BY <1>1, MapEndInductive, TypeCorrect, PTL DEF Spec

(* Successive MAPs tile the upstream: none begins before its predecessor    *)
(* ends, so no mini-slot is ever described, and granted, twice.             *)
THEOREM MapsTileCorrect == Spec => MapsTile
<1>1. TypeOK /\ MapEndInv /\ [Next]_vars
        => [lastMap' # lastMap /\ lastMap # NoMap
              => lastMap'.start >= lastMap.start + Span]_vars
  <2> SUFFICES ASSUME TypeOK, MapEndInv, [Next]_vars, lastMap' # lastMap, lastMap # NoMap
               PROVE  lastMap'.start >= lastMap.start + Span
    OBVIOUS
  <2>1. lastMap'.start = AllocStart /\ AllocStart >= nextMinislot
    BY OnlyBuildMaps, AllocStartBounds
  <2>2. lastMap.start \in Nat /\ nextMinislot \in Nat /\ AllocStart \in Nat /\ Span \in Nat
    BY AllocStartBounds, SpanType DEF TypeOK, MapRecords
  <2>3. QED
    BY <2>1, <2>2 DEF MapEndInv
<1>2. QED
  BY <1>1, TypeCorrect, MapEndCorrect, PTL DEF Spec, MapsTile

(* So MAPs follow one another without an overlap, and each of them in time, *)
(* for any interval and any mini-slot it is rounded to (build).             *)
THEOREM MapsInTurnCorrect == Spec => MapsInTurn
<1>1. QED
  BY MapsAheadCorrect, MapsTileCorrect DEF MapsInTurn

-----------------------------------------------------------------------------
(* The MAP of a call of build() names every SID that waits, and what it     *)
(* grants a SID and what that SID still waits for make up what it wanted.   *)
LEMMA BuildAnswers ==
    ASSUME TypeOK, Build, NEW s \in Sids
    PROVE  /\ pending[s] > 0 => s \in Answers(lastMap')
           /\ lastMap'.length[s] + pending'[s] = pending[s]
<1>1. PICK offset \in [Wanting -> MaintEnd..Span], end \in MaintEnd..Span :
        /\ pending' = [t \in Sids |-> Remaining(t, offset)]
        /\ lastMap' = MapFor(offset, end)
  BY DEF Build
<1>2. /\ Answers(lastMap') = Grantees(offset) \union (NoRoom(offset) \union NothingToGrant(offset))
      /\ lastMap'.length[s] = IF s \in Grantees(offset) THEN GrantLength(s, offset[s]) ELSE 0
      /\ pending'[s] = Remaining(s, offset)
  BY <1>1 DEF Answers, MapFor
<1>3. pending[s] \in Nat
  BY DEF TypeOK, Sizes
<1>4. CASE s \in Wanting
  <2>1. offset[s] \in Nat
    BY <1>4, MaintType
  <2>2. GrantLength(s, offset[s]) \in Nat
    BY <1>4, <2>1, GrantLengthBounds
  <2>3. QED
    BY <1>2, <1>3, <1>4, <2>2, LoopAnswers
<1>5. CASE s \notin Wanting
  <2>1. pending[s] = 0 /\ s \notin Grantees(offset)
    BY <1>3, <1>5 DEF Wanting, Grantees
  <2>2. QED
    BY <1>2, <2>1 DEF Remaining
<1>6. QED
  BY <1>4, <1>5

(* Each call of build() leaves another MAP: its start is past the last one. *)
LEMMA BuildMakesMap == TypeOK /\ MapEndInv /\ Build => lastMap' # lastMap
<1> SUFFICES ASSUME TypeOK, MapEndInv, Build PROVE lastMap' # lastMap
  OBVIOUS
<1>1. lastMap' # NoMap /\ lastMap'.start = AllocStart
  BY BuildMapEnd
<1>2. AllocStart \in Nat /\ AllocStart >= nextMinislot /\ Span \in Nat \ {0}
      /\ nextMinislot \in Nat /\ lastMap.start \in Nat
  BY AllocStartBounds, SpanType DEF TypeOK, MapRecords
<1>3. CASE lastMap # NoMap
  <2>1. nextMinislot >= lastMap.start + Span
    BY <1>3 DEF MapEndInv
  <2>2. AllocStart # lastMap.start
    BY <1>2, <2>1
  <2>3. QED
    BY <1>1, <2>2
<1>4. QED
  BY <1>1, <1>3

(* Between two MAPs a request gets smaller only because a newer one takes   *)
(* its place or its modem leaves.                                           *)
LEMMA RequestsStay ==
    ASSUME TypeOK, MapEndInv, [Next]_vars, lastMap' = lastMap,
           NEW s \in Sids, pending'[s] < pending[s]
    PROVE  pending'[s] \in RequestSizes \/ s \notin tracked'
<1>1. pending[s] \in Nat
  BY DEF TypeOK, Sizes
<1>2. pending' # pending
  BY <1>1
<1>3. ~Build
  BY BuildMakesMap
<1>4. ASSUME NEW t \in Sids, NEW n \in RequestSizes, AddRequest(t, n)
      PROVE  pending'[s] \in RequestSizes
  BY <1>1, <1>4 DEF AddRequest, TypeOK, Sizes
<1>5. ASSUME NEW t \in Sids, NEW n \in RequestSizes, AddUnsolicited(t, n)
      PROVE  FALSE
  BY <1>1, <1>5, SizeAssumption DEF AddUnsolicited, AtLeast, TypeOK, Sizes
<1>6. ASSUME NEW t \in Sids, UntrackModem(t)
      PROVE  s \notin tracked'
  BY <1>1, <1>6 DEF UntrackModem, TypeOK, Sizes
<1>7. QED
  BY <1>2, <1>3, <1>4, <1>5, <1>6 DEF Next, vars, TrackModem, RangingComplete, Tick

(* Each MAP answers every modem that waits for bandwidth, and a request is  *)
(* kept until it is granted in full.                                        *)
THEOREM EveryRequestAnsweredCorrect == Spec => EveryRequestAnswered
<1>1. TypeOK /\ MapEndInv /\ [Next]_vars =>
        [\A s \in Sids :
           /\ lastMap' # lastMap /\ pending[s] > 0
                  => /\ s \in Answers(lastMap')
                     /\ lastMap'.length[s] + pending'[s] = pending[s]
           /\ pending'[s] < pending[s]
                  => \/ lastMap' # lastMap
                     \/ pending'[s] \in RequestSizes
                     \/ s \notin tracked']_vars
  BY OnlyBuildMaps, BuildAnswers, RequestsStay
<1>2. QED
  BY <1>1, TypeCorrect, MapEndCorrect, PTL DEF Spec, EveryRequestAnswered

-----------------------------------------------------------------------------
LEMMA TimesMonotone ==
    ASSUME NEW k \in Nat, NEW a \in Nat, NEW b \in Nat, a <= b
    PROVE  k * a <= k * b
OBVIOUS

(* The maintenance regions follow one another by SID, after the Initial     *)
(* Maintenance region, and the data regions begin where the last one ends.  *)
LEMMA MaintOrdered ==
    ASSUME TypeOK
    PROVE  /\ \A s, t \in Due : s < t => PollEnd(s) <= PollEnd(t) - StationNeed
           /\ \A s \in Polled : PollEnd(s) <= MaintEnd
<1>1. Due \in SUBSET Sids /\ Polled \in SUBSET Due /\ IsFiniteSet(Due)
  BY SidsAssumption, FS_Subset DEF TypeOK, Due, Polled
<1>2. InitialLength \in Nat /\ StationNeed \in Nat \ {0} /\ Span \in Nat
  BY MaintType, SizeAssumption, SpanType
<1> DEFINE upto(s) == {t \in Due : t <= s}
<1>3. \A s \in Due : /\ IsFiniteSet(upto(s)) /\ Cardinality(upto(s)) \in Nat
                     /\ PollEnd(s) = InitialLength + StationNeed * Cardinality(upto(s))
  BY <1>1, FS_Subset, FS_CardinalityType DEF PollEnd
<1>4. ASSUME NEW s \in Due, NEW t \in Due, s < t
      PROVE  PollEnd(s) <= PollEnd(t) - StationNeed
  <2>1. s \in Nat /\ t \in Nat
    BY <1>1, SidsAssumption
  <2>2. t \notin upto(s)
    BY <1>4, <2>1
  <2>3. Cardinality(upto(s) \cup {t}) = Cardinality(upto(s)) + 1
    BY <1>3, <2>2, FS_AddElement
  <2>4. upto(s) \subseteq upto(t) /\ t \in upto(t)
    <3>1. ASSUME NEW u \in Due, u <= s PROVE u <= t
      <4>1. u \in Nat
        BY <1>1, SidsAssumption
      <4>2. QED
        BY <1>4, <2>1, <3>1, <4>1
    <3>2. t <= t
      BY <2>1
    <3>3. QED
      BY <3>1, <3>2
  <2> HIDE DEF upto
  <2>5. Cardinality(upto(s)) + 1 <= Cardinality(upto(t))
    <3>1. (upto(s) \cup {t}) \in SUBSET upto(t)
      BY <2>4
    <3>2. Cardinality(upto(s) \cup {t}) <= Cardinality(upto(t))
      BY <1>3, <3>1, FS_Subset
    <3>3. QED
      BY <2>3, <3>2
  <2>6. StationNeed * (Cardinality(upto(s)) + 1) <= StationNeed * Cardinality(upto(t))
    BY <1>2, <1>3, <2>5, TimesMonotone
  <2>7. StationNeed * (Cardinality(upto(s)) + 1) = StationNeed * Cardinality(upto(s)) + StationNeed
    BY <1>2, <1>3
  <2>8. StationNeed * Cardinality(upto(s)) \in Nat /\ StationNeed * Cardinality(upto(t)) \in Nat
    BY <1>2, <1>3
  <2>9. QED
    BY <1>2, <1>3, <2>6, <2>7, <2>8
<1>5. ASSUME NEW s \in Polled
      PROVE  PollEnd(s) <= MaintEnd
  <2>1. \A t \in Due : PollEnd(t) \in Nat
    BY MaintType
  <2>2. ASSUME NEW t \in upto(s) PROVE t \in Polled
    <3>1. t \in Nat /\ s \in Nat /\ t <= s /\ s \in Due
      BY <1>1, SidsAssumption
    <3>2. PollEnd(t) <= PollEnd(s)
      BY <1>1, <1>2, <1>4, <2>1, <3>1
    <3>3. QED
      BY <1>2, <2>1, <3>1, <3>2 DEF Polled
  <2>3. Cardinality(upto(s)) <= Cardinality(Polled)
    BY <1>1, <2>2, FS_Subset
  <2> HIDE DEF upto
  <2>4. StationNeed * Cardinality(upto(s)) <= StationNeed * Cardinality(Polled)
    BY <1>1, <1>2, <1>3, <2>3, TimesMonotone, MaintType
  <2>5. StationNeed * Cardinality(upto(s)) \in Nat /\ StationNeed * Cardinality(Polled) \in Nat
    BY <1>1, <1>2, <1>3, MaintType
  <2>6. QED
    BY <1>1, <1>2, <1>3, <2>4, <2>5 DEF MaintEnd
<1>6. QED
  BY <1>4, <1>5

(* The regions of a MAP just built, kind by kind.                           *)
LEMMA BuildDisjoint == TypeOK /\ Build => RegionsDisjoint'
<1> SUFFICES ASSUME TypeOK, Build PROVE RegionsDisjoint'
  OBVIOUS
<1>1. PICK offset \in [Wanting -> MaintEnd..Span], end \in MaintEnd..Span :
        /\ Places(offset)
        /\ DataEnds(offset, end)
        /\ lastMap' = MapFor(offset, end)
  BY DEF Build
<1> DEFINE m == MapFor(offset, end)
           request == AtLeast(0, AtMost(RequestRegion, Span - end))
           last(s) == offset[s] + GrantLength(s, offset[s])
           data == Grantees(offset)
<1>2. Span \in Nat /\ InitialLength \in Nat /\ MaintEnd \in Nat /\ RequestRegion \in Nat
      /\ StationNeed \in Nat \ {0} /\ end \in Nat /\ InitialLength <= Span
  BY SpanType, MaintType, SizeAssumption
<1>3. request \in Nat /\ (request > 0 => end + request <= Span)
  BY <1>2 DEF AtLeast, AtMost
<1>4. \A s \in Polled : /\ PollEnd(s) \in Nat /\ PollEnd(s) - StationNeed >= InitialLength
                        /\ PollEnd(s) <= MaintEnd /\ PollEnd(s) <= Span
                        /\ s \in Nat /\ s \in Due
  <2> SUFFICES ASSUME NEW s \in Polled
               PROVE  /\ PollEnd(s) \in Nat /\ PollEnd(s) - StationNeed >= InitialLength
                      /\ PollEnd(s) <= MaintEnd /\ PollEnd(s) <= Span
                      /\ s \in Nat /\ s \in Due
    OBVIOUS
  <2>1. s \in Due /\ PollEnd(s) <= Span
    BY DEF Polled
  <2>2. s \in Nat
    BY MaintType, SidsAssumption
  <2>3. PollEnd(s) \in Nat /\ PollEnd(s) >= InitialLength + StationNeed
    BY <2>1, MaintType
  <2>4. PollEnd(s) <= MaintEnd
    BY MaintOrdered
  <2>5. QED
    BY <1>2, <2>1, <2>2, <2>3, <2>4
<1>5. \A s \in data : /\ offset[s] \in Nat /\ offset[s] >= MaintEnd /\ s \in Nat
                      /\ GrantLength(s, offset[s]) \in Nat
                      /\ last(s) <= end /\ last(s) <= Span
  <2> SUFFICES ASSUME NEW s \in data
               PROVE  /\ offset[s] \in Nat /\ offset[s] >= MaintEnd /\ s \in Nat
                      /\ GrantLength(s, offset[s]) \in Nat
                      /\ last(s) <= end /\ last(s) <= Span
    OBVIOUS
  <2>1. /\ offset[s] \in Nat /\ offset[s] >= MaintEnd /\ s \in Nat /\ s \in Wanting
        /\ GrantLength(s, offset[s]) > 0
    BY <1>1, <1>2, SidsAssumption DEF Wanting, Grantees
  <2>2. GrantLength(s, offset[s]) \in Nat /\ last(s) <= Span - RequestRegion
    BY <2>1, GrantLengthBounds
  <2>3. last(s) <= end
    BY <1>1, <2>1 DEF DataEnds
  <2>4. QED
    BY <1>2, <2>1, <2>2, <2>3
<1>6. \A s, t \in data : s < t => last(s) <= offset[t]
  BY <1>1 DEF Places, Grantees
<1>7. \A s, t \in Polled : s < t => PollEnd(s) <= PollEnd(t) - StationNeed
  BY <1>4, MaintOrdered
<1>8. InitialLength <= MaintEnd
  BY <1>2, MaintType DEF MaintEnd
<1>9. m.initial = InitialLength /\ m.polled = Polled /\ m.granted = data
      /\ m.request = request /\ m.null = end + request
      /\ (\A s \in Sids : s \in Polled => m.maint[s] = PollEnd(s) - StationNeed)
      /\ (\A s \in Sids : s \in data => /\ m.offset[s] = offset[s]
                                        /\ m.length[s] = GrantLength(s, offset[s]))
  BY DEF MapFor, Grantees
<1>10. Polled \in SUBSET Sids /\ data \in SUBSET Sids
  BY MaintType DEF Wanting, Grantees
<1> DEFINE isInitial(r) == InitialLength > 0 /\ r = <<"initial", 0, 0, InitialLength - 1>>
           isMaint(r) == \E s \in Polled :
               r = <<"maint", s, PollEnd(s) - StationNeed, PollEnd(s) - 1>>
           isData(r) == \E s \in data :
               r = <<"data", s, offset[s], offset[s] + GrantLength(s, offset[s]) - 1>>
           isRequest(r) == request > 0 /\ r = <<"request", 0, end, end + request - 1>>
<1>11. ASSUME NEW r \in Regions(m)
       PROVE  isInitial(r) \/ isMaint(r) \/ isData(r) \/ isRequest(r)
  <2>1. CASE r \in {<<"initial", 0, 0, m.initial - 1>> : k \in {1} \cap 1..m.initial}
    BY <1>2, <1>9, <2>1
  <2>2. CASE r \in {<<"maint", s, m.maint[s], m.maint[s] + StationNeed - 1>> : s \in m.polled}
    BY <1>2, <1>4, <1>9, <1>10, <2>2
  <2>3. CASE r \in {<<"data", s, m.offset[s], m.offset[s] + m.length[s] - 1>> :
                s \in m.granted}
    <3>1. PICK s \in data : r = <<"data", s, m.offset[s],
                                  m.offset[s] + m.length[s] - 1>>
      BY <1>9, <2>3
    <3>2. m.offset[s] = offset[s] /\ m.length[s] = GrantLength(s, offset[s])
      BY <1>9, <1>10
    <3>3. r = <<"data", s, offset[s], offset[s] + GrantLength(s, offset[s]) - 1>>
      BY <3>1, <3>2, Zenon
    <3>4. isData(r)
      BY <3>3
    <3> HIDE DEF isData
    <3>5. QED
      BY <3>4
  <2>4. CASE r \in {<<"request", 0, m.null - m.request, m.null - 1>> :
                k \in {1} \cap 1..m.request}
    BY <1>2, <1>3, <1>9, <2>4
  <2>5. QED
    BY <2>1, <2>2, <2>3, <2>4 DEF Regions
<1> HIDE DEF m, request, last, data
<1>12. ASSUME NEW r \in Regions(m)
       PROVE  r[3] >= 0 /\ r[4] < Span
  BY <1>2, <1>3, <1>4, <1>5, <1>11 DEF last
<1>13. ASSUME NEW r \in Regions(m), NEW q \in Regions(m), r # q
       PROVE  r[4] < q[3] \/ q[4] < r[3]
  <2>1. CASE isInitial(r)
    BY <1>2, <1>3, <1>4, <1>5, <1>8, <1>11, <1>13, <2>1 DEF last
  <2>2. CASE isMaint(r)
    BY <1>2, <1>3, <1>4, <1>5, <1>7, <1>8, <1>11, <1>13, <2>2 DEF last
  <2>3. CASE isData(r)
    BY <1>2, <1>3, <1>4, <1>5, <1>6, <1>8, <1>11, <1>13, <2>3 DEF last
  <2>4. CASE isRequest(r)
    BY <1>2, <1>3, <1>4, <1>5, <1>8, <1>11, <1>13, <2>4 DEF last
  <2>5. QED
    BY <1>11, <2>1, <2>2, <2>3, <2>4
<1>14. QED
  BY <1>1, <1>12, <1>13 DEF RegionsDisjoint, m

(* No two transmitters are ever given the same mini-slot of a MAP.          *)
THEOREM RegionsDisjointCorrect == Spec => []RegionsDisjoint
<1>1. Init => RegionsDisjoint
  BY DEF Init, RegionsDisjoint, Regions, NoMap
<1>2. TypeOK /\ RegionsDisjoint /\ [Next]_vars => RegionsDisjoint'
  <2> SUFFICES ASSUME TypeOK, RegionsDisjoint, [Next]_vars PROVE RegionsDisjoint'
    OBVIOUS
  <2>1. CASE lastMap' = lastMap
    BY <2>1 DEF RegionsDisjoint
  <2>2. CASE lastMap' # lastMap
    BY <2>2, OnlyBuildMaps, BuildDisjoint
  <2>3. QED
    BY <2>1, <2>2
<1>3. QED
  BY <1>1, <1>2, TypeCorrect, PTL DEF Spec

-----------------------------------------------------------------------------
(* Every set of natural numbers that is not empty has a least element.      *)
LEMMA LeastElement ==
    ASSUME NEW T \in SUBSET Nat, T # {}
    PROVE  \E x \in T : \A y \in T : x <= y
<1>1. PICK x \in T : \A y \in T : ~ (<<y, x>> \in OpToRel(<, Nat))
  BY WFMin, NatLessThanWellFounded, Zenon
<1>2. ASSUME NEW y \in T PROVE ~ (y < x)
  BY <1>1, Zenon DEF OpToRel
<1>3. QED
  BY <1>2

(* The data loop never walks into the Request region: when maintenance ends *)
(* before it, so does every data region and the loop's last offset.  The    *)
(* first SID placed too far would have been placed where a SID before it    *)
(* ended, and that one either got mini-slots, which end in front of the     *)
(* region, or none, and then stood just as far itself.                      *)
LEMMA DataEndsBeforeRequest ==
    ASSUME TypeOK, MaintEnd + RequestRegion <= Span,
           NEW offset \in [Wanting -> MaintEnd..Span], NEW end \in MaintEnd..Span,
           Places(offset), DataEnds(offset, end)
    PROVE  end + RequestRegion <= Span
<1> DEFINE End(s) == offset[s] + GrantLength(s, offset[s])
           limit == Span - RequestRegion
           far == {s \in Wanting : offset[s] > limit}
<1>1. MaintEnd \in Nat /\ Span \in Nat /\ RequestRegion \in Nat /\ limit \in Nat
  BY MaintType, SpanType, SizeAssumption
<1>2. MaintEnd <= limit
  BY <1>1
<1>3. \A s \in Wanting : s \in Nat /\ offset[s] \in Nat
  BY <1>1, SidsAssumption DEF Wanting
<1>4. ASSUME NEW s \in Wanting, offset[s] <= limit
      PROVE  End(s) <= limit
  <2>1. /\ GrantLength(s, offset[s]) \in Nat
        /\ GrantLength(s, offset[s]) > 0 => End(s) <= limit
    BY <1>3, GrantLengthBounds
  <2>2. QED
    BY <1>1, <1>3, <1>4, <2>1
<1>5. far = {}
  <2> SUFFICES ASSUME far # {} PROVE FALSE
    OBVIOUS
  <2>1. far \in SUBSET Nat
    BY <1>3
  <2>2. PICK s \in far : \A t \in far : s <= t
    BY <2>1, LeastElement
  <2>3. s \in Wanting /\ offset[s] > limit
    OBVIOUS
  <2>4. offset[s] \in {MaintEnd} \union {End(t) : t \in {u \in Wanting : u < s}}
    BY <2>3 DEF Places
  <2>5. PICK t \in Wanting : t < s /\ offset[s] = End(t)
    BY <1>1, <1>2, <2>3, <2>4
  <2>6. t \notin far
    BY <1>3, <2>2, <2>3, <2>5
  <2>7. offset[t] <= limit
    BY <1>1, <1>3, <2>6
  <2>8. End(t) <= limit
    BY <1>4, <2>7
  <2>9. QED
    BY <1>1, <1>3, <2>3, <2>5, <2>8
<1>6. \A s \in Wanting : End(s) <= limit
  BY <1>1, <1>3, <1>4, <1>5
<1>7. end \in {MaintEnd} \union {End(s) : s \in Wanting}
  BY DEF DataEnds
<1>8. end <= limit
  BY <1>2, <1>6, <1>7
<1>9. QED
  BY <1>1, <1>8

(* What DataShare says of the MAP a call of build() leaves behind.          *)
LEMMA BuildShares == TypeOK /\ Build => DataShare'
<1> SUFFICES ASSUME TypeOK, Build PROVE DataShare'
  OBVIOUS
<1>1. PICK offset \in [Wanting -> MaintEnd..Span], end \in MaintEnd..Span :
        /\ Places(offset)
        /\ DataEnds(offset, end)
        /\ lastMap' = MapFor(offset, end)
  BY DEF Build
<1>2. MaintEnd \in Nat /\ Span \in Nat /\ RequestRegion \in Nat /\ end \in Nat
  BY MaintType, SpanType, SizeAssumption
<1>3. /\ lastMap'.initial = InitialLength
      /\ lastMap'.polled = Polled
      /\ lastMap'.waiting = NoRoom(offset) \union NothingToGrant(offset)
      /\ lastMap'.request = AtLeast(0, AtMost(RequestRegion, Span - end))
      /\ \A s \in Wanting : lastMap'.offset[s] = offset[s]
  BY <1>1 DEF MapFor, Wanting
<1>4. ContentionReserved'
  <2> SUFFICES ASSUME MaintEnd + RequestRegion <= Span
               PROVE  lastMap'.request = RequestRegion
    BY <1>3 DEF ContentionReserved, MaintEnd
  <2>1. end + RequestRegion <= Span
    BY <1>1, DataEndsBeforeRequest
  <2>2. QED
    BY <1>2, <1>3, <2>1 DEF AtLeast, AtMost
<1>5. WaitOnlyWhenFull'
  <2>1. \A s \in Wanting : offset[s] \in Nat
    BY <1>2
  <2>2. \A s \in Wanting : GrantLength(s, offset[s]) = 0 => offset[s] >= Span - RequestRegion
    BY <2>1, GrantLengthBounds
  <2>3. ASSUME NEW s \in NoRoom(offset) \union NothingToGrant(offset)
        PROVE  s \in Wanting /\ GrantLength(s, offset[s]) = 0
    <3>1. s \in Wanting
      BY DEF NoRoom, NothingToGrant
    <3>2. QED
      BY <3>1, LoopAnswers
  <2>4. QED
    BY <1>3, <2>2, <2>3 DEF WaitOnlyWhenFull
<1>6. QED
  BY <1>4, <1>5 DEF DataShare

(* Data and contention share every MAP as the code promises: a full Request *)
(* region whenever maintenance leaves room for one, and "wait" only to      *)
(* modems for which there was no room left in front of it.                  *)
THEOREM DataShareCorrect == Spec => []DataShare
<1>1. Init => DataShare
  BY DEF Init, DataShare, ContentionReserved, WaitOnlyWhenFull, NoMap
<1>2. TypeOK /\ DataShare /\ [Next]_vars => DataShare'
  <2> SUFFICES ASSUME TypeOK, DataShare, [Next]_vars PROVE DataShare'
    OBVIOUS
  <2>1. CASE lastMap' = lastMap
    BY <2>1 DEF DataShare, ContentionReserved, WaitOnlyWhenFull
  <2>2. CASE lastMap' # lastMap
    BY <2>2, OnlyBuildMaps, BuildShares
  <2>3. QED
    BY <2>1, <2>2
<1>3. QED
  BY <1>1, <1>2, TypeCorrect, PTL DEF Spec

-----------------------------------------------------------------------------
(* When a MAP has room for the polls of the SIDs up to s, the loop over     *)
(* sorted SIDs does not break before s: if s is due, it is polled.          *)
LEMMA DuePolled ==
    ASSUME TypeOK, NEW s \in Due, RoomUpTo(s)
    PROVE  s \in Polled
<1> DEFINE due == {t \in Due : t <= s}
           all == {t \in Sids : t <= s}
<1>1. Due \in SUBSET Sids /\ IsFiniteSet(Sids)
  BY SidsAssumption DEF TypeOK, Due
<1>2. InitialLength \in Nat /\ InitialLength <= InitialNeed
      /\ InitialNeed \in Nat /\ StationNeed \in Nat /\ Span \in Nat
  BY MaintType, SizeAssumption, SpanType DEF InitialLength
<1>3. IsFiniteSet(all) /\ due \in SUBSET all
  BY <1>1, FS_Subset
<1>4. Cardinality(due) \in Nat /\ Cardinality(all) \in Nat
      /\ Cardinality(due) <= Cardinality(all)
  BY <1>3, FS_Subset, FS_CardinalityType
<1>5. /\ PollEnd(s) = InitialLength + StationNeed * Cardinality(due)
      /\ InitialNeed + StationNeed * Cardinality(all) <= Span
  BY DEF PollEnd, RoomUpTo
<1> HIDE DEF due, all
<1>6. StationNeed * Cardinality(due) <= StationNeed * Cardinality(all)
  BY <1>2, <1>4, TimesMonotone
<1>7. StationNeed * Cardinality(due) \in Nat /\ StationNeed * Cardinality(all) \in Nat
  BY <1>2, <1>4
<1>8. PollEnd(s) <= Span
  BY <1>2, <1>5, <1>6, <1>7
<1>9. QED
  BY <1>8 DEF Polled

(* The MAP timer is never late and never more than an interval away, and no *)
(* modem's maintenance falls due more than an interval before it fires.     *)
(* Stated against the timer and not against the clock, it is inductive:     *)
(* the clock moves towards the timer, and the timer moves on only when a    *)
(* MAP has polled every modem that was due.                                 *)
OnTimeInv ==
    /\ now <= nextBuild
    /\ nextBuild <= now + MapInterval
    /\ \A s \in tracked : RoomUpTo(s) => maintDue[s] + MapInterval >= nextBuild

LEMMA BuildOnTime == TypeOK /\ OnTimeInv /\ Build => OnTimeInv'
<1> SUFFICES ASSUME TypeOK, OnTimeInv, Build PROVE OnTimeInv'
  OBVIOUS
<1>1. now \in Nat /\ MapInterval \in Nat /\ MapAdvance \in Nat
      /\ StationMaintInterval \in Nat /\ StationMaintIntervalRanging \in Nat
  BY TimeAssumption DEF TypeOK
<1>2. now' = now /\ nextBuild' = now + MapInterval /\ tracked' = tracked
  BY DEF Build
<1>3. StartOf(AllocStart) \in Nat /\ StartOf(AllocStart) > now
      /\ StartOf(AllocStart + Span) \in Nat /\ StartOf(AllocStart + Span) > now
  <2>1. AllocStart \in Nat /\ Span \in Nat /\ Duration \in Nat
    BY AllocStartBounds, SpanType, TimeAssumption
  <2>2. StartOf(AllocStart) > now + MapAdvance
    BY AllocStartBounds
  <2>3. StartOf(AllocStart) \in Nat
    BY <2>1 DEF StartOf
  <2>4. StartOf(AllocStart + Span) \in Nat /\ StartOf(AllocStart + Span) >= StartOf(AllocStart)
    BY <2>1 DEF StartOf
  <2>5. QED
    BY <1>1, <2>2, <2>3, <2>4
<1>4. ASSUME NEW s \in tracked, RoomUpTo(s)
      PROVE  maintDue'[s] >= now
  <2>1. s \in Sids /\ maintDue[s] \in Nat
    BY DEF TypeOK, Sizes
  <2>2. CASE s \in Polled
    BY <1>1, <1>3, <2>1, <2>2 DEF Build
  <2>3. CASE s \notin Polled
    <3>1. maintDue[s] > StartOf(AllocStart + Span)
      BY <1>3, <1>4, <2>1, <2>3, DuePolled DEF Due
    <3>2. maintDue'[s] = maintDue[s]
      BY <2>1, <2>3 DEF Build
    <3>3. QED
      BY <1>1, <1>3, <2>1, <3>1, <3>2
  <2>4. QED
    BY <2>2, <2>3
<1>5. \A s \in tracked : maintDue'[s] \in Nat
  BY BuildType DEF TypeOK, Sizes
<1>6. QED
  BY <1>1, <1>2, <1>4, <1>5 DEF OnTimeInv, RoomUpTo, Span

LEMMA OnTimeInductive == TypeOK /\ OnTimeInv /\ [Next]_vars => OnTimeInv'
<1> SUFFICES ASSUME TypeOK, OnTimeInv, [Next]_vars PROVE OnTimeInv'
  OBVIOUS
<1>1. now \in Nat /\ nextBuild \in Nat /\ MapInterval \in Nat /\ Grain \in Nat \ {0}
      /\ StationMaintInterval \in Nat
      /\ \A s \in Sids : maintDue[s] \in Nat
  BY TimeAssumption DEF TypeOK, Sizes
<1>2. tracked \in SUBSET Sids /\ DOMAIN maintDue = Sids
  BY DEF TypeOK, Sizes
<1>3. ASSUME NEW s \in Sids, NEW r \in BOOLEAN, TrackModem(s, r)
      PROVE  OnTimeInv'
  BY <1>1, <1>2, <1>3 DEF TrackModem, OnTimeInv, RoomUpTo, Span, TypeOK, Sizes
<1>4. ASSUME NEW s \in Sids, UntrackModem(s)
      PROVE  OnTimeInv'
  BY <1>1, <1>2, <1>4 DEF UntrackModem, OnTimeInv, RoomUpTo, Span, TypeOK, Sizes
<1>5. ASSUME NEW s \in Sids, RangingComplete(s)
      PROVE  OnTimeInv'
  BY <1>1, <1>2, <1>5 DEF RangingComplete, OnTimeInv, RoomUpTo, Span, TypeOK, Sizes
<1>6. CASE Build
  BY <1>6, BuildOnTime
<1>7. CASE Tick
  <2>1. now' \in Nat /\ now <= now' /\ now' <= nextBuild
    BY <1>1, <1>7 DEF Tick, AtMost
  <2>2. nextBuild' <= now' + MapInterval /\ now' <= nextBuild'
    BY <1>1, <1>7, <2>1 DEF Tick, OnTimeInv
  <2>3. UNCHANGED <<nextBuild, tracked, maintDue>>
    BY <1>7 DEF Tick
  <2>4. (\A s \in tracked : RoomUpTo(s) => maintDue[s] + MapInterval >= nextBuild)'
    BY <2>3 DEF OnTimeInv, RoomUpTo, Span
  <2>5. QED
    BY <2>2, <2>4 DEF OnTimeInv
<1>8. CASE UNCHANGED <<now, nextBuild, tracked, maintDue>>
  BY <1>8 DEF OnTimeInv, RoomUpTo, Span
<1>9. QED
  BY <1>3, <1>4, <1>5, <1>6, <1>7, <1>8 DEF Next, vars, AddRequest, AddUnsolicited

(* With room in a MAP for the polls of the SIDs up to s, the scheduler      *)
(* never lets the maintenance of s slip by more than a MAP interval,        *)
(* however modems join, leave, range and ask for bandwidth meanwhile.       *)
THEOREM PollsOnTimeCorrect == Spec => []PollsOnTime
<1>1. Init => OnTimeInv
  BY TimeAssumption DEF Init, OnTimeInv
<1>2. TypeOK /\ OnTimeInv => PollsOnTime
  <2> SUFFICES ASSUME TypeOK, OnTimeInv, NEW s \in tracked, RoomUpTo(s)
               PROVE  maintDue[s] + MapInterval >= now
    BY DEF PollsOnTime
  <2>1. now \in Nat /\ nextBuild \in Nat /\ MapInterval \in Nat /\ maintDue[s] \in Nat
    BY TimeAssumption DEF TypeOK, Sizes
  <2>2. QED
    BY <2>1 DEF OnTimeInv
<1>3. QED
  BY <1>1, <1>2, OnTimeInductive, TypeCorrect, PTL DEF Spec

-----------------------------------------------------------------------------
(***************************************************************************)
(* The sizing of upstream bursts: what a profile of the channel carries in *)
(* a grant, what a modem asks for, and what it then puts in.               *)
(***************************************************************************)
LEMMA UpTo ==
    ASSUME NEW N \in Nat, NEW T, 0 \in T, \A k \in 0 .. N - 1 : k \in T => k + 1 \in T
    PROVE  0 .. N \subseteq T
<1> SUFFICES ASSUME ~(0 .. N \subseteq T) PROVE FALSE
  OBVIOUS
<1> DEFINE Out == {n \in 0 .. N : n \notin T}
<1>1. Out \in SUBSET Nat /\ Out # {}
  OBVIOUS
<1>2. \E x \in Out : \A y \in Out : ~ (<<y, x>> \in OpToRel(<, Nat))
  <2> HIDE DEF Out
  <2> QED BY <1>1, WFMin, NatLessThanWellFounded, Zenon
<1>3. PICK x \in Out : \A y \in Out : ~ (<<y, x>> \in OpToRel(<, Nat))
  BY <1>2, Zenon
<1>4. x \in Nat /\ x # 0 /\ x - 1 \in Nat /\ x - 1 < x
  OBVIOUS
<1>5. x - 1 \notin Out
  <2> HIDE DEF Out
  <2>1. <<x - 1, x>> \in OpToRel(<, Nat)
    BY <1>4, Zenon DEF OpToRel
  <2> QED BY <1>3, <2>1, Zenon
<1>6. QED
  BY <1>4, <1>5

(* Rounding up: a quotient, and one that grows with the dividend.           *)
LEMMA Product == ASSUME NEW b \in Nat \ {0}, NEW x \in Int, NEW y \in Int, x < y
                 PROVE  b * x + b <= b * y /\ b * x \in Int /\ b * y \in Int
<1>1. PICK d \in Nat : y = x + 1 + d
  <2>1. y - x - 1 \in Nat /\ y = x + 1 + (y - x - 1)
    OBVIOUS
  <2>2. QED
    BY <2>1
<1>2. b * y = b * x + b + b * d /\ b * d \in Nat /\ b * x \in Int
  BY <1>1
<1>3. QED
  BY <1>2

LEMMA Quotient ==
    ASSUME NEW a \in Nat, NEW b \in Nat \ {0}
    PROVE  /\ a \div b \in Nat
           /\ b * (a \div b) <= a /\ a < b * (a \div b) + b
<1>1. a \div b \in Nat /\ a % b \in 0 .. b - 1 /\ a = b * (a \div b) + (a % b)
  BY SMTT(20)
<1>2. b * (a \div b) \in Int
  BY <1>1
<1> DEFINE p == b * (a \div b)
<1> HIDE DEF p
<1>3. a = p + (a % b) /\ p \in Int
  BY <1>1, <1>2 DEF p
<1>4. p <= a /\ a < p + b
  BY <1>1, <1>3
<1>5. QED
  BY <1>1, <1>4 DEF p

LEMMA CeilDivIs ==
    ASSUME NEW a \in Nat, NEW b \in Nat \ {0}
    PROVE  /\ CeilDiv(a, b) \in Nat
           /\ \A k \in Nat : a > b * k => CeilDiv(a, b) > k
<1> DEFINE q == (a + b - 1) \div b
<1>0. a + b - 1 \in Nat
  OBVIOUS
<1>1. q \in Nat /\ a + b - 1 < b * q + b
  BY <1>0, Quotient
<1>2. CeilDiv(a, b) = q
  BY DEF CeilDiv
<1> HIDE DEF q
<1>3. ASSUME NEW k \in Nat, a > b * k PROVE q > k
  <2> SUFFICES ASSUME ~(q > k) PROVE FALSE
    OBVIOUS
  <2>1. b * q <= b * k /\ b * q \in Int /\ b * k \in Int
    <3>1. CASE q = k
      BY <1>1, <3>1
    <3>2. CASE q < k
      <4>1. b * q + b <= b * k /\ b * q \in Int /\ b * k \in Int
        BY <1>1, <3>2, Product
      <4>2. \A x, y \in Int : x + b <= y => x <= y
        OBVIOUS
      <4>3. QED
        BY <4>1, <4>2
    <3>3. QED
      BY <1>1, <3>1, <3>2
  <2>2. \A x, y \in Int : ~(a + b - 1 < x + b /\ x <= y /\ a > y)
    OBVIOUS
  <2>3. QED
    BY <1>1, <1>3, <2>1, <2>2
<1>4. QED
  BY <1>1, <1>2, <1>3

LEMMA CeilDivGrows ==
    ASSUME NEW a \in Nat, NEW c \in Nat, a <= c, NEW b \in Nat \ {0}
    PROVE  CeilDiv(a, b) <= CeilDiv(c, b)
<1> DEFINE x == a + b - 1
           y == c + b - 1
           q == x \div b
           r == y \div b
<1>1. x \in Nat /\ y \in Nat /\ x <= y
  OBVIOUS
<1>2. q \in Nat /\ r \in Nat /\ b * q <= x /\ y < b * r + b
  <2> HIDE DEF x, y
  <2> QED BY <1>1, Quotient
<1>3. CeilDiv(a, b) = q /\ CeilDiv(c, b) = r
  BY DEF CeilDiv
<1> HIDE DEF x, y, q, r
<1>4. ~(r < q)
  <2> SUFFICES ASSUME r < q PROVE FALSE
    OBVIOUS
  <2>1. b * r + b <= b * q /\ b * r \in Int /\ b * q \in Int
    BY <1>2, Product
  <2>2. \A s, t \in Int : ~(s + b <= t /\ t <= x /\ y < s + b)
    BY <1>1
  <2>3. QED
    BY <1>2, <2>1, <2>2
<1>5. QED
  BY <1>2, <1>3, <1>4

-----------------------------------------------------------------------------
LEMMA ProfileTyped ==
    ASSUME NEW iuc \in Iucs
    PROVE  /\ Profile[iuc].bits \in Nat \ {0} /\ Profile[iuc].t \in Nat
           /\ Profile[iuc].k \in Nat \ {0} /\ Profile[iuc].max \in {0, 12}
<1>1. DataBits \in Nat \ {0}
  BY SizingAssumption
<1>2. QED
  BY <1>1 DEF Profile, Iucs, Short, Long, AdvShort, AdvLong

(* Every payload takes some number of mini-slots, a larger one no fewer.    *)
LEMMA MinislotsGrow ==
    ASSUME NEW iuc \in Iucs, NEW a \in Nat, NEW c \in Nat, a <= c
    PROVE  /\ MinislotsFor(a, iuc) \in Nat
           /\ MinislotsFor(a, iuc) <= MinislotsFor(c, iuc)
<1>1. PICK b, t, k : /\ b = Profile[iuc].bits /\ t = Profile[iuc].t /\ k = Profile[iuc].k
                     /\ b \in Nat \ {0} /\ t \in Nat /\ k \in Nat \ {0}
  BY ProfileTyped
<1>2. PICK slot : slot = SymbolsPerSlot * b
  OBVIOUS
<1>3. slot \in Nat \ {0}
  BY <1>1, <1>2, SizingAssumption
<1>4. PICK m, n \in Nat : m = CeilDiv(a, k) /\ n = CeilDiv(c, k) /\ m <= n
  <2>1. /\ CeilDiv(a, k) \in Nat /\ CeilDiv(c, k) \in Nat
        /\ CeilDiv(a, k) <= CeilDiv(c, k)
    BY <1>1, CeilDivIs, CeilDivGrows, Zenon
  <2>2. QED
    BY <2>1
<1>5. PICK g \in Nat : g = PreambleAndGuard * b
  BY <1>1 DEF PreambleAndGuard
<1>6. PICK d \in Nat : n = m + d
  <2>1. n - m \in Nat /\ n = m + (n - m)
    BY <1>4
  <2>2. QED
    BY <2>1
<1>7. m * 2 * t \in Nat /\ d * 2 * t \in Nat /\ n * 2 * t = m * 2 * t + d * 2 * t
  BY <1>1, <1>4, <1>6
<1>8. PICK p, q \in Nat : p = m * 2 * t /\ q = n * 2 * t /\ p <= q
  BY <1>7
<1>9. /\ MinislotsFor(a, iuc) = CeilDiv(8 * (a + p) + g, slot)
      /\ MinislotsFor(c, iuc) = CeilDiv(8 * (c + q) + g, slot)
  BY <1>1, <1>2, <1>4, <1>5, <1>8, Zenon DEF MinislotsFor, FecEncodedSize
<1>10. /\ 8 * (a + p) + g \in Nat /\ 8 * (c + q) + g \in Nat
       /\ 8 * (a + p) + g <= 8 * (c + q) + g
  BY <1>5, <1>8
<1>11. PICK x, y \in Nat : x = 8 * (a + p) + g /\ y = 8 * (c + q) + g /\ x <= y
  BY <1>10, Zenon
<1>12. MinislotsFor(a, iuc) = CeilDiv(x, slot) /\ MinislotsFor(c, iuc) = CeilDiv(y, slot)
  BY <1>9, <1>11, Zenon
<1>13. CeilDiv(x, slot) \in Nat /\ CeilDiv(x, slot) <= CeilDiv(y, slot)
  BY <1>3, <1>11, CeilDivIs, CeilDivGrows, Zenon
<1>14. QED
  BY <1>12, <1>13, Zenon

(* The bisection, as a table: the largest payload from lo to hi that fits   *)
(* into m mini-slots, lo if none does.                                      *)
Largest(m, iuc, lo, hi, n) ==
    /\ n \in Nat
    /\ lo >= hi => n = lo
    /\ lo < hi => /\ n \in lo .. hi
                  /\ n = lo \/ MinislotsFor(n, iuc) <= m
                  /\ \A k \in n + 1 .. hi : MinislotsFor(k, iuc) > m

LEMMA LargestExists ==
    ASSUME NEW m \in Nat, NEW iuc \in Iucs, NEW lo \in Nat, NEW hi \in Nat
    PROVE  \E n : Largest(m, iuc, lo, hi, n)
<1>1. CASE lo >= hi
  BY <1>1 DEF Largest
<1>2. CASE lo < hi
  <2> SUFFICES ASSUME \A n : ~Largest(m, iuc, lo, hi, n) PROVE FALSE
    OBVIOUS
  <2> DEFINE N == hi - lo
             T == {d \in 0 .. N : \A k \in hi - d + 1 .. hi : MinislotsFor(k, iuc) > m}
  <2>1. N \in Nat /\ 0 \in T
    BY <1>2
  <2>2. ASSUME NEW d \in 0 .. N - 1, d \in T PROVE d + 1 \in T
    <3>1. hi - d \in lo .. hi /\ hi - d \in Nat /\ hi - d # lo
      BY <1>2
    <3>2. \A k \in (hi - d) + 1 .. hi : MinislotsFor(k, iuc) > m
      BY <2>2
    <3>3. ~(MinislotsFor(hi - d, iuc) <= m)
      BY <1>2, <3>1, <3>2 DEF Largest
    <3>4. MinislotsFor(hi - d, iuc) > m
      BY <3>1, <3>3, MinislotsGrow
    <3>5. ASSUME NEW k \in hi - (d + 1) + 1 .. hi PROVE MinislotsFor(k, iuc) > m
      <4>1. k = hi - d \/ k \in (hi - d) + 1 .. hi
        OBVIOUS
      <4>2. QED
        BY <3>2, <3>4, <4>1
    <3>6. QED
      BY <2>1, <3>5
  <2>3. N \in T
    <3> HIDE DEF T
    <3>1. 0 .. N \subseteq T
      BY <2>1, <2>2, UpTo
    <3>2. QED
      BY <2>1, <3>1
  <2>4. \A k \in lo + 1 .. hi : MinislotsFor(k, iuc) > m
    BY <1>2, <2>3
  <2>5. Largest(m, iuc, lo, hi, lo)
    BY <1>2, <2>4 DEF Largest
  <2>6. QED
    BY <2>5
<1>3. QED
  BY <1>1, <1>2

LEMMA LargestInOrder ==
    ASSUME NEW m \in Nat, NEW iuc \in Iucs, NEW lo \in Nat, NEW hi \in Nat,
           NEW a, NEW b, Largest(m, iuc, lo, hi, a), Largest(m, iuc, lo, hi, b)
    PROVE  b \in Nat /\ ~(a < b)
<1>1. CASE lo >= hi
  BY <1>1 DEF Largest
<1>2. CASE lo < hi
  <2>1. /\ a \in lo .. hi /\ \A k \in a + 1 .. hi : MinislotsFor(k, iuc) > m
        /\ b \in lo .. hi /\ (b = lo \/ MinislotsFor(b, iuc) <= m)
    BY <1>2 DEF Largest
  <2>2. ASSUME a < b PROVE FALSE
    <3>1. b \in a + 1 .. hi /\ b # lo /\ b \in Nat
      BY <2>1, <2>2
    <3>2. MinislotsFor(b, iuc) <= m /\ MinislotsFor(b, iuc) > m /\ MinislotsFor(b, iuc) \in Nat
      BY <2>1, <3>1, MinislotsGrow
    <3>3. QED
      BY <3>2
  <2>3. QED
    BY <2>1, <2>2
<1>3. QED
  BY <1>1, <1>2

LEMMA LargestUnique ==
    ASSUME NEW m \in Nat, NEW iuc \in Iucs, NEW lo \in Nat, NEW hi \in Nat,
           NEW a, NEW b, Largest(m, iuc, lo, hi, a), Largest(m, iuc, lo, hi, b)
    PROVE  a = b
<1>1. a \in Nat /\ b \in Nat /\ ~(a < b) /\ ~(b < a)
  BY LargestInOrder
<1>2. QED
  BY <1>1

(* One step of the search: the middle fits, or all above it do not.         *)
LEMMA LargestStep ==
    ASSUME NEW m \in Nat, NEW iuc \in Iucs, NEW lo \in Nat, NEW hi \in Nat, lo < hi,
           NEW mid, mid = (lo + hi + 1) \div 2, NEW n
    PROVE  /\ mid \in Nat /\ mid - 1 \in Nat
           /\ MinislotsFor(mid, iuc) <= m /\ Largest(m, iuc, mid, hi, n)
                  => Largest(m, iuc, lo, hi, n)
           /\ ~(MinislotsFor(mid, iuc) <= m) /\ Largest(m, iuc, lo, mid - 1, n)
                  => Largest(m, iuc, lo, hi, n)
<1>1. mid \in lo + 1 .. hi /\ mid \in Nat /\ mid - 1 \in Nat
  OBVIOUS
<1>2. ASSUME MinislotsFor(mid, iuc) <= m, Largest(m, iuc, mid, hi, n)
      PROVE  Largest(m, iuc, lo, hi, n)
  <2>1. CASE mid >= hi
    <3>1. mid = hi /\ n = hi
      BY <1>1, <1>2, <2>1 DEF Largest
    <3>2. QED
      BY <1>2, <3>1 DEF Largest
  <2>2. CASE mid < hi
    BY <1>1, <1>2, <2>2 DEF Largest
  <2>3. QED
    BY <1>1, <2>1, <2>2
<1>3. ASSUME ~(MinislotsFor(mid, iuc) <= m), Largest(m, iuc, lo, mid - 1, n)
      PROVE  Largest(m, iuc, lo, hi, n)
  <2>1. ASSUME NEW k \in mid .. hi PROVE MinislotsFor(k, iuc) > m
    <3>1. k \in Nat /\ mid <= k
      BY <1>1
    <3>2. /\ MinislotsFor(mid, iuc) \in Nat /\ MinislotsFor(k, iuc) \in Nat
          /\ MinislotsFor(mid, iuc) <= MinislotsFor(k, iuc)
      BY <1>1, <3>1, MinislotsGrow
    <3>3. QED
      BY <1>3, <3>2
  <2>2. CASE lo >= mid - 1
    <3>1. n = lo /\ mid = lo + 1
      BY <1>1, <1>3, <2>2 DEF Largest
    <3>2. QED
      BY <2>1, <3>1 DEF Largest
  <2>3. CASE lo < mid - 1
    <3>1. /\ n \in lo .. mid - 1 /\ n \in Nat
          /\ n = lo \/ MinislotsFor(n, iuc) <= m
          /\ \A k \in n + 1 .. mid - 1 : MinislotsFor(k, iuc) > m
      BY <1>3, <2>3 DEF Largest
    <3>2. \A k \in n + 1 .. hi : MinislotsFor(k, iuc) > m
      <4>1. \A k \in n + 1 .. hi : k \in n + 1 .. mid - 1 \/ k \in mid .. hi
        BY <1>1, <3>1
      <4>2. QED
        BY <2>1, <3>1, <4>1
    <3>3. n \in lo .. hi
      BY <1>1, <3>1
    <3>4. QED
      BY <3>1, <3>2, <3>3 DEF Largest
  <2>4. QED
    BY <1>1, <2>2, <2>3
<1>4. QED
  BY <1>1, <1>2, <1>3

LEMMA BytesTyped ==
    ASSUME NEW iuc \in Iucs
    PROVE  BytesPerMinislot(iuc) \in Nat
<1>1. PICK bits \in Nat : bits = Profile[iuc].bits
  BY ProfileTyped
<1>2. PICK slot \in Nat : slot = SymbolsPerSlot * bits
  BY <1>1, SizingAssumption
<1>3. QED
  BY <1>1, <1>2, Quotient DEF BytesPerMinislot

(* What a grant holds is what the bisection of payload_capacity is to find. *)
LEMMA CapacityIs ==
    ASSUME NEW m \in 0 .. 255, NEW iuc \in Iucs
    PROVE  Largest(m, iuc, 0, m * BytesPerMinislot(iuc) + 1, PayloadCapacity[m][iuc])
<1> DEFINE Step(f, r) ==
               LET lo  == r[1]
                   hi  == r[2]
                   mid == (lo + hi + 1) \div 2
               IN  IF lo >= hi THEN lo
                   ELSE IF MinislotsFor(mid, iuc) <= m THEN f[<<mid, hi>>]
                   ELSE f[<<lo, mid - 1>>]
           Recursive(f) == f = [r \in Nat \X Nat |-> Step(f, r)]
           search == CHOOSE f : Recursive(f)
           most == m * BytesPerMinislot(iuc) + 1
           Found(r, n) == Largest(m, iuc, r[1], r[2], n)
<1>1. PayloadCapacity[m][iuc] = search[<<0, most>>]
  BY DEF PayloadCapacity
<1>2. m \in Nat
  OBVIOUS
<1>3. PICK g : g = [r \in Nat \X Nat |-> CHOOSE n : Found(r, n)]
  OBVIOUS
<1>4. ASSUME NEW lo \in Nat, NEW hi \in Nat PROVE Largest(m, iuc, lo, hi, g[<<lo, hi>>])
  <2>1. \E n : Found(<<lo, hi>>, n)
    BY <1>2, LargestExists
  <2>2. g[<<lo, hi>>] = CHOOSE n : Found(<<lo, hi>>, n)
    <3> HIDE DEF Found
    <3> QED BY <1>3
  <2>3. Found(<<lo, hi>>, g[<<lo, hi>>])
    <3> HIDE DEF Found
    <3> QED BY <2>1, <2>2
  <2>4. QED
    BY <2>3
<1>5. ASSUME NEW lo \in Nat, NEW hi \in Nat, lo < hi,
             NEW f, \A a, b \in Nat : b - a < hi - lo => Largest(m, iuc, a, b, f[<<a, b>>])
      PROVE  Largest(m, iuc, lo, hi, Step(f, <<lo, hi>>))
  <2>1. PICK mid : mid = (lo + hi + 1) \div 2
    OBVIOUS
  <2>2. mid \in Nat /\ mid - 1 \in Nat /\ hi - mid < hi - lo /\ (mid - 1) - lo < hi - lo
    BY <1>5, <2>1
  <2>3. Step(f, <<lo, hi>>) = IF MinislotsFor(mid, iuc) <= m THEN f[<<mid, hi>>]
                              ELSE f[<<lo, mid - 1>>]
    BY <1>5, <2>1
  <2>4. Largest(m, iuc, mid, hi, f[<<mid, hi>>]) /\ Largest(m, iuc, lo, mid - 1, f[<<lo, mid - 1>>])
    BY <1>5, <2>2
  <2> HIDE DEF Step
  <2>5. CASE MinislotsFor(mid, iuc) <= m
    <3>1. Largest(m, iuc, lo, hi, f[<<mid, hi>>])
      BY <1>2, <1>5, <2>1, <2>4, <2>5, LargestStep
    <3>2. QED
      BY <2>3, <2>5, <3>1
  <2>6. CASE ~(MinislotsFor(mid, iuc) <= m)
    <3>1. Largest(m, iuc, lo, hi, f[<<lo, mid - 1>>])
      BY <1>2, <1>5, <2>1, <2>4, <2>6, LargestStep
    <3>2. QED
      BY <2>3, <2>6, <3>1
  <2>7. QED
    BY <2>5, <2>6
<1>6. ASSUME NEW lo \in Nat, NEW hi \in Nat PROVE g[<<lo, hi>>] = Step(g, <<lo, hi>>)
  <2>1. CASE lo >= hi
    BY <1>4, <2>1 DEF Largest
  <2>2. CASE lo < hi
    <3>1. Largest(m, iuc, lo, hi, Step(g, <<lo, hi>>))
      BY <1>4, <1>5, <2>2
    <3>2. Largest(m, iuc, lo, hi, g[<<lo, hi>>])
      BY <1>4
    <3> HIDE DEF Step
    <3>3. QED
      BY <1>2, <3>1, <3>2, LargestUnique
  <2>3. QED
    BY <2>1, <2>2
<1>7. Recursive(g)
  <2>1. PICK h : h = [r \in Nat \X Nat |-> Step(g, r)]
    OBVIOUS
  <2>2. ASSUME NEW r \in Nat \X Nat PROVE g[r] = h[r]
    <3>1. PICK lo \in Nat, hi \in Nat : r = <<lo, hi>>
      OBVIOUS
    <3>2. g[<<lo, hi>>] = Step(g, <<lo, hi>>)
      BY <1>6
    <3> HIDE DEF Step
    <3>3. QED
      BY <2>1, <3>1, <3>2
  <2>3. g = h
    <3> HIDE DEF Step, Found
    <3> QED BY <1>3, <2>1, <2>2
  <2>4. QED
    BY <2>1, <2>3
<1>8. Recursive(search)
  <2> HIDE DEF Recursive
  <2> QED BY <1>7
<1> HIDE DEF search
<1>9. \A r \in Nat \X Nat : search[r] = Step(search, r)
  <2> HIDE DEF Step
  <2> QED BY <1>8
<1>10. ASSUME NEW lo \in Nat, NEW hi \in Nat, lo >= hi
       PROVE  Largest(m, iuc, lo, hi, search[<<lo, hi>>])
  <2>1. search[<<lo, hi>>] = lo
    BY <1>9, <1>10
  <2>2. QED
    BY <1>10, <2>1 DEF Largest
<1>11. most \in Nat
  BY BytesTyped
<1> HIDE DEF most
<1> DEFINE T == {d \in 0 .. most : \A lo, hi \in Nat :
                    hi - lo <= d => Largest(m, iuc, lo, hi, search[<<lo, hi>>])}
<1>12. 0 \in T
  BY <1>10, <1>11
<1>13. ASSUME NEW d \in 0 .. most - 1, d \in T PROVE d + 1 \in T
  <2>1. ASSUME NEW lo \in Nat, NEW hi \in Nat, hi - lo <= d + 1, lo < hi
        PROVE  Largest(m, iuc, lo, hi, search[<<lo, hi>>])
    <3>1. ASSUME NEW a \in Nat, NEW b \in Nat, b - a < hi - lo
          PROVE  Largest(m, iuc, a, b, search[<<a, b>>])
      <4>1. b - a <= d
        BY <2>1, <3>1
      <4>2. QED
        BY <1>13, <4>1
    <3>2. Largest(m, iuc, lo, hi, Step(search, <<lo, hi>>))
      <4> HIDE DEF Step
      <4> QED BY <1>5, <2>1, <3>1
    <3>3. search[<<lo, hi>>] = Step(search, <<lo, hi>>)
      <4> HIDE DEF Step
      <4> QED BY <1>9
    <3>4. QED
      <4> HIDE DEF Step
      <4> QED BY <3>2, <3>3
  <2>2. ASSUME NEW lo \in Nat, NEW hi \in Nat, hi - lo <= d + 1
        PROVE  Largest(m, iuc, lo, hi, search[<<lo, hi>>])
    BY <1>10, <2>1, <2>2
  <2>3. d + 1 \in 0 .. most
    BY <1>11
  <2>4. QED
    BY <2>2, <2>3
<1>14. most \in T
  <2> HIDE DEF T
  <2>1. 0 .. most \subseteq T
    BY <1>11, <1>12, <1>13, UpTo
  <2>2. QED
    BY <1>11, <2>1
<1>15. Largest(m, iuc, 0, most, search[<<0, most>>])
  BY <1>11, <1>14
<1>16. QED
  BY <1>1, <1>15 DEF most

-----------------------------------------------------------------------------
(* What fits: as much as payload_capacity says, or less.                    *)
LEMMA CapacityHolds ==
    ASSUME NEW m \in 0 .. 255, NEW iuc \in Iucs, NEW bytes \in Nat \ {0},
           bytes <= PayloadCapacity[m][iuc]
    PROVE  MinislotsFor(bytes, iuc) <= m
<1>1. PICK n : n = PayloadCapacity[m][iuc]
  OBVIOUS
<1>2. n \in Nat /\ (n # 0 => MinislotsFor(n, iuc) <= m)
  <2>1. PICK most \in Nat : most = m * BytesPerMinislot(iuc) + 1
    BY BytesTyped
  <2>2. Largest(m, iuc, 0, most, n)
    BY <1>1, <2>1, CapacityIs
  <2>3. QED
    BY <2>2 DEF Largest
<1>3. /\ MinislotsFor(bytes, iuc) \in Nat /\ MinislotsFor(n, iuc) \in Nat
      /\ MinislotsFor(bytes, iuc) <= MinislotsFor(n, iuc)
  BY <1>1, <1>2, MinislotsGrow
<1>4. QED
  BY <1>1, <1>2, <1>3

(* ... and no more, where mini-slots are whole bytes.                       *)
WholeBytes == \A iuc \in Iucs : (SymbolsPerSlot * Profile[iuc].bits) % 8 = 0

LEMMA CapacityIsExact ==
    ASSUME WholeBytes, NEW m \in 0 .. 255, NEW iuc \in Iucs
    PROVE  HoldsExactly(m, iuc)
<1>1. PICK n : n = PayloadCapacity[m][iuc]
  OBVIOUS
<1>2. PICK most : most = m * BytesPerMinislot(iuc) + 1
  OBVIOUS
<1>3. Largest(m, iuc, 0, most, n)
  BY <1>1, <1>2, CapacityIs
<1>4. PICK bits \in Nat \ {0} : bits = Profile[iuc].bits
  BY ProfileTyped
<1>5. PICK slot \in Nat \ {0} : slot = SymbolsPerSlot * bits
  BY <1>4, SizingAssumption
<1>6. PICK q \in Nat : q = BytesPerMinislot(iuc) /\ slot = 8 * q
  <2>1. slot % 8 = 0
    BY <1>4, <1>5 DEF WholeBytes
  <2>2. slot \div 8 \in Nat /\ slot = 8 * (slot \div 8)
    BY <2>1
  <2>3. BytesPerMinislot(iuc) = slot \div 8
    BY <1>4, <1>5 DEF BytesPerMinislot
  <2>4. QED
    BY <2>2, <2>3
<1>7. PICK p \in Nat : p = m * q /\ slot * m = 8 * p
  <2>1. m * q \in Nat /\ slot * m = 8 * (m * q)
    BY <1>6
  <2>2. QED
    BY <2>1
<1>8. most = p + 1 /\ most \in Nat
  <2>1. most = m * q + 1
    BY <1>2, <1>6, Zenon
  <2>2. most = p + 1
    BY <1>7, <2>1, Zenon
  <2>3. QED
    BY <2>2
<1>9. ASSUME NEW bytes \in Nat, bytes > most PROVE MinislotsFor(bytes, iuc) > m
  <2>1. PICK fec \in Nat : FecEncodedSize(bytes, iuc) = bytes + fec
    <3>1. PICK k, t : k = Profile[iuc].k /\ t = Profile[iuc].t /\ k \in Nat \ {0} /\ t \in Nat
      BY ProfileTyped
    <3>2. CeilDiv(bytes, k) \in Nat
      BY <3>1, CeilDivIs
    <3>3. CeilDiv(bytes, k) * 2 * t \in Nat
      BY <3>1, <3>2
    <3>4. QED
      BY <3>1, <3>3 DEF FecEncodedSize
  <2>2. PICK g \in Nat : g = PreambleAndGuard * bits
    BY DEF PreambleAndGuard
  <2>3. PICK x \in Nat : x = 8 * (bytes + fec) + g
    OBVIOUS
  <2>4. MinislotsFor(bytes, iuc) = CeilDiv(x, slot)
    BY <1>4, <1>5, <2>1, <2>2, <2>3, Zenon DEF MinislotsFor
  <2>5. x > slot * m
    BY <1>7, <1>8, <1>9, <2>3
  <2>6. QED
    BY <2>4, <2>5, CeilDivIs
<1>10. /\ n \in 0 .. most /\ (n = 0 \/ MinislotsFor(n, iuc) <= m)
       /\ \A k \in n + 1 .. most : MinislotsFor(k, iuc) > m
  BY <1>3, <1>8 DEF Largest
<1>11. MinislotsFor(n + 1, iuc) > m
  <2>1. n + 1 \in Nat /\ (n + 1 > most \/ n + 1 \in n + 1 .. most)
    BY <1>8, <1>10
  <2>2. QED
    BY <1>9, <1>10, <2>1
<1>12. QED
  BY <1>1, <1>10, <1>11 DEF HoldsExactly

-----------------------------------------------------------------------------
(* The bytes of some frames.                                                *)
Summed(frames, sum) ==
    sum = [n \in 0 .. Len(frames) |-> IF n = 0 THEN 0 ELSE sum[n - 1] + frames[n]]

LEMMA Sums ==
    ASSUME NEW frames \in Seq(Nat)
    PROVE  \E sum \in [0 .. Len(frames) -> Nat] : Summed(frames, sum)
<1> DEFINE N == Len(frames)
           Upto(g, k) == \A n \in 0 .. k : g[n] = IF n = 0 THEN 0 ELSE g[n - 1] + frames[n]
           Reached == {k \in 0 .. N : \E g \in [0 .. N -> Nat] : Upto(g, k)}
<1>1. N \in Nat /\ \A n \in 1 .. N : frames[n] \in Nat
  OBVIOUS
<1>2. 0 \in Reached
  <2>1. [n \in 0 .. N |-> 0] \in [0 .. N -> Nat] /\ Upto([n \in 0 .. N |-> 0], 0)
    BY <1>1
  <2>2. \E g \in [0 .. N -> Nat] : Upto(g, 0)
    BY <2>1
  <2>3. QED
    BY <1>1, <2>2
<1>3. ASSUME NEW k \in 0 .. N - 1, k \in Reached PROVE k + 1 \in Reached
  <2>1. PICK g \in [0 .. N -> Nat] : Upto(g, k)
    BY <1>3
  <2>2. PICK c \in Nat : c = g[k] + frames[k + 1]
    <3> HIDE DEF N, Upto, Reached
    <3>1. k \in 0 .. N /\ k + 1 \in 1 .. N
      BY <1>1
    <3>2. g[k] \in Nat /\ frames[k + 1] \in Nat
      BY <1>1, <3>1, Zenon
    <3>3. QED
      BY <3>2
  <2> DEFINE h == [g EXCEPT ![k + 1] = c]
  <2>3. h \in [0 .. N -> Nat] /\ h[k + 1] = c /\ \A n \in 0 .. k : h[n] = g[n]
    BY <1>1, <2>2
  <2> HIDE DEF h
  <2>4. ASSUME NEW n \in 0 .. k + 1
        PROVE  h[n] = IF n = 0 THEN 0 ELSE h[n - 1] + frames[n]
    <3>1. CASE n = k + 1
      BY <1>1, <2>2, <2>3, <3>1
    <3>2. CASE n = 0
      BY <1>1, <2>1, <2>3, <3>2
    <3>3. CASE n \in 1 .. k
      <4>1. n - 1 \in 0 .. k /\ n \in 0 .. k
        BY <1>1, <3>3
      <4>2. QED
        BY <2>1, <2>3, <4>1
    <3>4. QED
      BY <1>1, <3>1, <3>2, <3>3
  <2>5. \E f \in [0 .. N -> Nat] : Upto(f, k + 1)
    BY <2>3, <2>4
  <2>6. k + 1 \in 0 .. N
    BY <1>1
  <2>7. QED
    BY <2>5, <2>6
<1>4. N \in Reached
  <2>1. 0 .. N \subseteq Reached
    <3> HIDE DEF Reached, N
    <3>1. QED
      BY <1>1, <1>2, <1>3, UpTo
  <2>2. N \in 0 .. N
    BY <1>1
  <2>3. QED
    <3> HIDE DEF Reached, N
    <3>1. QED
      BY <2>1, <2>2
<1>5. PICK g \in [0 .. N -> Nat] : Upto(g, N)
  BY <1>4
<1>6. Summed(frames, g)
  BY <1>1, <1>5 DEF Summed
<1>7. QED
  BY <1>5, <1>6

LEMMA TotalIs ==
    ASSUME NEW frames \in Seq(Nat)
    PROVE  Total(frames) \in Nat /\ (Len(frames) = 1 => Total(frames) = frames[1])
<1> DEFINE sum == CHOOSE s : Summed(frames, s)
<1>1. PICK s \in [0 .. Len(frames) -> Nat] : Summed(frames, s)
  BY Sums
<1>2. Summed(frames, sum)
  BY <1>1
<1>3. Total(frames) = sum[Len(frames)]
  BY DEF Total, Summed
<1> HIDE DEF sum
<1>4. Len(frames) \in Nat /\ \A n \in 1 .. Len(frames) : frames[n] \in Nat
  OBVIOUS
<1>5. \A n \in 0 .. Len(frames) : sum[n] = IF n = 0 THEN 0 ELSE sum[n - 1] + frames[n]
  BY <1>2 DEF Summed
<1> DEFINE T == {n \in 0 .. Len(frames) : sum[n] \in Nat}
<1>6. 0 \in T
  BY <1>4, <1>5
<1>7. ASSUME NEW k \in 0 .. Len(frames) - 1, k \in T PROVE k + 1 \in T
  <2>1. /\ k + 1 \in 0 .. Len(frames) /\ k + 1 \in 1 .. Len(frames)
        /\ (k + 1) - 1 = k /\ k + 1 # 0
    BY <1>4
  <2>2. sum[k] \in Nat /\ frames[k + 1] \in Nat
    BY <1>4, <1>7, <2>1, Zenon
  <2>3. sum[k + 1] = sum[k] + frames[k + 1]
    BY <1>5, <2>1, Zenon
  <2>4. sum[k + 1] \in Nat
    BY <2>2, <2>3
  <2>5. QED
    BY <2>1, <2>4, Zenon
<1>8. Len(frames) \in T
  <2> HIDE DEF T
  <2>1. 0 .. Len(frames) \subseteq T
    BY <1>4, <1>6, <1>7, UpTo
  <2>2. QED
    BY <1>4, <2>1
<1>9. ASSUME Len(frames) = 1 PROVE sum[1] = frames[1]
  BY <1>4, <1>5, <1>9
<1>10. QED
  BY <1>3, <1>8, <1>9

-----------------------------------------------------------------------------
(* What a modem asks for is a profile's number of mini-slots, in the field. *)
LEMMA SizingIucTyped ==
    ASSUME NEW long, NEW granted
    PROVE  SizingIuc(long, granted) \in Iucs
<1>1. UsableIucs(long) \subseteq Iucs
  BY DEF UsableIucs, Iucs
<1>2. \E i \in UsableIucs(long) :
         \A j \in UsableIucs(long) : BytesPerMinislot(i) <= BytesPerMinislot(j)
  <2>1. PICK a, b : a \in Iucs /\ b \in Iucs /\ UsableIucs(long) = {a, b}
    BY DEF UsableIucs, Iucs
  <2>2. BytesPerMinislot(a) \in Nat /\ BytesPerMinislot(b) \in Nat
    BY <2>1, BytesTyped
  <2>3. QED
    BY <2>1, <2>2
<1>3. QED
  BY <1>1, <1>2, Zenon DEF SizingIuc

LEMMA QueueSizeTyped ==
    ASSUME NEW frames \in Seq(Lengths)
    PROVE  frames \in Seq(Nat) /\ Total(frames) \in Nat /\ QueueSize(frames) \in Nat
<1>1. frames \in Seq(Nat)
  <2>1. Len(frames) \in Nat /\ frames \in [1 .. Len(frames) -> Lengths] /\ Lengths \subseteq Nat
    BY SizingAssumption
  <2>2. frames \in [1 .. Len(frames) -> Nat]
    BY <2>1
  <2>3. QED
    BY <2>1, <2>2, SeqDef
<1>2. QED
  BY <1>1, TotalIs DEF QueueSize

LEMMA NeedTyped ==
    ASSUME NEW frames \in Seq(Lengths), NEW granted
    PROVE  Need(frames, granted) \in 0 .. 255
<1> DEFINE iuc  == SizingIuc(QueueSize(frames) > 400, granted)
           need == MinislotsFor(QueueSize(frames), iuc)
           max  == IF Profile[iuc].max > 0 THEN Profile[iuc].max ELSE 255
<1>1. iuc \in Iucs
  BY SizingIucTyped
<1>2. need \in Nat
  <2> HIDE DEF iuc
  <2>1. QueueSize(frames) \in Nat
    BY QueueSizeTyped
  <2>2. QED
    BY <1>1, <2>1, MinislotsGrow
<1>3. max \in Nat
  <2> HIDE DEF iuc
  <2>1. QED
    BY <1>1, ProfileTyped
<1>4. Need(frames, granted) = Least(need, Least(max, 255))
  BY Zenon DEF Need
<1> HIDE DEF need, max
<1>5. QED
  BY <1>2, <1>3, <1>4 DEF Least

-----------------------------------------------------------------------------
MapEntries == [grant : 0 .. 255, iuc : Iucs, heard : BOOLEAN, ack : BOOLEAN]

LEMMA Unanswers ==
    ASSUME maps \in Seq(MapEntries)
    PROVE  Unanswered \in Seq(MapEntries) /\ Len(Unanswered) = Len(maps)
<1>1. ASSUME NEW i \in DOMAIN maps PROVE [maps[i] EXCEPT !.ack = FALSE] \in MapEntries
  <2>1. maps[i] \in MapEntries
    OBVIOUS
  <2>2. QED
    BY <2>1 DEF MapEntries
<1>2. QED
  BY <1>1 DEF Unanswered

LEMMA BuildsTyped ==
    ASSUME SizingTypeOK, NEW room \in Rooms, BuildMap(room)
    PROVE  /\ owed' \in 0 .. 255 /\ maps' \in Seq(MapEntries) /\ Len(maps') <= MaxMaps
           /\ faults' \in 0 .. MaxFaults
<1>1. /\ owed \in 0 .. 255 /\ room \in Nat /\ maps \in Seq(MapEntries)
      /\ faults \in 0 .. MaxFaults /\ {MaxMaps, MaxFaults} \subseteq Nat
  BY SizingAssumption DEF SizingTypeOK, MapEntries
<1>2. PICK iuc \in Iucs : iuc = IucFor(owed > 12)
  BY DEF IucFor, Iucs
<1>3. PICK limit \in Nat : limit = IF Profile[iuc].max > 0 THEN Profile[iuc].max ELSE owed
  BY <1>1, ProfileTyped
<1>4. PICK grant \in Nat : grant = Least(Least(owed, limit), room) /\ grant <= owed
  <2>1. owed \in Nat /\ limit \in Nat /\ room \in Nat
    BY <1>1
  <2>2. PICK least \in Nat : least = Least(owed, limit) /\ least <= owed
    BY <2>1 DEF Least
  <2>3. Least(least, room) \in Nat /\ Least(least, room) <= owed
    BY <2>1, <2>2 DEF Least
  <2>4. QED
    BY <2>2, <2>3, Zenon
<1>5. Granted(room) = [iuc |-> iuc, minislots |-> grant, left |-> owed - grant]
  BY <1>2, <1>3, <1>4, Zenon DEF Granted
<1> DEFINE g == [iuc |-> iuc, minislots |-> grant, left |-> owed - grant]
           entry == [grant |-> IF owed = 0 THEN 0 ELSE g.minislots, iuc |-> g.iuc,
                     heard |-> owed > 0, ack |-> TRUE]
<1>6. /\ Len(maps) < MaxMaps /\ (UNCHANGED faults \/ Fault)
      /\ maps' = Append(maps, entry)
      /\ owed' = IF owed = 0 THEN 0 ELSE g.left
  BY <1>5, Zenon DEF BuildMap
<1>7. entry \in MapEntries
  <2>0. (owed > 0) \in BOOLEAN
    OBVIOUS
  <2>1. PICK heard \in BOOLEAN : heard = (owed > 0)
    BY <2>0, Zenon
  <2>2. grant \in 0 .. 255
    <3>1. owed \in 0 .. 255 /\ grant \in Nat /\ grant <= owed
      BY <1>1, <1>4, Zenon
    <3> HIDE DEF g, entry
    <3>2. QED
      BY <3>1
  <2>3. PICK size \in 0 .. 255 : size = IF owed = 0 THEN 0 ELSE g.minislots
    BY <2>2
  <2>4. entry = [grant |-> size, iuc |-> iuc, heard |-> heard, ack |-> TRUE]
    <3>1. g.iuc = iuc
      OBVIOUS
    <3> HIDE DEF g
    <3>2. QED
      BY <2>1, <2>3, <3>1, Zenon
  <2> HIDE DEF entry
  <2>5. QED
    BY <2>4 DEF MapEntries
<1>8. owed' \in 0 .. 255
  <2>1. owed - grant \in 0 .. 255 /\ g.left = owed - grant
    <3>1. owed \in 0 .. 255 /\ grant \in Nat /\ grant <= owed
      BY <1>1, <1>4, Zenon
    <3>2. QED
      BY <3>1
  <2> HIDE DEF g, entry
  <2>2. QED
    BY <1>6, <2>1
<1>9. faults' \in 0 .. MaxFaults
  BY <1>1, <1>6 DEF Fault
<1> HIDE DEF entry
<1>10. maps' \in Seq(MapEntries) /\ Len(maps') = Len(maps) + 1
  BY <1>1, <1>6, <1>7, AppendProperties
<1>11. QED
  BY <1>1, <1>6, <1>8, <1>9, <1>10

(* As many frames as fit leave with a grant.                                *)
LEMMA TakenIs ==
    ASSUME queue \in Seq(Lengths), NEW capacity
    PROVE  /\ Taken(capacity) \in 0 .. Len(queue)
           /\ \A i \in 1 .. Taken(capacity) : Fits(i, capacity)
<1> DEFINE N == Len(queue)
           Last(n) == /\ \A i \in 1 .. n : Fits(i, capacity)
                      /\ n < N => ~Fits(n + 1, capacity)
           T == {n \in 0 .. N : \A i \in 1 .. n : Fits(i, capacity)}
<1>1. N \in Nat
  OBVIOUS
<1>2. \E n \in 0 .. N : Last(n)
  <2> SUFFICES ASSUME \A n \in 0 .. N : ~Last(n) PROVE FALSE
    OBVIOUS
  <2>1. 0 \in T
    BY <1>1
  <2>2. ASSUME NEW k \in 0 .. N - 1, k \in T PROVE k + 1 \in T
    <3>1. \A i \in 1 .. k : Fits(i, capacity)
      BY <2>2
    <3>2. Fits(k + 1, capacity)
      <4>1. k \in 0 .. N /\ k < N
        BY <1>1
      <4>2. ~Last(k)
        <5> HIDE DEF Last
        <5>1. QED
          BY <4>1
      <4>3. QED
        BY <3>1, <4>1, <4>2, Zenon
    <3>3. \A i \in 1 .. k + 1 : i \in 1 .. k \/ i = k + 1
      OBVIOUS
    <3>4. \A i \in 1 .. k + 1 : Fits(i, capacity)
      BY <3>1, <3>2, <3>3
    <3>5. QED
      BY <1>1, <3>4
  <2>3. N \in T
    <3> HIDE DEF T
    <3> HIDE DEF N
    <3>1. 0 .. N \subseteq T
      BY <1>1, <2>1, <2>2, UpTo
    <3>2. N \in 0 .. N
      BY <1>1
    <3>3. QED
      BY <3>1, <3>2
  <2>4. Last(N)
    BY <1>1, <2>3
  <2>5. QED
    BY <1>1, <2>4
<1>3. Taken(capacity) = CHOOSE n \in 0 .. N : Last(n)
  BY DEF Taken
<1>4. Taken(capacity) \in 0 .. N /\ Last(Taken(capacity))
  <2> HIDE DEF Last
  <2>1. QED
    BY <1>2, <1>3
<1>5. QED
  BY <1>4

(* The frames of a grant are in the queue, and the payload is some bytes.   *)
LEMMA PayloadFits ==
    ASSUME queue \in Seq(Lengths), NEW capacity \in Nat,
           NEW n \in 1 .. Len(queue), Fits(n, capacity)
    PROVE  Payload(n) \in Nat \ {0} /\ Payload(n) <= capacity
<1>1. Lengths \subseteq Nat \ {0} /\ Len(queue) \in Nat
      /\ \A i \in 1 .. Len(queue) : queue[i] \in Lengths
  BY SizingAssumption
<1>2. /\ Prefix(n) \in Seq(Lengths) /\ Len(Prefix(n)) = n
      /\ Prefix(n)[1] = queue[1]
  <2>1. \A i \in 1 .. n : queue[i] \in Lengths
    BY <1>1
  <2>2. /\ SubSeq(queue, 1, n) \in Seq(Lengths)
        /\ Len(SubSeq(queue, 1, n)) = IF 1 <= n THEN n - 1 + 1 ELSE 0
        /\ \A i \in 1 .. n - 1 + 1 : SubSeq(queue, 1, n)[i] = queue[1 + i - 1]
    BY <2>1, SubSeqProperties
  <2>3. QED
    BY <1>1, <2>2 DEF Prefix
<1>3. PICK total \in Nat : total = Total(Prefix(n)) /\ (n = 1 => total = queue[1])
  BY <1>2, QueueSizeTyped, TotalIs
<1>4. CASE n = 1
  <2>1. Payload(n) = total /\ total = queue[1] /\ queue[1] \in Nat \ {0}
    BY <1>1, <1>3, <1>4 DEF Payload
  <2>2. Head(queue) = queue[1]
    BY <1>1
  <2>3. Head(queue) <= capacity
    BY <1>4, Zenon DEF Fits
  <2>4. QED
    BY <2>1, <2>2, <2>3
<1>5. CASE n # 1
  <2>1. Payload(n) = total + 6
    BY <1>1, <1>3, <1>5 DEF Payload
  <2>2. total + 8 <= capacity
    BY <1>3, <1>5, Zenon DEF Fits
  <2>3. QED
    BY <1>3, <2>1, <2>2
<1>6. QED
  BY <1>4, <1>5

(* What a grant does to the queue.                                          *)
LEMMA GrantUsed ==
    ASSUME SizingTypeOK, NEW map \in MapEntries, UseDataGrant(map)
    PROVE  /\ queue' \in Seq(Lengths) /\ Len(queue') <= Len(queue)
           /\ Leave > 0 => MinislotsFor(Payload(Leave), map.iuc) <= map.grant
           /\ outstanding' \in 0 .. 255 /\ grantedIuc' \in Iucs \union {0}
<1> DEFINE capacity == PayloadCapacity[map.grant][map.iuc]
           n == Taken(capacity)
<1>1. /\ map.grant \in 0 .. 255 /\ map.iuc \in Iucs /\ queue \in Seq(Lengths)
      /\ Len(queue) \in Nat /\ grantedIuc \in Iucs \union {0}
  BY DEF MapEntries, SizingTypeOK
<1>2. /\ queue' = SubSeq(queue, n + 1, Len(queue))
      /\ grantedIuc' = IF queue = <<>> THEN grantedIuc ELSE map.iuc
      /\ outstanding' = IF queue' = <<>> THEN 0 ELSE Need(queue', grantedIuc')
  BY Zenon DEF UseDataGrant
<1>3. n \in 0 .. Len(queue) /\ \A i \in 1 .. n : Fits(i, capacity)
  BY <1>1, TakenIs, Zenon
<1>4. capacity \in Nat
  <2>1. PICK most \in Nat : most = map.grant * BytesPerMinislot(map.iuc) + 1
    <3>1. BytesPerMinislot(map.iuc) \in Nat /\ map.grant \in Nat
      <4> HIDE DEF capacity, n
      <4>1. map.grant \in 0 .. 255 /\ map.iuc \in Iucs
        BY <1>1, Zenon
      <4>2. BytesPerMinislot(map.iuc) \in Nat
        BY <4>1, BytesTyped, Zenon
      <4>3. QED
        BY <4>1, <4>2
    <3>2. map.grant * BytesPerMinislot(map.iuc) + 1 \in Nat
      <4> HIDE DEF capacity, n
      <4>1. QED
        BY <3>1
    <3>3. QED
      BY <3>2, Zenon
  <2>2. Largest(map.grant, map.iuc, 0, most, capacity)
    BY <1>1, <2>1, CapacityIs
  <2>3. QED
    BY <2>2 DEF Largest
<1> HIDE DEF n
<1>5. queue' \in Seq(Lengths) /\ Len(queue') = Len(queue) - n
  <2>1. \A i \in n + 1 .. Len(queue) : queue[i] \in Lengths
    BY <1>1, <1>3
  <2>2. /\ queue' \in Seq(Lengths)
        /\ Len(queue') = IF n + 1 <= Len(queue) THEN Len(queue) - (n + 1) + 1 ELSE 0
    BY <1>1, <1>2, <1>3, <2>1, SubSeqProperties
  <2>3. QED
    BY <1>1, <1>3, <2>2
<1>6. Leave = n
  BY <1>1, <1>3, <1>5 DEF Leave
<1>7. n > 0 => MinislotsFor(Payload(n), map.iuc) <= map.grant
  <2> SUFFICES ASSUME n > 0 PROVE MinislotsFor(Payload(n), map.iuc) <= map.grant
    OBVIOUS
  <2>1. n \in 1 .. Len(queue) /\ Fits(n, capacity)
    BY <1>1, <1>3
  <2>2. Payload(n) \in Nat \ {0} /\ Payload(n) <= capacity
    <3> HIDE DEF capacity
    <3>1. QED
      BY <1>1, <1>4, <2>1, PayloadFits
  <2>3. QED
    BY <1>1, <2>2, CapacityHolds
<1>8. outstanding' \in 0 .. 255 /\ grantedIuc' \in Iucs \union {0}
  <2>1. Need(queue', grantedIuc') \in 0 .. 255
    BY <1>5, NeedTyped
  <2>2. 0 \in 0 .. 255
    OBVIOUS
  <2>3. QED
    BY <1>1, <1>2, <2>1, <2>2, Zenon
<1>9. QED
  BY <1>1, <1>3, <1>5, <1>6, <1>7, <1>8

LEMMA MapReceived ==
    ASSUME SizingTypeOK, ReceiveMap
    PROVE  /\ maps' \in Seq(MapEntries) /\ Len(maps') <= Len(maps)
           /\ queue' \in Seq(Lengths) /\ Len(queue') <= Len(queue)
           /\ Leave > 0 => MinislotsFor(Payload(Leave), Head(maps).iuc) <= Head(maps).grant
           /\ outstanding' \in 0 .. 255 /\ grantedIuc' \in Iucs \union {0}
           /\ requested' \in BOOLEAN /\ grantPending' \in BOOLEAN
<1>1. /\ maps \in Seq(MapEntries) /\ maps # <<>> /\ maps' = Tail(maps)
      /\ queue \in Seq(Lengths) /\ Len(queue) \in Nat /\ Len(maps) \in Nat
      /\ outstanding \in 0 .. 255 /\ grantedIuc \in Iucs \union {0}
  BY DEF SizingTypeOK, ReceiveMap, MapEntries
<1>2. /\ Head(maps) \in MapEntries /\ maps' \in Seq(MapEntries)
      /\ Len(maps') = Len(maps) - 1
  BY <1>1, HeadTailProperties
<1>3. PICK map \in MapEntries : map = Head(maps)
  BY <1>2
<1>4. CASE UseDataGrant(map)
  <2>1. requested' = FALSE /\ grantPending' = FALSE
    BY <1>4, Zenon DEF UseDataGrant
  <2>2. /\ queue' \in Seq(Lengths) /\ Len(queue') <= Len(queue)
        /\ Leave > 0 => MinislotsFor(Payload(Leave), map.iuc) <= map.grant
        /\ outstanding' \in 0 .. 255 /\ grantedIuc' \in Iucs \union {0}
    BY <1>4, GrantUsed
  <2>3. Len(maps') <= Len(maps)
    BY <1>1, <1>2
  <2>4. QED
    BY <1>2, <1>3, <2>1, <2>2, <2>3, Zenon
<1>5. CASE NoGrant(map)
  <2>1. /\ grantPending' = (grantPending \/ map.heard)
        /\ \E gone \in BOOLEAN :
              /\ requested' = (requested /\ ~gone)
              /\ outstanding' = IF gone THEN IF queue = <<>> THEN 0 ELSE Need(queue, grantedIuc)
                                ELSE outstanding
        /\ queue' = queue /\ grantedIuc' = grantedIuc
    BY <1>5, Zenon DEF NoGrant
  <2>2. requested' \in BOOLEAN /\ grantPending' \in BOOLEAN
    BY <2>1, Zenon
  <2>3. outstanding' \in 0 .. 255
    <3>1. Need(queue, grantedIuc) \in 0 .. 255
      BY <1>1, NeedTyped
    <3>2. PICK gone \in BOOLEAN :
              outstanding' = IF gone THEN IF queue = <<>> THEN 0 ELSE Need(queue, grantedIuc)
                             ELSE outstanding
      BY <2>1, Zenon
    <3>3. QED
      BY <1>1, <3>1, <3>2
  <2>4. Leave = 0
    BY <1>1, <2>1 DEF Leave
  <2>5. QED
    BY <1>1, <1>2, <2>1, <2>2, <2>3, <2>4
<1>6. QED
  BY <1>3, <1>4, <1>5 DEF ReceiveMap

LEMMA SizingStep ==
    ASSUME SizingTypeOK, [SizingNext]_sizingVars
    PROVE  /\ SizingTypeOK'
           /\ Leave > 0 => MinislotsFor(Payload(Leave), Head(maps).iuc) <= Head(maps).grant
<1>0. /\ version \in Versions /\ advPhy \in BOOLEAN /\ requested \in BOOLEAN
      /\ grantPending \in BOOLEAN
      /\ queue \in Seq(Lengths) /\ Len(queue) <= MaxQueue /\ Len(queue) \in Nat
      /\ grantedIuc \in Iucs \union {0}
      /\ outstanding \in 0 .. 255 /\ owed \in 0 .. 255
      /\ maps \in Seq(MapEntries) /\ Len(maps) <= MaxMaps /\ Len(maps) \in Nat
      /\ faults \in 0 .. MaxFaults /\ {MaxQueue, MaxMaps, MaxFaults} \subseteq Nat
  BY SizingAssumption DEF SizingTypeOK, MapEntries
<1>1. ASSUME NEW length \in Lengths, Enqueue(length)
      PROVE  SizingTypeOK' /\ ~(Leave > 0)
  <2>1. queue' \in Seq(Lengths) /\ Len(queue') = Len(queue) + 1 /\ Len(queue) < MaxQueue
    BY <1>0, <1>1, AppendProperties DEF Enqueue
  <2>2. outstanding' \in 0 .. 255
    BY <1>0, <1>1, <2>1, NeedTyped DEF Enqueue
  <2>3. QED
    BY <1>0, <1>1, <2>1, <2>2 DEF Enqueue, SizingTypeOK, MapEntries, Leave
<1>2. ASSUME SendRequest \/ LoseRequest PROVE SizingTypeOK' /\ ~(Leave > 0)
  <2>1. maps' \in Seq(MapEntries) /\ Len(maps') = Len(maps)
    BY <1>0, <1>2, Unanswers DEF SendRequest, LoseRequest
  <2>2. /\ owed' \in {owed, outstanding} /\ (faults' = faults \/ Fault) /\ requested' = TRUE
        /\ UNCHANGED <<version, advPhy, queue, grantedIuc, outstanding, grantPending>>
    BY <1>2 DEF SendRequest, LoseRequest
  <2>5. owed' \in 0 .. 255 /\ requested' \in BOOLEAN
    BY <1>0, <2>2
  <2>6. faults' \in 0 .. MaxFaults
    <3>1. faults \in 0 .. MaxFaults /\ MaxFaults \in Nat
      BY <1>0
    <3>2. QED
      BY <2>2, <3>1 DEF Fault
  <2>3. ~(Leave > 0)
    BY <1>0, <2>2 DEF Leave
  <2>4. QED
    BY <1>0, <2>1, <2>2, <2>3, <2>5, <2>6 DEF SizingTypeOK, MapEntries
<1>3. ASSUME LearnAdvPhy PROVE SizingTypeOK' /\ ~(Leave > 0)
  BY <1>0, <1>3 DEF LearnAdvPhy, modem, SizingTypeOK, MapEntries, Leave
<1>4. ASSUME NEW room \in Rooms, BuildMap(room) PROVE SizingTypeOK' /\ ~(Leave > 0)
  <2>1. UNCHANGED <<version, advPhy, queue, grantedIuc, outstanding, requested, grantPending>>
    BY <1>4 DEF BuildMap, modem
  <2>2. /\ owed' \in 0 .. 255 /\ maps' \in Seq(MapEntries) /\ Len(maps') <= MaxMaps
        /\ faults' \in 0 .. MaxFaults
    BY <1>4, BuildsTyped
  <2>3. ~(Leave > 0)
    BY <1>0, <2>1 DEF Leave
  <2>4. QED
    BY <1>0, <2>1, <2>2, <2>3 DEF SizingTypeOK, MapEntries
<1>5. ASSUME ReceiveMap
      PROVE  /\ SizingTypeOK'
             /\ Leave > 0 => MinislotsFor(Payload(Leave), Head(maps).iuc) <= Head(maps).grant
  BY <1>0, <1>5, MapReceived DEF ReceiveMap, SizingTypeOK, MapEntries
<1>6. CASE UNCHANGED sizingVars
  BY <1>0, <1>6 DEF sizingVars, modem, SizingTypeOK, MapEntries, Leave
<1>7. QED
  BY <1>1, <1>2, <1>3, <1>4, <1>5, <1>6 DEF SizingNext

(* Every attribute keeps its type: what a modem asks for is at most what    *)
(* the eight bits of a Request frame hold, and so is what it is granted     *)
(* (_request_size, allocate).                                               *)
THEOREM SizingTypeCorrect == SizingSpec => []SizingTypeOK
<1>1. SizingInit => SizingTypeOK
  <2> SUFFICES ASSUME SizingInit PROVE SizingTypeOK
    OBVIOUS
  <2>1. {MaxQueue, MaxMaps, MaxFaults} \subseteq Nat
    BY SizingAssumption
  <2>2. /\ 0 \in 0 .. 255 /\ 0 \in 0 .. MaxFaults /\ Len(<<>>) <= MaxQueue
        /\ Len(<<>>) <= MaxMaps
    BY <2>1
  <2>3. \A S : <<>> \in Seq(S)
    BY EmptySeq
  <2>4. QED
    BY <2>2, <2>3, Zenon DEF SizingInit, SizingTypeOK
<1>2. QED
  BY <1>1, SizingStep, PTL DEF SizingSpec

(* Whatever a modem puts into a grant fits, with its concatenation header,  *)
(* parity and preamble, for any channel and any frames (_use_data_grant).   *)
THEOREM BurstFitsCorrect == SizingSpec => BurstFits
<1>1. /\ SizingTypeOK /\ [SizingNext]_sizingVars
         => [Leave > 0 => MinislotsFor(Payload(Leave), Head(maps).iuc) <= Head(maps).grant]_sizingVars
  BY SizingStep
<1>2. QED
  BY <1>1, SizingTypeCorrect, PTL DEF SizingSpec, BurstFits

(* Where mini-slots are whole bytes, what payload_capacity finds is exact:  *)
(* it fits into the grant, and one byte more would not.                     *)
THEOREM CapacityExactCorrect ==
    ASSUME WholeBytes
    PROVE  SizingSpec => []CapacityExact
<1>1. SizingTypeOK => CapacityExact
  <2> SUFFICES ASSUME SizingTypeOK PROVE CapacityExact
    OBVIOUS
  <2>1. ASSUME NEW i \in DOMAIN maps PROVE HoldsExactly(maps[i].grant, maps[i].iuc)
    <3>1. maps \in Seq(MapEntries)
      BY Zenon DEF SizingTypeOK, MapEntries
    <3>2. maps[i] \in MapEntries
      BY <3>1
    <3>3. maps[i].grant \in 0 .. 255 /\ maps[i].iuc \in Iucs
      BY <3>2 DEF MapEntries
    <3>4. QED
      BY <3>3, CapacityIsExact
  <2>2. QED
    BY <2>1 DEF CapacityExact
<1>2. QED
  BY <1>1, SizingTypeCorrect, PTL
=============================================================================
