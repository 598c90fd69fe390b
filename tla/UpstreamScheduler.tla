-------------------------- MODULE UpstreamScheduler --------------------------
(***************************************************************************)
(* The upstream scheduler of one channel (cmts/scheduler.py): the requests *)
(* it holds, the station maintenance it owes, and the MAPs it builds.      *)
(*                                                                         *)
(* Time is an integer number of units, Duration of them to a mini-slot.    *)
(* The dictionaries of the code are total functions here: pending[s] = 0   *)
(* is a SID with no entry in `pending`, and maintDue[s] means something    *)
(* only for the SIDs in `tracked`, the keys of `station_maint_due`.        *)
(*                                                                         *)
(* A MAP keeps the order of its IEs by kind and SID: Initial Maintenance,  *)
(* Station Maintenance by SID, data by SID, Request, Null.  The write-only *)
(* counters, the `requested_at` and `acknowledged` fields that nothing     *)
(* reads, and the back-off windows copied into every MAP are left out.     *)
(***************************************************************************)
EXTENDS Integers, FiniteSets

CONSTANTS
    Sids,               \* service identifiers the CMTS may hand out
    Duration,           \* time units in a mini-slot
    MapInterval,        \* time units between two MAPs
    MapAdvance,         \* how far ahead of its start a MAP is sent
    InitialMaintInterval,
    StationMaintIntervalRanging,
    StationMaintInterval,
    InitialNeed,        \* mini-slots of an Initial Maintenance region
    StationNeed,        \* mini-slots of a Station Maintenance region
    RequestRegion,      \* mini-slots reserved for contention
    ShortLimit,         \* largest request granted under the short data IUC
    ShortMaxBurst,      \* max_burst of the short data profile, 0 = none
    LongMaxBurst,       \* max_burst of the long data profile, 0 = none
    MaxGrant,           \* max_grant_minislots, 0 = none
    FirstMap,           \* when the first MAP is built
    RequestSizes,       \* mini-slots a Request frame may ask for
    Grain,              \* bound: the resolution of the clock between MAPs
    MaxTime             \* bound: the horizon the model runs to

ASSUME SidsAssumption == IsFiniteSet(Sids) /\ Sids \subseteq Nat \ {0}

ASSUME TimeAssumption ==
    /\ {Duration, Grain} \subseteq Nat \ {0}
    /\ {FirstMap, MapInterval, MapAdvance, InitialMaintInterval,
        StationMaintIntervalRanging, StationMaintInterval, MaxTime} \subseteq Nat
    /\ FirstMap <= MapInterval    \* start() builds the first MAP 2 ms in, the rest 4 ms apart

ASSUME SizeAssumption ==
    /\ {InitialNeed, StationNeed} \subseteq Nat \ {0}
    /\ {RequestRegion, ShortLimit, ShortMaxBurst, LongMaxBurst, MaxGrant} \subseteq Nat
    /\ RequestSizes \subseteq Nat \ {0}

VARIABLES
    now,                \* the simulation clock
    nextBuild,          \* when the MAP timer fires next
    nextMinislot,       \* next mini-slot not yet described by any MAP
    pending,            \* mini-slots each SID still waits for
    tracked,            \* SIDs owed station maintenance
    maintDue,           \* when each tracked SID is owed it
    ranging,            \* SIDs on the fast cadence
    nextInitialMaint,   \* when a broadcast region is offered again
    lastMap             \* what the last MAP allocates

vars == <<now, nextBuild, nextMinislot, pending, tracked, maintDue, ranging,
          nextInitialMaint, lastMap>>

-----------------------------------------------------------------------------
AtMost(a, b) == IF a <= b THEN a ELSE b
AtLeast(a, b) == IF a >= b THEN a ELSE b

(* Mini-slots of one MAP: the interval rounded to whole mini-slots, halves  *)
(* to even as Python rounds, and never less than one.                       *)
Span ==
    LET whole == MapInterval \div Duration
        rest  == MapInterval % Duration
        up    == 2 * rest > Duration \/ (2 * rest = Duration /\ whole % 2 = 1)
    IN  AtLeast(1, IF up THEN whole + 1 ELSE whole)

NumberAt(t) == t \div Duration
StartOf(slot) == slot * Duration

\* Mutants of AllocStart: the mini-slots already described, and the "+ 1" of
\* a partly elapsed mini-slot, are forgotten.
AllocStartForgetsLast == NumberAt(now + MapAdvance) + 1
AllocStartRoundsDown == AtLeast(nextMinislot, NumberAt(now + MapAdvance))

(* The first mini-slot of a MAP built now: far enough ahead for every       *)
(* modem, and never one that an earlier MAP already described.              *)
AllocStart == AtLeast(nextMinislot, NumberAt(now + MapAdvance) + 1)

(* A region's size in the MAP built now; 0 when it is not offered.          *)
OffersInitial == now + MapAdvance >= nextInitialMaint /\ InitialNeed <= Span
InitialLength == IF OffersInitial THEN InitialNeed ELSE 0

\* Mutant of Due: only the fast cadence is ever polled.
DueWhileRanging ==
    {s \in tracked \cap ranging : maintDue[s] <= StartOf(nextMinislot + Span)}

(* The SIDs whose maintenance falls due before this MAP ends.               *)
Due == {s \in tracked : maintDue[s] <= StartOf(AllocStart + Span)}

\* Mutant of PollEnd: the offset starts over after Initial Maintenance.
PollEndFromZero(s) == StationNeed * Cardinality({t \in Due : t <= s})

(* Where the region of a due SID would end, in the loop over sorted SIDs;   *)
(* the loop breaks at the first one that would run past the MAP.            *)
PollEnd(s) ==
    InitialLength + StationNeed * Cardinality({t \in Due : t <= s})
Polled == {s \in Due : PollEnd(s) <= Span}
MaintEnd == InitialLength + StationNeed * Cardinality(Polled)

(* How much of a request one MAP may grant, whatever room it has.           *)
GrantCap(want) ==
    LET burst  == IF want > ShortLimit THEN LongMaxBurst ELSE ShortMaxBurst
        capped == IF burst # 0 THEN AtMost(want, burst) ELSE want
    IN  IF MaxGrant # 0 THEN AtMost(capped, MaxGrant) ELSE capped

(* What is left at an offset of the mini-slots in front of the Request      *)
(* region: `room`.                                                          *)
Room(offset) == Span - RequestRegion - offset

\* Mutant of GrantLength: no room is kept for contention.
GrantLengthNoReserve(s, offset) == AtLeast(0, AtMost(GrantCap(pending[s]), Span - offset))

(* Mini-slots granted to SID s at an offset: 0 is the zero-length grant     *)
(* that says "heard you, wait", given when the request region comes first.  *)
GrantLength(s, offset) ==
    IF Room(offset) <= 0 THEN 0 ELSE AtMost(GrantCap(pending[s]), Room(offset))

Wanting == {s \in Sids : pending[s] > 0}

(* The running offset of the data loop, as a function of the SID: each      *)
(* grant begins where the furthest one before it, by SID, ended.            *)
Places(offset) ==
    \A s \in Wanting :
        LET before == {t \in Wanting : t < s}
            End(t) == offset[t] + GrantLength(t, offset[t])
        IN  /\ offset[s] \in {MaintEnd} \union {End(t) : t \in before}
            /\ offset[s] >= MaintEnd
            /\ \A t \in before : offset[s] >= End(t)

(* The offset the data loop leaves behind, where the Request region goes.   *)
DataEnds(offset, end) ==
    /\ end \in {MaintEnd} \union {offset[s] + GrantLength(s, offset[s]) : s \in Wanting}
    /\ end >= MaintEnd
    /\ \A s \in Wanting : end >= offset[s] + GrantLength(s, offset[s])

\* Mutant of NoRoom: the loop goes on without an IE.
NoRoomUnanswered(offset) == {}

(* The three ways through the body of the data loop.  Each appends an IE at *)
(* the SID's offset: the first two a zero-length one, recorded as pending,  *)
(* the last a grant, which is taken off the request.                        *)
NoRoom(offset) == {s \in Wanting : Room(offset[s]) <= 0}
NothingToGrant(offset) ==
    {s \in Wanting : Room(offset[s]) > 0 /\ GrantLength(s, offset[s]) <= 0}
Grantees(offset) ==
    {s \in Wanting : Room(offset[s]) > 0 /\ GrantLength(s, offset[s]) > 0}

(* What SID s still waits for after the loop; its entry goes when that is 0. *)
Remaining(s, offset) ==
    IF s \in Grantees(offset) THEN AtLeast(0, pending[s] - GrantLength(s, offset[s]))
    ELSE pending[s]

(* The MAP itself: the IEs in order, with the Request region in what room   *)
(* the data left, and the Null IE right behind it.                          *)
MapFor(offset, end) ==
    LET request == AtLeast(0, AtMost(RequestRegion, Span - end))
    IN  [start   |-> AllocStart,
         ack     |-> NumberAt(now),
         initial |-> InitialLength,
         polled  |-> Polled,
         maint   |-> [s \in Sids |-> IF s \in Polled THEN PollEnd(s) - StationNeed ELSE 0],
         granted |-> Grantees(offset),
         waiting |-> NoRoom(offset) \union NothingToGrant(offset),
         offset  |-> [s \in Sids |-> IF s \in Wanting THEN offset[s] ELSE 0],
         length  |-> [s \in Sids |-> IF s \in Grantees(offset)
                                     THEN GrantLength(s, offset[s]) ELSE 0],
         request |-> request,
         null    |-> end + request]

NoMap == [start |-> 0, ack |-> 0, initial |-> 0, polled |-> {},
          maint |-> [s \in Sids |-> 0], granted |-> {}, waiting |-> {},
          offset |-> [s \in Sids |-> 0], length |-> [s \in Sids |-> 0],
          request |-> 0, null |-> 0]

-----------------------------------------------------------------------------
Init ==
    /\ now = 0
    /\ nextBuild = FirstMap
    /\ nextMinislot = 0
    /\ pending = [s \in Sids |-> 0]
    /\ tracked = {}
    /\ maintDue = [s \in Sids |-> 0]
    /\ ranging = {}
    /\ nextInitialMaint = 0
    /\ lastMap = NoMap

(* A Request frame: the modem's total need, replacing any older request.    *)
AddRequest(s, minislots) ==
    /\ pending' = [pending EXCEPT ![s] = minislots]
    /\ UNCHANGED <<now, nextBuild, nextMinislot, tracked, maintDue, ranging,
                   nextInitialMaint, lastMap>>

(* A grant nobody asked for: it never shrinks what is already owed.         *)
AddUnsolicited(s, minislots) ==
    /\ pending' = [pending EXCEPT ![s] = AtLeast(minislots, @)]
    /\ UNCHANGED <<now, nextBuild, nextMinislot, tracked, maintDue, ranging,
                   nextInitialMaint, lastMap>>

(* A modem known to the CMTS is polled at once if it was not tracked yet.   *)
TrackModem(s, isRanging) ==
    /\ tracked' = tracked \union {s}
    /\ maintDue' = IF s \in tracked THEN maintDue ELSE [maintDue EXCEPT ![s] = now]
    /\ ranging' = IF isRanging THEN ranging \union {s} ELSE ranging \ {s}
    /\ UNCHANGED <<now, nextBuild, nextMinislot, pending, nextInitialMaint, lastMap>>

UntrackModem(s) ==
    /\ tracked' = tracked \ {s}
    /\ maintDue' = [maintDue EXCEPT ![s] = 0]
    /\ ranging' = ranging \ {s}
    /\ pending' = [pending EXCEPT ![s] = 0]
    /\ UNCHANGED <<now, nextBuild, nextMinislot, nextInitialMaint, lastMap>>

RangingComplete(s) ==
    /\ tracked' = tracked \union {s}
    /\ maintDue' = [maintDue EXCEPT ![s] = now + StationMaintInterval]
    /\ ranging' = ranging \ {s}
    /\ UNCHANGED <<now, nextBuild, nextMinislot, pending, nextInitialMaint, lastMap>>

(* The MAP timer fires: one call of build().                                *)
Build ==
    /\ now = nextBuild
    /\ nextBuild' = now + MapInterval
    /\ nextMinislot' = AllocStart + Span
    /\ nextInitialMaint' = IF OffersInitial
                           THEN StartOf(AllocStart) + InitialMaintInterval
                           ELSE nextInitialMaint
    /\ maintDue' = [s \in Sids |->
           IF s \in Polled
           THEN StartOf(AllocStart) + (IF s \in ranging THEN StationMaintIntervalRanging
                                                       ELSE StationMaintInterval)
           ELSE maintDue[s]]
    /\ \E offset \in [Wanting -> MaintEnd..Span], end \in MaintEnd..Span :
           /\ Places(offset)
           /\ DataEnds(offset, end)
           /\ pending' = [s \in Sids |-> Remaining(s, offset)]
           /\ lastMap' = MapFor(offset, end)
    /\ UNCHANGED <<now, tracked, ranging>>

(* The clock moves on, but never past a timer that is due.                  *)
Tick ==
    /\ now < nextBuild
    /\ now < MaxTime
    /\ now' = AtMost(now + Grain, nextBuild)
    /\ UNCHANGED <<nextBuild, nextMinislot, pending, tracked, maintDue, ranging,
                   nextInitialMaint, lastMap>>

Next ==
    \/ \E s \in Sids, n \in RequestSizes : AddRequest(s, n)
    \/ \E s \in Sids, n \in RequestSizes : AddUnsolicited(s, n)
    \/ \E s \in Sids, r \in BOOLEAN : TrackModem(s, r)
    \/ \E s \in Sids : UntrackModem(s)
    \/ \E s \in Sids : RangingComplete(s)
    \/ Build
    \/ Tick

Spec == Init /\ [][Next]_vars

-----------------------------------------------------------------------------
Sizes == [Sids -> Nat]

MapRecords ==
    [start : Nat, ack : Nat, initial : Nat, polled : SUBSET Sids, maint : Sizes,
     granted : SUBSET Sids, waiting : SUBSET Sids, offset : Sizes, length : Sizes, request : Nat, null : Nat]

(* Every variable keeps the type the scheduler's attributes have.           *)
TypeOK ==
    /\ now \in Nat
    /\ nextBuild \in Nat
    /\ nextMinislot \in Nat
    /\ pending \in Sizes
    /\ tracked \in SUBSET Sids
    /\ maintDue \in Sizes
    /\ ranging \in SUBSET Sids
    /\ nextInitialMaint \in Nat
    /\ lastMap \in MapRecords

(* The regions of a MAP that hold mini-slots, as <<kind, SID, first, last>>. *)
Regions(m) ==
    {<<"initial", 0, 0, m.initial - 1>> : k \in {1} \cap 1..m.initial}
    \union {<<"maint", s, m.maint[s], m.maint[s] + StationNeed - 1>> : s \in m.polled}
    \union {<<"data", s, m.offset[s], m.offset[s] + m.length[s] - 1>> :
                s \in m.granted}
    \union {<<"request", 0, m.null - m.request, m.null - 1>> :
                k \in {1} \cap 1..m.request}

(* A mini-slot is handed to one transmitter only: no two regions of a MAP   *)
(* overlap, and none runs past the mini-slots the MAP describes.  It is     *)
(* what keeps two granted bursts from colliding.                            *)
RegionsDisjoint ==
    LET regions == Regions(lastMap)
    IN  /\ \A r \in regions : r[3] >= 0 /\ r[4] < Span
        /\ \A r, q \in regions : r # q => r[4] < q[3] \/ q[4] < r[3]

(* Data never eats the contention region: when maintenance leaves room for  *)
(* a full Request region the MAP has a full one ("Reserve room for the      *)
(* Request region so bandwidth requests never get starved out by data").    *)
ContentionReserved ==
    LET maint == lastMap.initial + StationNeed * Cardinality(lastMap.polled)
    IN  lastMap # NoMap /\ maint + RequestRegion <= Span
            => lastMap.request = RequestRegion

(* A modem is told to wait only when there is no room in front of the       *)
(* Request region: all the mini-slots before it are handed out.             *)
WaitOnlyWhenFull ==
    \A s \in lastMap.waiting : lastMap.offset[s] >= Span - RequestRegion

(* Data and contention share a MAP as the code says they do: neither takes  *)
(* what the other needs.                                                    *)
DataShare == ContentionReserved /\ WaitOnlyWhenFull

(* As long as a MAP holds the polls of the SIDs up to s, the scheduler      *)
(* never lets the maintenance of s slip by more than a MAP interval, on the *)
(* fast cadence or the slow one, however many higher SIDs it drops at the   *)
(* end of a full MAP: the T4 of such a modem cannot run out.                *)
RoomUpTo(s) == InitialNeed + StationNeed * Cardinality({t \in Sids : t <= s}) <= Span
PollsOnTime == \A s \in tracked : RoomUpTo(s) => maintDue[s] + MapInterval >= now

(* No two MAPs describe the same mini-slot: each one begins where its       *)
(* predecessor ended or later.                                              *)
MapsTile ==
    [][lastMap' # lastMap /\ lastMap # NoMap
           => lastMap'.start >= lastMap.start + Span]_vars

(* A MAP reaches a modem before its first mini-slot does: its start is more *)
(* than the advance away when it is built, however late the MAPs run.       *)
MapsAhead ==
    [][lastMap' # lastMap => StartOf(lastMap'.start) > now + MapAdvance]_vars

(* MAPs follow one another without an overlap, and each of them in time,    *)
(* over any drift of the rounded span against the interval.                 *)
MapsInTurn == MapsTile /\ MapsAhead

(* A modem whose request was heard is never left to take it for lost: each  *)
(* MAP names it, in a grant or with "wait", what that does not grant stays  *)
(* pending for the next MAP, and nothing but a grant, a newer request or    *)
(* the modem's departure makes a request smaller.                           *)
Answers(m) == m.granted \union m.waiting
EveryRequestAnswered ==
    [][\A s \in Sids :
           /\ lastMap' # lastMap /\ pending[s] > 0
                  => /\ s \in Answers(lastMap')
                     /\ lastMap'.length[s] + pending'[s] = pending[s]
           /\ pending'[s] < pending[s]
                  => \/ lastMap' # lastMap
                     \/ pending'[s] \in RequestSizes
                     \/ s \notin tracked']_vars

=============================================================================
