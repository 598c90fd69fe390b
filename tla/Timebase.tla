------------------------------ MODULE Timebase ------------------------------
(***************************************************************************)
(* The DOCSIS timebase (util/clock.py) between the CMTS and one modem: the *)
(* SYNC messages that carry the CMTS's clock, the downstream they queue    *)
(* for, the offset the modem keeps from them, the MAPs whose mini-slots it *)
(* turns into local transmit times, and the ranging that trims the offset. *)
(*                                                                         *)
(* Time is an integer number of master clock counts, the unit of a timing  *)
(* adjustment.  There is one downstream, one upstream channel, and levels  *)
(* are always usable.  A UCD stands for both messages of _send_ucds.       *)
(***************************************************************************)
EXTENDS Integers, Sequences, FiniteSets

CONSTANTS
    Modulus,            \* the SYNC timestamp counts modulo this, 2^32
    Slot,               \* counts in a mini-slot
    Span,               \* mini-slots described by a MAP
    Delays,             \* one-way delays a modem may be at
    MaxReach,           \* the delay the plant is engineered for
    Burst,              \* counts of a ranging burst, guard time included
    Jitter,             \* transmit jitter of the modem, either way
    Tolerance,          \* residual error that ends ranging
    SyncLen, UcdLen, MapLen, RspLen,    \* serialization of the messages ...
    TrafficLen,                         \* ... and of a frame of other traffic
    SyncInterval, UcdInterval, Advance,
    InitialInterval, RangingInterval, OnlineInterval,
    T3,
    MaxOwners,          \* entries of the region table before it is pruned
    MaxWait,            \* bound: the queue of the downstream with a frame of
                        \* other traffic in it
    MaxTraffic,         \* bound: frames of other traffic
    MaxLosses, MaxReinits, MaxTime      \* bounds: faults, and the horizon

ASSUME TimebaseAssumption ==
    /\ {Modulus, Slot, Span, Burst, SyncLen, SyncInterval, UcdInterval}
           \subseteq Nat \ {0}
    /\ Delays \subseteq Nat /\ {MaxReach, Jitter, Advance} \subseteq Nat
    /\ {UcdLen, MapLen, RspLen, TrafficLen} \subseteq Nat \ {0}
    /\ {InitialInterval, RangingInterval, OnlineInterval, T3} \subseteq Nat

VARIABLES
    now, nextSync, nextUcd, nextMap,    \* the clock and the CMTS's timers
    busy,               \* when the downstream has sent all that was queued
    flight,             \* frames on the way to the modem, in order
    nextMinislot, nextInitial, record,  \* the scheduler, and what it knows
    owners,             \* first mini-slot of a region -> its length
    delay,              \* the modem's distance
    modem,              \* the modem's attributes
    upstream,           \* bursts on the way to the CMTS
    traffic, losses, reinits            \* counters for the bounds

timers == <<nextSync, nextUcd, nextMap>>
scheduler == <<nextMinislot, nextInitial, record, owners>>
bounds == <<traffic, losses, reinits>>
vars == <<now, timers, busy, flight, scheduler, delay, modem, upstream, bounds>>

AtLeast(a, b) == IF a >= b THEN a ELSE b
Abs(a) == AtLeast(a, -a)

-----------------------------------------------------------------------------
(* The clock's arithmetic.                                                  *)
TimestampAt(t) == t % Modulus

\* Mutant of TimestampDelta: the difference as it is, with no eye to the wrap.
TimestampDeltaPlain(later, earlier) == later - earlier

(* The signed difference of two timestamps, less than half a turn.          *)
TimestampDelta(later, earlier) ==
    LET d == (later - earlier) % Modulus
    IN  IF d >= Modulus \div 2 THEN d - Modulus ELSE d

NumberAt(t) == t \div Slot
StartOf(slot) == slot * Slot
MinislotsFor(counts) == (counts + Slot - 1) \div Slot

\* Mutant of InitialNeed: a region for a modem that is already ranged.
InitialNeedRanged == MinislotsFor(Burst) + 1

(* An Initial Maintenance region holds a burst and the plant's round trip;  *)
(* a Station Maintenance region a burst and one mini-slot more.             *)
InitialNeed == MinislotsFor(Burst) + MinislotsFor(2 * MaxReach)
StationNeed == MinislotsFor(Burst) + 1

-----------------------------------------------------------------------------
(* The modem before the first SYNC has no offset; the code's None.          *)
NoClock == Modulus
Phases == {"scan", "sync-wait", "ucd-wait", "ranging-wait", "ranging-initial",
           "ranging-station", "ranged"}
Scanning ==
    [phase |-> "scan", ucd |-> FALSE, clock |-> NoClock, offset |-> 0,
     sid |-> FALSE, t3 |-> 0, tx |-> {}, missed |-> FALSE, waited |-> 0]
Unknown == [known |-> FALSE, due |-> 0, ranging |-> TRUE, offset |-> 0]

Init ==
    /\ now = 0 /\ nextSync = 0 /\ nextUcd = 1 /\ nextMap = 2
    /\ busy = 0 /\ flight = <<>>
    /\ nextMinislot = 0 /\ nextInitial = 0 /\ record = Unknown
    /\ owners = <<>>
    /\ delay \in Delays
    /\ modem = Scanning
    /\ upstream = {}
    /\ traffic = 0 /\ losses = 0 /\ reinits = 0

-----------------------------------------------------------------------------
(* The CMTS and the downstream.                                             *)
(* A frame goes out when what was queued before it has: it reaches the      *)
(* modem, or any other, one propagation delay after its last symbol.        *)
SendDownstream(frame, length) ==
    /\ busy' = AtLeast(busy, now) + length
    /\ flight' = Append(flight, [msg |-> frame, sent |-> now, at |-> busy' + delay])

SendSync ==
    /\ now = nextSync
    /\ SendDownstream([kind |-> "SYNC", stamp |-> TimestampAt(now)], SyncLen)
    /\ nextSync' = now + SyncInterval
    /\ UNCHANGED <<now, nextUcd, nextMap, scheduler, delay, modem, upstream, bounds>>

SendUcds ==
    /\ now = nextUcd
    /\ SendDownstream([kind |-> "UCD"], UcdLen)
    /\ nextUcd' = now + UcdInterval
    /\ UNCHANGED <<now, nextSync, nextMap, scheduler, delay, modem, upstream, bounds>>

(* A region of a MAP enters the lookup table under its first mini-slot.     *)
Owned(table, start, length) ==
    [s \in DOMAIN table \union {start} |-> IF s = start THEN length ELSE table[s]]

(* "Keep the lookup table from growing without bound."                      *)
Pruned(table, start) ==
    IF Cardinality(DOMAIN table) > MaxOwners
    THEN [s \in {k \in DOMAIN table : k >= start - 2 * Span} |-> table[s]]
    ELSE table

AllocStart == AtLeast(nextMinislot, NumberAt(now + Advance) + 1)

(* A MAP: Initial Maintenance when it is time for it, Station Maintenance   *)
(* when the modem is owed it, and the rest a Request region.                *)
SendMap ==
    LET start   == AllocStart
        initial == now + Advance >= nextInitial /\ InitialNeed <= Span
        skipped == IF initial THEN InitialNeed ELSE 0
        station == /\ record.known
                   /\ record.due <= StartOf(start + Span)
                   /\ skipped + StationNeed <= Span
        end     == skipped + (IF station THEN StationNeed ELSE 0)
        withIm  == IF initial THEN Owned(owners, start, InitialNeed) ELSE owners
        withSm  == IF station THEN Owned(withIm, start + skipped, StationNeed) ELSE withIm
        table   == IF end < Span THEN Owned(withSm, start + end, Span - end) ELSE withSm
    IN  /\ now = nextMap
        /\ SendDownstream([kind |-> "MAP", initial |-> initial, station |-> station,
                           start |-> start, poll |-> start + skipped], MapLen)
        /\ nextMap' = now + Span * Slot
        /\ nextMinislot' = start + Span
        /\ nextInitial' = IF initial THEN StartOf(start) + InitialInterval ELSE nextInitial
        /\ record' = IF station
                     THEN [record EXCEPT !.due = StartOf(start)
                               + IF record.ranging THEN RangingInterval ELSE OnlineInterval]
                     ELSE record
        /\ owners' = Pruned(table, start)
        /\ UNCHANGED <<now, nextSync, nextUcd, delay, modem, upstream, bounds>>

(* Other frames of the CMTS: packets for any modem, registration replies.   *)
SendTraffic ==
    /\ traffic < MaxTraffic
    /\ AtLeast(busy, now) + TrafficLen - now <= MaxWait
    /\ SendDownstream([kind |-> "PDU"], TrafficLen)
    /\ traffic' = traffic + 1
    /\ UNCHANGED <<now, timers, scheduler, delay, modem, upstream, losses, reinits>>

-----------------------------------------------------------------------------
(* The modem.                                                               *)
(* How long a SYNC waited behind other frames, its timestamp latched.       *)
Waited(frame) == (now - delay - SyncLen - frame.stamp) % Modulus

(* The first SYNC sets the offset, each later one corrects it by what the   *)
(* estimate is off, corrected for the SYNC's own length in both cases.      *)
(* (waited is history: the longest wait of a SYNC this modem has heard.)     *)
OnSync(m, frame) ==
    [m EXCEPT !.clock = IF @ = NoClock THEN frame.stamp + SyncLen - now
                        ELSE @ + TimestampDelta(frame.stamp, TimestampAt(now + @)) + SyncLen,
              !.waited = AtLeast(@, Waited(frame)),
              !.phase = IF @ = "sync-wait" THEN "ucd-wait" ELSE @]

OnUcd(m) ==
    [m EXCEPT !.ucd = TRUE,
              !.phase = IF @ = "ucd-wait" THEN "ranging-wait" ELSE @]

(* When the modem must start so as to land on a mini-slot.                  *)
LocalTimeOf(m, slot) == StartOf(slot) - m.offset - m.clock

(* Without an offset, or when the time has passed, nothing is sent and the  *)
(* state stays.                                                             *)
ScheduleBurst(m, slot, jitter, state) ==
    LET when == LocalTimeOf(m, slot) + jitter
    IN  IF m.clock = NoClock THEN m
        ELSE IF when < now
        THEN [m EXCEPT !.missed = TRUE]
        ELSE [m EXCEPT !.tx = @ \union {[at |-> when, first |-> slot,
                                         initial |-> state = "ranging-initial"]},
                       !.phase = state, !.t3 = now + T3]

(* The back-off decides whether a modem takes the broadcast region.         *)
OfferInitialMaintenance(m, map, takes, jitter) ==
    IF map.initial /\ takes /\ m.phase = "ranging-wait"
    THEN ScheduleBurst(m, map.start, jitter, "ranging-initial") ELSE m

OfferStationMaintenance(m, map, jitter) ==
    IF map.station /\ m.sid
       /\ m.phase \in {"ranging-initial", "ranging-station", "ranged"}
    THEN ScheduleBurst(m, map.poll, jitter,
                       IF m.phase = "ranged" THEN "ranged" ELSE "ranging-station")
    ELSE m

OnMap(m, map, takes, jitter) ==
    IF m.ucd
    THEN OfferStationMaintenance(OfferInitialMaintenance(m, map, takes, jitter), map, jitter)
    ELSE m

\* Mutant of OnRngRsp: the correction has the wrong sign.
OnRngRspLater(m, frame) ==
    [m EXCEPT !.t3 = 0, !.sid = TRUE, !.offset = @ - frame.adjust,
              !.phase = IF @ \notin {"ranging-initial", "ranging-station"} THEN @
                        ELSE IF frame.success THEN "ranged" ELSE "ranging-station"]

(* A correction is added whatever the state, and ends ranging on SUCCESS.   *)
OnRngRsp(m, frame) ==
    [m EXCEPT !.t3 = 0, !.sid = TRUE, !.offset = @ + frame.adjust,
              !.phase = IF @ \notin {"ranging-initial", "ranging-station"} THEN @
                        ELSE IF frame.success THEN "ranged" ELSE "ranging-station"]

(* A frame arrives; a scanning modem does not listen.                       *)
Receive ==
    /\ flight # <<>> /\ Head(flight).at = now
    /\ flight' = Tail(flight)
    /\ LET frame == Head(flight).msg
       IN  IF modem.phase = "scan" THEN modem' = modem
           ELSE CASE frame.kind = "SYNC" -> modem' = OnSync(modem, frame)
                  [] frame.kind = "UCD" -> modem' = OnUcd(modem)
                  [] frame.kind = "MAP" ->
                         \E takes \in BOOLEAN, jitter \in -Jitter..Jitter :
                             modem' = OnMap(modem, frame, takes, jitter)
                  [] frame.kind = "RNG-RSP" -> modem' = OnRngRsp(modem, frame)
                  [] frame.kind = "PDU" -> modem' = modem
    /\ UNCHANGED <<now, timers, busy, scheduler, delay, upstream, bounds>>

(* The plant drops a frame on its way to this modem.                        *)
Lose ==
    /\ losses < MaxLosses /\ losses' = losses + 1
    /\ flight # <<>> /\ Head(flight).at = now
    /\ flight' = Tail(flight)
    /\ UNCHANGED <<now, timers, busy, scheduler, delay, modem, upstream, traffic, reinits>>

Lock ==
    /\ modem.phase = "scan"
    /\ modem' = [modem EXCEPT !.phase = "sync-wait"]
    /\ UNCHANGED <<now, timers, busy, flight, scheduler, delay, upstream, bounds>>

T3Expired ==
    /\ modem.t3 = now /\ now > 0
    /\ modem' = [modem EXCEPT !.t3 = 0,
                     !.phase = IF @ = "ranged" THEN @ ELSE "ranging-wait"]
    /\ UNCHANGED <<now, timers, busy, flight, scheduler, delay, upstream, bounds>>

(* T1, T2, T4, lost SYNC or an operator: everything above the PHY is        *)
(* discarded, and bursts that were scheduled still go out.                  *)
Reinitialize ==
    /\ reinits < MaxReinits /\ reinits' = reinits + 1
    /\ modem.phase # "scan"
    /\ modem' = [Scanning EXCEPT !.tx = modem.tx, !.missed = modem.missed,
                                 !.waited = modem.waited]
    /\ UNCHANGED <<now, timers, busy, flight, scheduler, delay, upstream, traffic, losses>>

(* A scheduled burst leaves, and arrives one delay later; without upstream  *)
(* parameters it is dropped.                                                *)
Transmit ==
    \E tx \in modem.tx :
        /\ tx.at = now
        /\ modem' = [modem EXCEPT !.tx = @ \ {tx}]
        /\ upstream' = IF modem.ucd
                       THEN upstream \union {[start |-> now + delay,
                                first |-> tx.first, initial |-> tx.initial]}
                       ELSE upstream
        /\ UNCHANGED <<now, timers, busy, flight, scheduler, delay, bounds>>

-----------------------------------------------------------------------------
(* The CMTS hears a burst at its end.                                       *)
(* "The CMTS receiver only listens for a given burst profile during the     *)
(* mini-slots it allocated to it", and one more on either side.             *)
InWindow(burst, length) ==
    /\ burst.start >= StartOf(burst.first) - Slot
    /\ burst.start + Burst <= StartOf(burst.first + AtLeast(1, length)) + Slot

(* How late a burst is, against the mini-slot it was granted.               *)
TimingAdjust(burst) == burst.start - StartOf(burst.first)

Heard(burst) ==
    burst.first \in DOMAIN owners => InWindow(burst, owners[burst.first])

(* A RNG-REQ is measured and answered; the first one never ends ranging.    *)
OnUpstreamBurst ==
    \E burst \in upstream :
        LET adjust  == TimingAdjust(burst)
            success == ~burst.initial /\ Abs(adjust) <= Tolerance
        IN  /\ burst.start + Burst = now
            /\ upstream' = upstream \ {burst}
            /\ \/ /\ Heard(burst)
                  /\ SendDownstream([kind |-> "RNG-RSP", adjust |-> adjust,
                                     success |-> success], RspLen)
                  /\ record' = [known |-> TRUE, ranging |-> record.ranging /\ ~success,
                         due |-> IF success THEN now + OnlineInterval
                                 ELSE IF record.known THEN record.due ELSE now,
                         offset |-> record.offset + adjust]
               \/ ~Heard(burst) /\ UNCHANGED <<busy, flight, record>>
            /\ UNCHANGED <<now, timers, nextMinislot, nextInitial, owners, delay,
                           modem, bounds>>

(* Everything that is due has happened before the clock moves on.           *)
NextTimes ==
    {nextSync, nextUcd, nextMap} \union {f.at : f \in {flight[i] : i \in DOMAIN flight}}
        \union {tx.at : tx \in modem.tx} \union {b.start + Burst : b \in upstream}
        \union (IF modem.t3 > 0 THEN {modem.t3} ELSE {})
Tick ==
    /\ \A t \in NextTimes : t > now
    /\ now' \in NextTimes /\ now' <= MaxTime
    /\ \A t \in NextTimes : now' <= t
    /\ UNCHANGED <<timers, busy, flight, scheduler, delay, modem, upstream, bounds>>

Next ==
    \/ SendSync \/ SendUcds \/ SendMap \/ SendTraffic
    \/ Receive \/ Lose \/ Lock \/ T3Expired \/ Reinitialize \/ Transmit
    \/ OnUpstreamBurst
    \/ Tick

Spec == Init /\ [][Next]_vars

-----------------------------------------------------------------------------
(* The CMTS's own messages queue behind other traffic and one another.      *)
WaitBound == MaxWait + UcdLen + MapLen + RspLen
SyncsTimely ==
    \A i \in DOMAIN flight : flight[i].msg.kind = "SYNC" =>
        flight[i].at <= flight[i].sent + SyncLen + delay + WaitBound

(* A wait is far below half a turn of the timestamp, which is minutes.      *)
ASSUME WaitAssumption == MaxWait \in Nat /\ 2 * (WaitBound + SyncLen) < Modulus

Messages ==
    [kind : {"SYNC"}, stamp : 0..Modulus - 1] \union [kind : {"UCD", "PDU"}]
    \union [kind : {"MAP"}, initial : BOOLEAN, station : BOOLEAN, start : Nat, poll : Nat]
    \union [kind : {"RNG-RSP"}, adjust : Int, success : BOOLEAN]
Frames == [msg : Messages, sent : Nat, at : Nat]

(* Every attribute keeps its type, and frames arrive in the order they were *)
(* sent, each in its own time (send_downstream).                            *)
TypeOK ==
    /\ modem.phase \in Phases /\ modem.clock \in Int /\ modem.offset \in Int
    /\ {modem.ucd, modem.sid, modem.missed} \subseteq BOOLEAN
    /\ {modem.t3, modem.waited} \subseteq Nat
    /\ modem.tx \subseteq [at : Nat, first : Nat, initial : BOOLEAN]
    /\ upstream \subseteq [start : Nat, first : Nat, initial : BOOLEAN]
    /\ \A i \in DOMAIN flight : flight[i] \in Frames /\ flight[i].at >= now
    /\ \A i, j \in DOMAIN flight : i < j => flight[i].at < flight[j].at
    /\ DOMAIN owners \subseteq Nat

(* What the modem takes for the CMTS's clock lags the real one by its       *)
(* one-way delay and what its last SYNC waited for the downstream, give or  *)
(* take whole turns of the timestamp, and never by less than the delay      *)
(* (_on_sync, with timestamp_delta across a wrap).                          *)
ClockLags ==
    modem.clock # NoClock =>
        \E wait \in 0..WaitBound : (modem.clock + delay + wait) % Modulus = 0

(* A modem that holds the timebase keeps it when the timestamp wraps: no    *)
(* SYNC moves its clock by more than SYNCs may wait.                        *)
ClockSteady ==
    [][modem.clock # NoClock /\ modem'.clock # NoClock
           => Abs(modem'.clock - modem.clock) <= WaitBound]_vars

(* How far outside its window a burst of a region arrives, 0 if inside.     *)
Astray(burst, length) ==
    LET early == StartOf(burst.first) - Slot - burst.start
        late  == burst.start + Burst - StartOf(burst.first + AtLeast(1, length)) - Slot
    IN  AtLeast(0, AtLeast(early, late))

(* A SYNC's timestamp is latched when it is queued, and what it then waits  *)
(* moves the modem's clock and so its bursts.  A modem within reach keeps   *)
(* to the regions it was granted, its first burst with no adjustment at all *)
(* included, while the waits of its SYNCs and its jitter together stay      *)
(* within the mini-slot the receiver allows on either side; beyond that it  *)
(* leaves them by the excess and no more: the adjustments take out the      *)
(* distance, and one wait at a time.  (A modem that acquires its clock      *)
(* after the timestamp wrapped sends whole turns too late.)                 *)
LandsInRegion ==
    \A burst \in upstream : delay <= MaxReach /\ burst.first \in DOMAIN owners =>
        \E turns \in 0..MaxTime \div Modulus :
            Astray([burst EXCEPT !.start = @ - turns * Modulus], owners[burst.first])
                <= AtLeast(0, modem.waited + 2 * Jitter - Slot)

(* The region table is pruned of nothing a burst may still arrive for.      *)
OwnersKept ==
    \A burst \in upstream :
        burst.start < StartOf(burst.first) + Modulus \div 2 => burst.first \in DOMAIN owners

(* A MAP comes early enough for every modem within reach to use its first   *)
(* mini-slot: "Must exceed the downstream propagation plus the modem's      *)
(* processing time plus the largest ranging offset in the plant".           *)
Headroom ==
    Advance >= 2 * MaxReach + 2 * WaitBound + MapLen + 2 * Jitter
NeverMissed == Headroom /\ delay <= MaxReach => ~modem.missed

(* What a MAP grants is used in time and heard where it was granted: the    *)
(* clock, the offsets, the table of regions and the advance each do their part. *)
BurstsLand ==
    TypeOK /\ SyncsTimely /\ ClockLags /\ LandsInRegion /\ OwnersKept /\ NeverMissed

Correction(msg) == IF msg.kind = "RNG-RSP" THEN msg.adjust ELSE 0
Corrections(frames) ==
    LET sum[n \in 0 .. Len(frames)] ==
            IF n = 0 THEN 0 ELSE sum[n - 1] + Correction(frames[n].msg)
    IN  sum[Len(frames)]

(* The total timing offset the CMTS shows for a modem is the one the modem  *)
(* applies, but for the corrections still on their way, as long as none was *)
(* lost and the modem did not start over: the CMTS's record goes on adding. *)
OffsetAgreed ==
    losses = 0 /\ reinits = 0
        => record.offset = modem.offset + Corrections(flight)
=============================================================================
