---------------------------- MODULE BurstSizing -----------------------------
(***************************************************************************)
(* How many mini-slots a modem asks for, under which burst profile the     *)
(* CMTS grants them, and what the modem makes of the grant: the arithmetic *)
(* of phy/channel.py between the queue of one modem (cm/cm.py) and the     *)
(* pending request of its SID (cmts/scheduler.py, cmts/cmts.py).           *)
(*                                                                         *)
(* A queued frame is its length as a MAC frame.  The request contention is *)
(* one step in which the request is heard or lost; MAPs arrive in order.   *)
(***************************************************************************)
EXTENDS Integers, Sequences

CONSTANTS
    SymbolsPerSlot,     \* of the channel
    DataBits,           \* bits per symbol of the advanced-PHY profiles
    Versions,           \* DOCSIS versions the modem may have
    Concatenation,      \* the modem may put several frames in a grant
    Lengths,            \* of the frames to send
    Rooms,              \* mini-slots a MAP may have left for data
    MaxQueue,           \* bound: frames queued at once
    MaxMaps,            \* bound: MAPs on their way
    MaxFaults           \* bound: requests lost, and MAPs with less room

ASSUME SizingAssumption ==
    /\ {SymbolsPerSlot, DataBits} \subseteq Nat \ {0}
    /\ Versions \subseteq {"1.x", "2.0"}
    /\ Lengths \subseteq Nat \ {0} /\ Rooms \subseteq Nat
    /\ {MaxQueue, MaxMaps, MaxFaults} \subseteq Nat

VARIABLES
    version,            \* of the modem
    advPhy,             \* the CMTS knows that it has DOCSIS 2.0
    queue,              \* frames to send, oldest first
    grantedIuc,         \* the profile of the last grant used; 0 for none
    outstanding,        \* mini-slots to ask for; 0 when there is no request
    requested,          \* ... which has been sent
    grantPending,       \* the CMTS has said that it heard it
    owed,               \* the CMTS's record of it, `pending`; 0 for none
    maps,               \* what MAPs on their way hold for the modem
    wasted,             \* history: grants in a row that were as large as
                        \* asked for and still held nothing
    faults

modem == <<queue, grantedIuc, outstanding, requested, grantPending>>
sizingVars == <<version, advPhy, modem, owed, maps, wasted, faults>>

-----------------------------------------------------------------------------
(* The data profiles of default_burst_profiles; 0 mini-slots is no limit.   *)
Short == 5
Long == 6
AdvShort == 9
AdvLong == 10

Iucs == {Short, Long, AdvShort, AdvLong}

Profile ==
    [iuc \in Iucs |->
        LET burst(bits, t, k, max) == [bits |-> bits, t |-> t, k |-> k, max |-> max]
        IN  CASE iuc = Short -> burst(4, 5, 75, 12)
              [] iuc = Long -> burst(4, 8, 220, 0)
              [] iuc = AdvShort -> burst(DataBits, 5, 75, 12)
              [] iuc = AdvLong -> burst(DataBits, 10, 232, 0)]

PreambleAndGuard == 128 \div 2 + 8      \* symbols
CeilDiv(a, b) == (a + b - 1) \div b
Least(a, b) == IF a <= b THEN a ELSE b

BytesPerMinislot(iuc) == (SymbolsPerSlot * Profile[iuc].bits) \div 8

(* A codeword of k bytes has 2t bytes of parity; the last is shortened.     *)
FecEncodedSize(bytes, iuc) ==
    bytes + CeilDiv(bytes, Profile[iuc].k) * 2 * Profile[iuc].t

(* The symbols of a burst, rounded up to mini-slots.                        *)
MinislotsFor(bytes, iuc) ==
    CeilDiv(8 * FecEncodedSize(bytes, iuc) + PreambleAndGuard * Profile[iuc].bits,
            SymbolsPerSlot * Profile[iuc].bits)

(* "The inverse: the largest payload that fits", by bisection.              *)
PayloadCapacity ==
    [minislots \in 0..255 |-> [iuc \in Iucs |->
        LET search[range \in Nat \X Nat] ==
                LET lo  == range[1]
                    hi  == range[2]
                    mid == (lo + hi + 1) \div 2
                IN  IF lo >= hi THEN lo
                    ELSE IF MinislotsFor(mid, iuc) <= minislots THEN search[<<mid, hi>>]
                    ELSE search[<<lo, mid - 1>>]
        IN  search[<<0, minislots * BytesPerMinislot(iuc) + 1>>]]]

-----------------------------------------------------------------------------
(* The modem's request.                                                     *)
Total(frames) ==
    LET sum[n \in 0 .. Len(frames)] == IF n = 0 THEN 0 ELSE sum[n - 1] + frames[n]
    IN  sum[Len(frames)]

(* A queued packet is counted with two bytes more than it will take (a      *)
(* management frame, of which there are none here, as it is).               *)
QueueSize(frames) == Total(frames) + 2 * Len(frames)

UsableIucs(long) ==
    {IF long THEN Long ELSE Short}
    \union IF version = "2.0" THEN {IF long THEN AdvLong ELSE AdvShort} ELSE {}

\* Mutant of SizingIuc: the modem counts on the most efficient profile.
SizingIucBest(long, granted) ==
    CHOOSE i \in UsableIucs(long) :
        \A j \in UsableIucs(long) : BytesPerMinislot(j) <= BytesPerMinislot(i)

(* The profile last granted, while it may be granted again, or the least    *)
(* efficient one.                                                           *)
SizingIuc(long, granted) ==
    IF granted \in UsableIucs(long) THEN granted
    ELSE CHOOSE i \in UsableIucs(long) :
             \A j \in UsableIucs(long) : BytesPerMinislot(i) <= BytesPerMinislot(j)

(* What the queue needs, within what the profile and the field allow.       *)
Need(frames, granted) ==
    LET iuc  == SizingIuc(QueueSize(frames) > 400, granted)
        need == MinislotsFor(QueueSize(frames), iuc)
        max  == IF Profile[iuc].max > 0 THEN Profile[iuc].max ELSE 255
    IN  Least(need, Least(max, 255))

Fault == faults < MaxFaults /\ faults' = faults + 1

SizingInit ==
    /\ version \in Versions /\ advPhy = FALSE
    /\ queue = <<>> /\ grantedIuc = 0
    /\ outstanding = 0 /\ requested = FALSE /\ grantPending = FALSE
    /\ owed = 0 /\ maps = <<>>
    /\ wasted = 0 /\ faults = 0

Enqueue(length) ==
    /\ Len(queue) < MaxQueue
    /\ queue' = Append(queue, length)
    /\ outstanding' = IF outstanding = 0 /\ ~grantPending THEN Need(queue', grantedIuc)
                      ELSE outstanding
    /\ UNCHANGED <<version, advPhy, grantedIuc, requested, grantPending, owed, maps,
                   wasted, faults>>

(* MAPs built before a request say nothing of it.                           *)
Unanswered == [i \in DOMAIN maps |-> [maps[i] EXCEPT !.ack = FALSE]]

(* The request replaces what the CMTS still had of an earlier one.          *)
SendRequest ==
    /\ outstanding > 0 /\ ~requested
    /\ requested' = TRUE
    /\ owed' = outstanding
    /\ maps' = Unanswered
    /\ UNCHANGED <<version, advPhy, queue, grantedIuc, outstanding, grantPending, wasted,
                   faults>>

LoseRequest ==
    /\ Fault
    /\ outstanding > 0 /\ ~requested
    /\ requested' = TRUE
    /\ maps' = Unanswered
    /\ UNCHANGED <<version, advPhy, queue, grantedIuc, outstanding, grantPending, owed,
                   wasted>>

-----------------------------------------------------------------------------
(* The CMTS.                                                                *)
(* Advanced-PHY grants only for a modem it knows to be DOCSIS 2.0.          *)
IucFor(long) ==
    IF advPhy THEN IF long THEN AdvLong ELSE AdvShort
    ELSE IF long THEN Long ELSE Short

(* The evidence: the vendor class of the modem's DHCP, or its REG-REQ.      *)
LearnAdvPhy ==
    /\ version = "2.0" /\ ~advPhy
    /\ advPhy' = TRUE
    /\ UNCHANGED <<version, modem, owed, maps, wasted, faults>>

\* Mutant of Granted: the CMTS cuts a grant and forgets the rest of it.
GrantedOnce(room) ==
    LET iuc   == IucFor(owed > 12)
        limit == IF Profile[iuc].max > 0 THEN Profile[iuc].max ELSE owed
    IN  [iuc |-> iuc, minislots |-> Least(Least(owed, limit), room), left |-> 0]

(* A grant: within the profile's limit and the room; what is left of the    *)
(* request waits for the next MAP.                                          *)
Granted(room) ==
    LET iuc   == IucFor(owed > 12)
        limit == IF Profile[iuc].max > 0 THEN Profile[iuc].max ELSE owed
        grant == Least(Least(owed, limit), room)
    IN  [iuc |-> iuc, minislots |-> grant, left |-> owed - grant]

(* A MAP, with a grant, a zero-length grant, or nothing for the modem.      *)
BuildMap(room) ==
    LET g == Granted(room)
    IN  /\ Len(maps) < MaxMaps
        /\ IF \A r \in Rooms : r <= room THEN UNCHANGED faults ELSE Fault
        /\ maps' = Append(maps,
               [grant |-> IF owed = 0 THEN 0 ELSE g.minislots, iuc |-> g.iuc,
                heard |-> owed > 0, ack |-> TRUE])
        /\ owed' = IF owed = 0 THEN 0 ELSE g.left
        /\ UNCHANGED <<version, advPhy, modem, wasted>>

-----------------------------------------------------------------------------
(* The modem's use of a MAP.                                                *)
Prefix(n) == SubSeq(queue, 1, n)

\* Mutant of Fits: concatenation leaves no room for its own header.
FitsBare(n, capacity) == (n = 1 \/ Concatenation) /\ Total(Prefix(n)) <= capacity

(* The first frame must fit, and others with room for a header to spare.    *)
Fits(n, capacity) ==
    IF n = 1 THEN Head(queue) <= capacity
    ELSE Concatenation /\ Total(Prefix(n)) + 8 <= capacity

Taken(capacity) ==
    CHOOSE n \in 0..Len(queue) :
        /\ \A i \in 1..n : Fits(i, capacity)
        /\ n < Len(queue) => ~Fits(n + 1, capacity)

(* A concatenated burst has a six-byte header of its own.                   *)
Payload(n) == Total(Prefix(n)) + IF n > 1 THEN 6 ELSE 0

(* The head of the queue has no chance while all of it is short, and is     *)
(* granted under a short profile with a limit below it.                     *)
TooLongFor(iuc) ==
    /\ iuc \in {Short, AdvShort} /\ queue # <<>> /\ QueueSize(queue) <= 400
    /\ Head(queue) > PayloadCapacity[Profile[iuc].max][iuc]

(* As many frames as fit go out, and the rest is asked for anew; if not     *)
(* even the first fits, it all is.                                          *)
UseDataGrant(map) ==
    LET n == Taken(PayloadCapacity[map.grant][map.iuc])
    IN  /\ grantPending' = FALSE /\ requested' = FALSE
        /\ queue' = SubSeq(queue, n + 1, Len(queue))
        /\ grantedIuc' = IF queue = <<>> THEN grantedIuc ELSE map.iuc
        /\ outstanding' = IF queue' = <<>> THEN 0 ELSE Need(queue', grantedIuc')
        /\ wasted' = IF n > 0 \/ queue = <<>> \/ TooLongFor(map.iuc) \/ map.grant < outstanding
                     THEN 0 ELSE wasted + 1

(* No grant and no word of it: the request is taken for lost, if the MAP    *)
(* was built after it.                                                      *)
NoGrant(map) ==
    /\ grantPending' = (grantPending \/ map.heard)
    /\ LET gone == requested /\ map.ack /\ ~grantPending'
       IN  /\ requested' = (requested /\ ~gone)
           /\ outstanding' = IF gone THEN IF queue = <<>> THEN 0 ELSE Need(queue, grantedIuc)
                             ELSE outstanding
    /\ UNCHANGED <<queue, grantedIuc, wasted>>

ReceiveMap ==
    /\ maps # <<>> /\ maps' = Tail(maps)
    /\ IF Head(maps).grant > 0 THEN UseDataGrant(Head(maps)) ELSE NoGrant(Head(maps))
    /\ UNCHANGED <<version, advPhy, owed, faults>>

-----------------------------------------------------------------------------
SizingNext ==
    \/ \E length \in Lengths : Enqueue(length)
    \/ SendRequest \/ LoseRequest
    \/ LearnAdvPhy
    \/ \E room \in Rooms : BuildMap(room)
    \/ ReceiveMap

(* MAPs go out and arrive, and requests are sent.                           *)
SizingFairness ==
    /\ WF_sizingVars(SendRequest) /\ WF_sizingVars(ReceiveMap)
    /\ WF_sizingVars(\E room \in Rooms : BuildMap(room))

SizingSpec == SizingInit /\ [][SizingNext]_sizingVars
SizingFairSpec == SizingSpec /\ SizingFairness

-----------------------------------------------------------------------------
(* Every attribute keeps its type, requests within their eight-bit field.   *)
SizingTypeOK ==
    /\ version \in Versions /\ {advPhy, requested, grantPending} \subseteq BOOLEAN
    /\ queue \in Seq(Lengths) /\ Len(queue) <= MaxQueue
    /\ grantedIuc \in Iucs \union {0}
    /\ outstanding \in 0..255 /\ owed \in 0..255
    /\ maps \in Seq([grant : 0..255, iuc : Iucs, heard : BOOLEAN, ack : BOOLEAN])
    /\ Len(maps) <= MaxMaps
    /\ faults \in 0..MaxFaults

(* What a modem puts into a grant, headers included, fits: the burst needs  *)
(* no more mini-slots than it was granted (_use_data_grant).                *)
Leave == Len(queue) - Len(queue')
BurstFits ==
    [][Leave > 0
          => MinislotsFor(Payload(Leave), Head(maps).iuc) <= Head(maps).grant]_sizingVars

(* The search finds what a grant holds: no byte more would fit, and what it *)
(* finds does, unless not even the preamble fits (payload_capacity).        *)
HoldsExactly(minislots, iuc) ==
    LET bytes == PayloadCapacity[minislots][iuc]
    IN  /\ bytes > 0 => MinislotsFor(bytes, iuc) <= minislots
        /\ MinislotsFor(bytes + 1, iuc) > minislots
CapacityExact == \A i \in DOMAIN maps : HoldsExactly(maps[i].grant, maps[i].iuc)

(* A grant as large as the modem asked for holds its first frame, or the    *)
(* next one does: what was asked under the wrong profile is corrected by    *)
(* the first grant (_sizing_iuc).  Not counted is a frame that is too long  *)
(* for the limit of the short profile.                                      *)
WastesOne == wasted <= 1

(* Grants hold what they were asked for, to the byte and from the second on. *)
GrantsFit == SizingTypeOK /\ CapacityExact /\ WastesOne

(* Whatever is queued goes out, as what a modem asks for before it has seen *)
(* a grant "is always sufficient" (_sizing_iuc) ...                         *)
QueueDrains == []<>(queue = <<>>) \/ []<><<Len(queue') < Len(queue)>>_sizingVars

(* ... which holds but for a frame that is, for ever, too long for the      *)
(* short profile.                                                           *)
DrainsUnlessShort == <>[]TooLongFor(IucFor(FALSE)) \/ QueueDrains
=============================================================================
