--------------------------- MODULE UpstreamMedium ---------------------------
(***************************************************************************)
(* The upstream half of the HFC plant (phy/plant.py): bursts of many       *)
(* modems on a shared channel, each arriving at the CMTS one propagation   *)
(* delay after it was sent, and destroyed there by another burst or by     *)
(* noise.                                                                  *)
(*                                                                         *)
(* Time is an integer; a burst is the window in which it arrives.  What    *)
(* the CMTS was told of a burst is kept as its `verdict`.  Payload, power, *)
(* IUC and mini-slots are carried through untouched and left out, as are   *)
(* the counters.                                                           *)
(***************************************************************************)
EXTENDS Integers, Sequences, FiniteSets

CONSTANTS
    Modems,
    UsChannels,
    Delay,              \* one-way propagation delay of each modem
    Durations,          \* how long a burst may take
    Linger,             \* how long a burst is remembered after it arrived
    NoiseLengths,       \* how long an ingress burst may last
    MaxBursts,          \* bound: bursts transmitted
    MaxNoise,           \* bound: noise windows at a time
    MaxTime             \* bound: the horizon the model runs to

ASSUME MediumAssumption ==
    /\ Delay \in [Modems -> Nat]
    /\ Durations \subseteq Nat \ {0}
    /\ NoiseLengths \subseteq Nat
    /\ Linger \in Nat
    /\ {MaxBursts, MaxNoise} \subseteq Nat
    /\ MaxTime \in Nat

VARIABLES
    now,                \* the simulation clock
    bursts,             \* every burst transmitted so far
    inflight,           \* the bursts each channel still remembers
    noise               \* the noise windows, on one channel or on all

mediumVars == <<now, bursts, inflight, noise>>

Bursts == [ch : UsChannels, sent : Nat, start : Nat, end : Nat, collided : BOOLEAN,
           lost : BOOLEAN, verdict : {"flying", "intact", "collided", "lost"}]
Windows == [start : Nat, end : Nat, on : SUBSET UsChannels]

-----------------------------------------------------------------------------
MediumInit ==
    /\ now = 0
    /\ bursts = <<>>
    /\ inflight = [ch \in UsChannels |-> {}]
    /\ noise = {}

Overlaps(a, b) == a.start < b.end /\ b.start < a.end

\* Mutant of Remembered: a burst is forgotten when it left the modem.
RememberedWhileSent(ch) ==
    {i \in inflight[ch] : \A m \in Modems : bursts[i].end - Delay[m] >= now}

(* The bursts a channel still remembers when another one is transmitted.    *)
Remembered(ch) == {i \in inflight[ch] : bursts[i].end >= now - Linger}

\* Mutants of Hits: every burst remembered, and those of other channels.
HitsRemembered(ch, window) == Remembered(ch)
HitsAllChannels(ch, window) ==
    {i \in UNION {Remembered(c) : c \in UsChannels} : Overlaps(window, bursts[i])}

(* The bursts on a channel that one arriving in this window destroys.       *)
Hits(ch, window) == {i \in Remembered(ch) : Overlaps(window, bursts[i])}

(* Noise is known that will be there when a burst arrives in this window.   *)
Noisy(ch, window) == \E w \in noise : ch \in w.on /\ Overlaps(window, w)

(* A modem transmits now.  Collisions are seen here, for the new burst and  *)
(* for those it hits; so is the noise that will be there when it arrives.   *)
TransmitUpstream(m, ch, duration, dropped) ==
    LET start == now + Delay[m]
        window == [start |-> start, end |-> start + duration]
        hit == Hits(ch, window)
        burst == [ch |-> ch, sent |-> now, start |-> start, end |-> start + duration,
                  collided |-> hit # {},
                  lost |-> dropped \/ Noisy(ch, window),
                  verdict |-> "flying"]
    IN  /\ Len(bursts) < MaxBursts
        /\ bursts' = Append([i \in DOMAIN bursts |->
                         [bursts[i] EXCEPT !.collided = @ \/ i \in hit]], burst)
        /\ inflight' = [inflight EXCEPT ![ch] = Remembered(ch) \union {Len(bursts) + 1}]
        /\ UNCHANGED <<now, noise>>

(* The last symbol of a burst arrives, and the CMTS is handed the burst.    *)
Deliver(i) ==
    /\ bursts[i].verdict = "flying"
    /\ bursts[i].end <= now
    /\ bursts' = [bursts EXCEPT ![i].verdict =
           IF bursts[i].collided THEN "collided"
           ELSE IF bursts[i].lost THEN "lost" ELSE "intact"]
    /\ UNCHANGED <<now, inflight, noise>>

InjectNoise(length, on) ==
    /\ Cardinality(noise) < MaxNoise
    /\ noise' = noise \union {[start |-> now, end |-> now + length, on |-> on]}
    /\ UNCHANGED <<now, bursts, inflight>>

ClearNoise ==
    /\ noise' = {}
    /\ UNCHANGED <<now, bursts, inflight>>

(* The clock never passes the end of a burst that is still to be delivered. *)
Tick ==
    /\ now < MaxTime
    /\ \A i \in DOMAIN bursts : bursts[i].verdict = "flying" => bursts[i].end > now
    /\ now' = now + 1
    /\ UNCHANGED <<bursts, inflight, noise>>

MediumNext ==
    \/ \E m \in Modems, ch \in UsChannels, duration \in Durations, dropped \in BOOLEAN :
           TransmitUpstream(m, ch, duration, dropped)
    \/ \E i \in DOMAIN bursts : Deliver(i)
    \/ \E length \in NoiseLengths, on \in {{ch} : ch \in UsChannels} \union {UsChannels} :
           InjectNoise(length, on)
    \/ ClearNoise
    \/ Tick

MediumSpec == MediumInit /\ [][MediumNext]_mediumVars

-----------------------------------------------------------------------------
MediumTypeOK ==
    /\ now \in Nat
    /\ bursts \in Seq(Bursts)
    /\ inflight \in [UsChannels -> SUBSET Nat]
    /\ noise \in SUBSET Windows

(* Two bursts that overlap at the CMTS destroy each other, however far      *)
(* apart their modems are and whatever order they were sent in: pruning the *)
(* bursts in flight forgets none that a later one can still hit.            *)
OverlappingCollide ==
    \A i, j \in DOMAIN bursts :
        i # j /\ bursts[i].ch = bursts[j].ch /\ Overlaps(bursts[i], bursts[j])
            => bursts[i].collided /\ bursts[j].collided

(* A burst is destroyed by nothing but a burst that overlaps it.            *)
CollisionHasCause ==
    \A i \in DOMAIN bursts : bursts[i].collided
        => \E j \in DOMAIN bursts : /\ j # i
                                    /\ bursts[j].ch = bursts[i].ch
                                    /\ Overlaps(bursts[i], bursts[j])

(* Exactly those bursts collide that overlap at the CMTS, in whatever order *)
(* they were sent and however the list of bursts in flight was pruned.      *)
CollideAsOverlap == OverlappingCollide /\ CollisionHasCause

(* What the CMTS was told of a burst stays true: a burst is remembered      *)
(* beyond its arrival, but never found out to have collided after it.       *)
VerdictStands ==
    \A i \in DOMAIN bursts :
        /\ bursts[i].verdict = "intact" => ~bursts[i].collided /\ ~bursts[i].lost
        /\ bursts[i].verdict = "lost" => ~bursts[i].collided

(* A burst sent into noise is never received intact, not even when it only  *)
(* arrives in the noise ("Upstream bursts overlapping that window are       *)
(* destroyed"; a window opened while the burst is on its way spares it).    *)
NoiseDestroys ==
    \A i \in DOMAIN bursts, w \in noise :
        bursts[i].ch \in w.on /\ Overlaps(bursts[i], w) /\ w.start < bursts[i].sent
            => bursts[i].lost
=============================================================================
