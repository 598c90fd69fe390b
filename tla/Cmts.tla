-------------------------------- MODULE Cmts --------------------------------
(***************************************************************************)
(* What the CMTS keeps about the modems on its cable (cmts/cmts.py and     *)
(* cmts/modemdb.py): one record and one SID for each MAC address that ever *)
(* ranged, the state an operator reads off the record, and which upstream  *)
(* scheduler owes the modem station maintenance.                           *)
(*                                                                         *)
(* A dictionary is a total function here: sid[m] = NoSid is a MAC address  *)
(* with no record, and bySid[s] = NoMac a SID nobody has.  `tracked` and   *)
(* `ranging` are the keys of station_maint_due and the set ranging_sids of *)
(* each channel's scheduler; UpstreamScheduler has the due times.          *)
(*                                                                         *)
(* ranging_attempts is left out: it is above 1 exactly when the record     *)
(* existed before this RNG-REQ.  So are the measured offsets and levels,   *)
(* the capabilities, the service flows' contents and the counters, none of *)
(* which a handler below tests, and the guard for SIDs past 0x1FFF is kept *)
(* as MaxSid.                                                              *)
(***************************************************************************)
EXTENDS Integers, FiniteSets

CONSTANTS
    Macs,       \* MAC addresses of the cable modems
    NoMac,      \* no modem
    Channels,   \* upstream channels
    MaxSid      \* the last SID before allocation starts over

NoSid == 0
NoChannel == 0
Sids == 1..MaxSid

ASSUME MacsAssumption == IsFiniteSet(Macs) /\ NoMac \notin Macs

ASSUME ChannelsAssumption == NoChannel \notin Channels

(* Records are never removed, so a SID is handed out twice only when more   *)
(* modems range than there are SIDs.                                        *)
ASSUME EnoughSids == MaxSid \in Nat \ {0} /\ Cardinality(Macs) <= MaxSid

VARIABLES
    sid,        \* the SID of each modem's record
    bySid,      \* the record of each SID
    nextSid,    \* the next SID to hand out
    channel,    \* the upstream channel of each record
    state,      \* the state of each record
    access,     \* network_access of each record
    tracked,    \* SIDs each channel owes station maintenance
    ranging     \* those of them on the fast cadence

cmtsVars == <<sid, bySid, nextSid, channel, state, access, tracked, ranging>>

-----------------------------------------------------------------------------
RecordStates == {"offline", "init(r1)", "init(r2)", "init(rc)", "init(d)",
                 "init(i)", "init(t)", "init(o)", "reject(m)", "reject(c)",
                 "online(d)", "online"}

Online == {"online", "online(d)"}
Rejected == {"reject(m)", "reject(c)"}

Known(m) == sid[m] # NoSid

\* Mutant of Forwards: the state alone decides.
ForwardsOnline(m) == state[m] = "online"

(* Traffic of a modem's CPEs is forwarded.                                  *)
Forwards(m) == access[m] /\ state[m] = "online"

CmtsInit ==
    /\ sid = [m \in Macs |-> NoSid]
    /\ bySid = [s \in Sids |-> NoMac]
    /\ nextSid = 1
    /\ channel = [m \in Macs |-> NoChannel]
    /\ state = [m \in Macs |-> "offline"]
    /\ access = [m \in Macs |-> TRUE]
    /\ tracked = [c \in Channels |-> {}]
    /\ ranging = [c \in Channels |-> {}]

-----------------------------------------------------------------------------
\* Mutant of Creates: a RNG-REQ with SID 0 is taken for a new modem.
CreatesOnInitial(m, initial) == ~Known(m) \/ initial

(* A RNG-REQ from a MAC address nobody ranged from before makes a record,   *)
(* whatever SID it carries.                                                 *)
Creates(m, initial) == ~Known(m)

\* Mutant of AfterSid: the allocator stands still.
AfterSidStays(s) == s

(* allocate_sid: the SID after s.                                           *)
AfterSid(s) == IF s + 1 > MaxSid THEN 1 ELSE s + 1

(* The modem is heard on channel c and its record names another one.        *)
Moves(m, c) == Known(m) /\ channel[m] # c

\* Mutant of Untracked: the channel the modem left goes on polling it.
UntrackedNever(sids, m, c) == sids

(* What is left of the schedulers' SIDs when the modem is heard on c: the   *)
(* scheduler of the channel it moved away from gives it up.                 *)
Untracked(sids, m, c) ==
    IF Moves(m, c) THEN [sids EXCEPT ![channel[m]] = @ \ {sid[m]}] ELSE sids

(* The record's state after a ranging exchange: a modem already in service  *)
(* stays there, and any other one is taken to have just finished ranging.   *)
Ranged(before, created, converged) ==
    IF before \in Online THEN before
    ELSE IF converged THEN "init(rc)"
    ELSE IF created \/ before = "offline" THEN "init(r1)"
    ELSE IF before = "init(r1)" THEN "init(r2)" ELSE before

(* A RNG-REQ with SID 0 (initial) or the modem's own, that landed where the *)
(* CMTS wants it (usable) or not.  Ranging never completes on the initial   *)
(* exchange.                                                                *)
Converged(initial, usable) == usable /\ ~initial

RngReq(m, c, initial, usable) ==
    LET created == Creates(m, initial)
        s       == IF created THEN nextSid ELSE sid[m]
        starts  == created \/ Moves(m, c)
        done    == Converged(initial, usable)
    IN  /\ sid' = [sid EXCEPT ![m] = s]
        /\ bySid' = IF created THEN [bySid EXCEPT ![s] = m] ELSE bySid
        /\ nextSid' = IF created THEN AfterSid(s) ELSE nextSid
        /\ channel' = [channel EXCEPT ![m] = c]
        /\ state' = [state EXCEPT ![m] = Ranged(@, created, done)]
        /\ tracked' = [Untracked(tracked, m, c) EXCEPT
                          ![c] = IF starts \/ done THEN @ \union {s} ELSE @]
        /\ ranging' = [Untracked(ranging, m, c) EXCEPT
                          ![c] = IF done THEN @ \ {s}
                                 ELSE IF starts THEN @ \union {s} ELSE @]
        /\ UNCHANGED access

(* A REG-REQ whose MICs or service flows the CMTS refuses.                  *)
Refuses(verdict) == verdict \in {"mic", "class"}

(* A REG-REQ from a modem with a record.  network_access is taken from the  *)
(* file once the MICs verify, before admission is decided; the state of an  *)
(* admitted modem waits for its REG-ACK.                                    *)
RegReq(m, verdict, gives) ==
    /\ Known(m)
    /\ access' = [access EXCEPT ![m] = IF verdict = "mic" THEN @ ELSE gives]
    /\ state' = [state EXCEPT ![m] =
                    CASE ~Refuses(verdict) -> @
                      [] verdict = "mic"   -> "reject(m)"
                      [] OTHER             -> "reject(c)"]
    /\ UNCHANGED <<sid, bySid, nextSid, channel, tracked, ranging>>

\* Mutant of RegAck: only a modem last seen at its download is let in.
RegAckInOrder(m) ==
    /\ Known(m)
    /\ state' = IF state[m] = "init(o)" THEN [state EXCEPT ![m] = "online"] ELSE state
    /\ UNCHANGED <<sid, bySid, nextSid, channel, access, tracked, ranging>>

(* A REG-ACK puts the modem in service, whatever its record said before.    *)
RegAck(m) ==
    /\ Known(m)
    /\ state' = [state EXCEPT ![m] = IF access[m] THEN "online" ELSE "online(d)"]
    /\ tracked' = [tracked EXCEPT ![channel[m]] = @ \union {sid[m]}]
    /\ ranging' = [ranging EXCEPT ![channel[m]] = @ \ {sid[m]}]
    /\ UNCHANGED <<sid, bySid, nextSid, channel, access>>

(* Set the record's state when it is one of `from`.                         *)
Advance(m, from, to) ==
    /\ Known(m)
    /\ state' = IF state[m] \in from THEN [state EXCEPT ![m] = to] ELSE state
    /\ UNCHANGED <<sid, bySid, nextSid, channel, access, tracked, ranging>>

(* The modem's DHCPDISCOVER or DHCPREQUEST goes by, the server's DHCPACK,   *)
(* and the modem's Time of Day and TFTP requests.                           *)
RelayFromCable(m) == Advance(m, {"init(rc)", "init(r2)", "init(r1)"}, "init(d)")
RelayAck(m) == Advance(m, {"init(d)", "init(rc)"}, "init(i)")
TrackTod(m) == Advance(m, {"init(i)", "init(d)", "init(rc)"}, "init(t)")
TrackTftp(m) == Advance(m, {"init(i)", "init(t)", "init(d)", "init(rc)"}, "init(o)")

-----------------------------------------------------------------------------
(* The handlers in any order, for any modem: Bringup says in which order    *)
(* the modems of the plant call them.                                       *)
CmtsNext == \E m \in Macs :
    \/ \E c \in Channels, initial, usable \in BOOLEAN : RngReq(m, c, initial, usable)
    \/ \E verdict \in {"ok", "mic", "class"}, gives \in BOOLEAN : RegReq(m, verdict, gives)
    \/ RegAck(m)
    \/ RelayFromCable(m)
    \/ RelayAck(m)
    \/ TrackTod(m)
    \/ TrackTftp(m)

CmtsSpec == CmtsInit /\ [][CmtsNext]_cmtsVars

-----------------------------------------------------------------------------
(* The database and the schedulers' dictionaries keep their types.          *)
CmtsTypeOK ==
    /\ sid \in [Macs -> Sids \union {NoSid}]
    /\ bySid \in [Sids -> Macs \union {NoMac}]
    /\ nextSid \in Sids
    /\ channel \in [Macs -> Channels \union {NoChannel}]
    /\ \A m \in Macs : Known(m) => channel[m] # NoChannel
    /\ state \in [Macs -> RecordStates]
    /\ access \in [Macs -> BOOLEAN]
    /\ tracked \in [Channels -> SUBSET Sids]
    /\ ranging \in [Channels -> SUBSET Sids]

(* by_mac and by_sid agree, so no two modems share a SID: a Request or a    *)
(* data PDU, known to the CMTS only by its SID, is charged to the modem it  *)
(* came from.                                                               *)
SidsOwned ==
    /\ \A m \in Macs : Known(m) => bySid[sid[m]] = m
    /\ \A s \in Sids : bySid[s] # NoMac => sid[bySid[s]] = s

(* Through every change of channel and every re-initialisation, a known     *)
(* modem is polled by the scheduler of the channel its record names and by  *)
(* no other one: polled by none it would go out of service at T4, and       *)
(* polled by two it would be granted slots where it cannot hear them.       *)
PolledOnItsChannel ==
    \A m \in Macs, c \in Channels :
        Known(m) => (sid[m] \in tracked[c] <=> c = channel[m])

(* Nothing but a refused registration takes a modem out of service: not     *)
(* station maintenance, and not the DHCP, Time of Day and TFTP traffic of a *)
(* modem that re-initialised and comes up again.                            *)
LeavesServiceRefused ==
    [][\A m \in Macs : state[m] \in Online /\ state'[m] \notin Online
                           => state'[m] \in Rejected]_cmtsVars
=============================================================================
