---------------------------- MODULE ModemHandlers ----------------------------
(***************************************************************************)
(* The cable modem of cm/cm.py as a record and one operator per handler:   *)
(* what the modem is after it handled a message, a timer or a MAP.  A      *)
(* handler with a choice in it (the random back-off, a MAP that came late, *)
(* how many frames a grant holds) is the set of its possible results.      *)
(*                                                                         *)
(*   state         CmState, by the source's value                          *)
(*   synced        clock_offset is not None                                *)
(*   ucd           the UCD in use; us_channel is set and cleared with it   *)
(*   uccTarget     the channel a UCC-REQ named, NoChannel for none         *)
(*   registered    registration completed since the last re-initialisation *)
(*   sid           NoSid until a RNG-RSP assigns one                       *)
(*   address       the IP stack has an address                             *)
(*   timers        the timers that are running                             *)
(*   retries       ranging_contention.attempts                             *)
(*   queue         us_queue: <<frame kind, channel a UCC-RSP names>>       *)
(*   outstanding   outstanding_request # 0                                 *)
(*   requestSlot   request_minislot is not None                            *)
(*   grantPending  grant_pending                                           *)
(*   bursts        the transmissions scheduled, in mini-slot order         *)
(*   loaded        _tftp_block is the last block of the file               *)
(*                                                                         *)
(* DS_LOCK and RANGING_COMPLETE are set and overwritten within one handler *)
(* and never seen by another.  Power level, frequency, ranging offset and  *)
(* the counters change nothing of the control and are left out, and so is  *)
(* the ARP exchange that may precede a unicast frame.                      *)
(***************************************************************************)
EXTENDS Integers, Sequences

CONSTANTS
    Channels,           \* upstream channels of the plant
    AdvancedChannels,   \* those with advanced-PHY burst profiles
    ChangeCounts,       \* configuration change counts a UCD may carry
    Sids,               \* SIDs the CMTS may assign
    Is20,               \* the modem is DOCSIS 2.0
    Concatenation,      \* the modem may send several frames in one burst
    TimeServer,         \* the DHCP server names a time server
    BootFile,           \* the DHCP server names a TFTP server and a file
    MaxRetries          \* T3 expiries before the modem gives the upstream up

NoChannel == 0
NoSid == 0

ASSUME ModemAssumption ==
    /\ Channels \subseteq Nat \ {NoChannel}
    /\ AdvancedChannels \subseteq Channels
    /\ ChangeCounts \subseteq Nat
    /\ Sids \subseteq Nat \ {NoSid}
    /\ {Is20, Concatenation, TimeServer, BootFile} \subseteq BOOLEAN
    /\ MaxRetries \in Nat \ {0}

NoUcd == [ch |-> NoChannel, adv |-> FALSE, ccc |-> 0]
Ucds == [ch : Channels, adv : BOOLEAN, ccc : ChangeCounts]

States == {"offline", "ds-scan", "sync-wait", "ucd-wait", "ranging-wait",
           "ranging-initial", "ranging-station", "dhcp", "time-of-day",
           "tftp-config", "registering", "operational", "rejected"}

(* The states in which a missed RNG-RSP is not fatal.                       *)
InService == {"operational", "dhcp", "time-of-day", "tftp-config", "registering"}

(* The timers reinitialize() cancels, and those it does not; a T6 that was  *)
(* running when another one was started is lost to every cancel().          *)
MacTimers == {"T1", "T2", "T3", "T4", "T6", "lost-sync"}
Timers == MacTimers \union {"ds-scan", "tod", "tftp", "lost-T6"}

FrameKinds == {"DISCOVER", "REQUEST", "TOD", "RRQ", "ACK", "LAST-ACK", "REG-REQ",
               "REG-ACK", "UCC-RSP", "STACK", "CPE"}
Frames == FrameKinds \X (Channels \union {NoChannel})

Bursts == [kind : {"RNG-REQ", "REQ", "DATA"}, sid : Sids \union {NoSid},
           frames : Seq(Frames)]

(* What a MAP says to this modem: a broadcast Initial Maintenance region, a *)
(* Station Maintenance region and a data grant for its SID (of no length,   *)
(* or of some), a Request region, whether the ack-time has passed the slot  *)
(* its request went out in, and how many of those regions (in the order of  *)
(* the MAP: 1 initial, 2 station, 3 data, 4 request) it came too late for.  *)
Maps == [ch : Channels, ccc : ChangeCounts, initial : BOOLEAN, station : BOOLEAN,
         grant : {"none", "zero", "sized"}, request : BOOLEAN, acked : BOOLEAN,
         late : 0..4]

Modems ==
    [state : States, synced : BOOLEAN, ucd : Ucds \union {NoUcd},
     uccTarget : Channels \union {NoChannel}, registered : BOOLEAN,
     sid : Sids \union {NoSid}, address : BOOLEAN, timers : SUBSET Timers,
     retries : 0..(MaxRetries - 1), queue : Seq(Frames), outstanding : BOOLEAN,
     requestSlot : BOOLEAN, grantPending : BOOLEAN, bursts : Seq(Bursts),
     loaded : BOOLEAN]

PoweredOff ==
    [state |-> "offline", synced |-> FALSE, ucd |-> NoUcd, uccTarget |-> NoChannel,
     registered |-> FALSE, sid |-> NoSid, address |-> FALSE, timers |-> {},
     retries |-> 0, queue |-> <<>>, outstanding |-> FALSE, requestSlot |-> FALSE,
     grantPending |-> FALSE, bursts |-> <<>>, loaded |-> FALSE]

-----------------------------------------------------------------------------
Arm(m, timer) == [m EXCEPT !.timers = @ \union {timer}]
Disarm(m, timer) == [m EXCEPT !.timers = @ \ {timer}]

(* The modem hears the downstream: frames reach it in no other state.       *)
Listening(m) == m.state \notin {"offline", "ds-scan"}

(* The modem is in the middle of a ranging exchange.                        *)
Ranging(m) == m.state \in {"ranging-initial", "ranging-station"}

(* Ask for bandwidth, unless a request is already outstanding or granted.   *)
MaybeRequest(m) ==
    IF /\ m.queue # <<>> /\ m.ucd # NoUcd /\ m.sid # NoSid
       /\ ~m.outstanding /\ ~m.grantPending
    THEN [m EXCEPT !.outstanding = TRUE]
    ELSE m

Queued(m, frame) == MaybeRequest([m EXCEPT !.queue = Append(@, frame)])
Enqueue(m, kind) == Queued(m, <<kind, NoChannel>>)

(* Mutant: the request the modem had out survives.                          *)
ReinitializeKeepsRequest(m) ==
    [m EXCEPT !.state = "ds-scan", !.synced = FALSE, !.ucd = NoUcd,
              !.uccTarget = NoChannel, !.registered = FALSE, !.sid = NoSid,
              !.address = FALSE, !.retries = 0, !.queue = <<>>,
              !.timers = (@ \ MacTimers) \union {"ds-scan"}]

(* Re-initialise the MAC.  The request and grant state, the transmissions   *)
(* already scheduled and the provisioning timers are left as they were.     *)
Reinitialize(m) ==
    [m EXCEPT !.state = "ds-scan", !.synced = FALSE, !.ucd = NoUcd,
              !.uccTarget = NoChannel, !.registered = FALSE, !.sid = NoSid,
              !.address = FALSE, !.retries = 0, !.queue = <<>>,
              !.outstanding = FALSE,
              !.timers = (@ \ MacTimers) \union {"ds-scan"}]

PowerOn(m) == Arm([m EXCEPT !.state = "ds-scan"], "ds-scan")

(* The scan timer finds the carrier: lock, and wait for SYNC.               *)
LockDownstream(m) ==
    IF m.state = "ds-scan"
    THEN Arm(Disarm([m EXCEPT !.state = "sync-wait"], "ds-scan"), "lost-sync")
    ELSE Disarm(m, "ds-scan")

OnSync(m) ==
    LET locked == Arm([m EXCEPT !.synced = TRUE], "lost-sync")
    IN  IF m.state = "sync-wait"
        THEN Arm([locked EXCEPT !.state = "ucd-wait"], "T1")
        ELSE locked

(* Mutant: a lower-numbered channel is taken in every state.                *)
WantedAlwaysLower(m, u) ==
    \/ m.uccTarget = u.ch
    \/ m.uccTarget = NoChannel /\ m.ucd = NoUcd
    \/ m.uccTarget = NoChannel /\ u.ch < m.ucd.ch
    \/ /\ m.uccTarget = NoChannel /\ u.ch = m.ucd.ch
       /\ u.adv = m.ucd.adv \/ u.adv
       /\ u.ccc # m.ucd.ccc

(* Whether the modem wants the channel of a UCD, or a newer description of  *)
(* the one it is on; and whether it waits for a better one of that channel. *)
Wanted(m, u) ==
    \/ m.uccTarget = u.ch
    \/ m.uccTarget = NoChannel /\ m.ucd = NoUcd
    \/ /\ m.uccTarget = NoChannel /\ u.ch < m.ucd.ch
       /\ m.state # "operational"
    \/ /\ m.uccTarget = NoChannel /\ u.ch = m.ucd.ch
       /\ u.adv = m.ucd.adv \/ u.adv
       /\ u.ccc # m.ucd.ccc
HoldsOut(u) == Is20 /\ ~u.adv /\ u.ch \in AdvancedChannels

OnUcd(m, u) ==
    IF (u.adv => Is20) /\ Wanted(m, u) /\ ~HoldsOut(u)
    THEN LET held == Disarm([m EXCEPT !.ucd = u, !.uccTarget = NoChannel], "T1")
         IN  IF m.state = "ucd-wait"
             THEN Arm([held EXCEPT !.state = "ranging-wait"], "T2")
             ELSE held
    ELSE m

-----------------------------------------------------------------------------
(* Transmitting needs a timebase, and a MAP that came in time.              *)
InTime(m, map, region) == m.synced /\ map.late < region

Schedule(m, kind, sid, frames) ==
    [m EXCEPT !.bursts = Append(@, [kind |-> kind, sid |-> sid, frames |-> frames])]

(* A broadcast region, taken or deferred as the random back-off says; T2    *)
(* stops at the first one, whatever comes of it.                            *)
OfferInitialMaintenance(m, map) ==
    IF map.initial /\ m.state = "ranging-wait"
    THEN LET deferred == Disarm(m, "T2")
             sent == Arm(Schedule([deferred EXCEPT !.state = "ranging-initial"],
                                  "RNG-REQ", NoSid, <<>>), "T3")
         IN  {deferred} \union (IF InTime(m, map, 1) THEN {sent} ELSE {})
    ELSE {m}

(* A unicast region restarts T4, and is answered from the first ranging     *)
(* exchange on, in service too.                                             *)
OfferStationMaintenance(m, map) ==
    IF map.station /\ m.sid # NoSid
    THEN LET heard == Arm(m, "T4")
             sent == Arm(Schedule(heard, "RNG-REQ", m.sid, <<>>), "T3")
         IN  IF (Ranging(m) \/ m.state \in InService) /\ InTime(m, map, 2)
             THEN [sent EXCEPT !.state = IF Ranging(m) THEN "ranging-station" ELSE @]
             ELSE heard
    ELSE m

(* A data grant carries as many frames of the queue as it holds, one if the *)
(* modem does not concatenate; when not even the first fits, the modem asks *)
(* again.  The frames leave the queue even if the burst came too late.      *)
UseDataGrant(m, map) ==
    LET granted == [m EXCEPT !.grantPending = FALSE, !.requestSlot = FALSE,
                             !.outstanding = FALSE]
        Sends(n) ==
            LET popped == [granted EXCEPT !.queue = SubSeq(@, n + 1, Len(@))]
            IN  MaybeRequest(
                    IF InTime(m, map, 3)
                    THEN Schedule(popped, "DATA", m.sid, SubSeq(m.queue, 1, n))
                    ELSE popped)
        most == IF Concatenation THEN Len(m.queue) ELSE 1
    IN  IF m.queue = <<>>
        THEN {granted}
        ELSE {MaybeRequest(granted)} \union {Sends(n) : n \in 1..most}

OfferDataGrant(m, map) ==
    IF m.sid = NoSid THEN {m}
    ELSE CASE map.grant = "none" -> {m}
           [] map.grant = "zero" -> {[m EXCEPT !.grantPending = TRUE]}
           [] map.grant = "sized" -> UseDataGrant(m, map)

OfferRequestRegion(m, map) ==
    IF map.request /\ m.outstanding /\ ~m.requestSlot
    THEN {m} \union
         (IF InTime(m, map, 4)
          THEN {Schedule([m EXCEPT !.requestSlot = TRUE], "REQ", m.sid, <<>>)}
          ELSE {})
    ELSE {m}

(* Mutant: a lost request is forgotten, and the queue with it.              *)
CheckAcknowledgedGivesUp(before, m, map) ==
    IF /\ before.requestSlot /\ map.acked /\ ~m.grantPending
       /\ ~(map.grant = "sized" /\ m.sid # NoSid)
    THEN [m EXCEPT !.requestSlot = FALSE, !.outstanding = FALSE]
    ELSE m

(* The request this modem had out when the MAP came (`before`) is lost when *)
(* its slot is acknowledged and the MAP neither granted it nor said wait.   *)
CheckAcknowledged(before, m, map) ==
    IF /\ before.requestSlot /\ map.acked /\ ~m.grantPending
       /\ ~(map.grant = "sized" /\ m.sid # NoSid)
    THEN MaybeRequest([m EXCEPT !.requestSlot = FALSE, !.outstanding = FALSE])
    ELSE m

(* The regions of a MAP in their order, and then its ack-time.              *)
OnMap(m, map) ==
    IF m.ucd # NoUcd /\ map.ch = m.ucd.ch /\ map.ccc = m.ucd.ccc
    THEN LET ranged  == {OfferStationMaintenance(a, map) :
                            a \in OfferInitialMaintenance(m, map)}
             granted == UNION {OfferDataGrant(a, map) : a \in ranged}
             asked   == UNION {OfferRequestRegion(a, map) : a \in granted}
         IN  {CheckAcknowledged(m, a, map) : a \in asked}
    ELSE {m}

(* What a frame's on_sent callback does when the burst leaves.              *)
RegistrationComplete(m) ==
    IF m.state = "operational" THEN m
    ELSE [m EXCEPT !.registered = TRUE, !.state = "operational"]

(* Mutant: the timers of the old upstream, and lost-sync, are cancelled.    *)
LeaveUpstreamStopsTimers(m) ==
    [m EXCEPT !.ucd = NoUcd, !.queue = <<>>, !.outstanding = FALSE,
              !.requestSlot = FALSE, !.grantPending = FALSE, !.retries = 0,
              !.state = "ranging-wait", !.timers = @ \ MacTimers]

LeaveUpstream(m) ==
    [m EXCEPT !.ucd = NoUcd, !.queue = <<>>, !.outstanding = FALSE,
              !.requestSlot = FALSE, !.grantPending = FALSE, !.retries = 0,
              !.state = "ranging-wait"]

OnSent(m, frame) ==
    CASE frame[1] = "REG-ACK" -> RegistrationComplete(m)
      [] frame[1] = "UCC-RSP" /\ frame[2] # NoChannel -> LeaveUpstream(m)
      [] OTHER -> m

(* What is left of a modem once each of these frames was sent, in order.    *)
AllSent(m, frames) ==
    LET after[n \in 0..Len(frames)] ==
            IF n = 0 THEN m ELSE OnSent(after[n - 1], frames[n])
    IN  after[Len(frames)]

(* The first burst leaves, unless the modem has no upstream any more.       *)
Transmit(m) ==
    LET sent == [m EXCEPT !.bursts = Tail(@)]
    IN  IF m.ucd = NoUcd THEN sent ELSE AllSent(sent, Head(m.bursts).frames)

-----------------------------------------------------------------------------
(* Provisioning: DHCP, time of day, the configuration file, registration.   *)
(* Answers to what was sent under an earlier xid are not read.              *)
Superseded(frames) ==
    [i \in DOMAIN frames |->
        IF frames[i][1] \in {"DISCOVER", "REQUEST"} THEN <<"STACK", NoChannel>>
        ELSE frames[i]]

Withdrawn(burst) == [burst EXCEPT !.frames = Superseded(@)]

(* Mutant: the new xid is drawn once the DISCOVER was built with the old one. *)
StartDhcpXidLate(m) ==
    LET asked == Enqueue([m EXCEPT !.state = "dhcp"], "DISCOVER")
    IN  [asked EXCEPT !.queue = Superseded(@),
                      !.bursts = [i \in DOMAIN @ |-> Withdrawn(@[i])]]

StartDhcp(m) ==
    Enqueue([m EXCEPT !.state = "dhcp", !.queue = Superseded(@),
                      !.bursts = [i \in DOMAIN @ |-> Withdrawn(@[i])]],
            "DISCOVER")

OnOffer(m) == Enqueue(m, "REQUEST")

StartTftp(m) ==
    IF BootFile
    THEN Arm(Enqueue([m EXCEPT !.state = "tftp-config", !.loaded = FALSE], "RRQ"),
             "tftp")
    ELSE m

StartTod(m) == Arm(Enqueue([m EXCEPT !.state = "time-of-day"], "TOD"), "tod")

OnDhcpAck(m) ==
    LET bound == [m EXCEPT !.address = TRUE]
    IN  IF TimeServer THEN StartTod(bound) ELSE StartTftp(bound)

(* Mutant: a late answer is not told from a current one.                    *)
OnTodAnyState(m) == StartTftp(m)

OnTod(m) == IF m.state = "time-of-day" THEN StartTftp(m) ELSE m

Register(m) ==
    LET asked == Arm(Enqueue([m EXCEPT !.state = "registering"], "REG-REQ"), "T6")
    IN  IF "T6" \in m.timers THEN Arm(asked, "lost-T6") ELSE asked

(* The next block is acknowledged, and any other with what the modem has    *)
(* got, which the server ignores.  The file is checked when it is complete. *)
OnTftpData(m, block, micOk) ==
    IF block = "other" \/ m.loaded THEN Enqueue(m, "STACK")
    ELSE IF block = "next" THEN Enqueue(m, "ACK")
    ELSE LET whole == Enqueue([m EXCEPT !.loaded = TRUE], "LAST-ACK")
         IN  IF micOk THEN Register(whole) ELSE Reinitialize(whole)

OnRegRsp(m, ok) ==
    IF ok THEN Enqueue(Disarm(m, "T6"), "REG-ACK")
    ELSE Disarm([m EXCEPT !.state = "rejected"], "T6")

(* Any RNG-RSP stops T3, and the first one names the SID.                   *)
HearRngRsp(m, sid) == Disarm([m EXCEPT !.sid = IF @ = NoSid THEN sid ELSE @], "T3")

(* Mutant: a registered modem is provisioned again.                         *)
RangingCompleteProvisions(m) == StartDhcp(Arm(m, "T4"))

(* A modem that was registered before it ranged goes straight into service. *)
RangingComplete(m) ==
    LET ranged == Arm(m, "T4")
    IN  IF m.registered THEN [ranged EXCEPT !.state = "operational"]
        ELSE StartDhcp(ranged)

KeepRanging(m) == [m EXCEPT !.state = IF Ranging(m) THEN "ranging-station" ELSE @]

OnRngRsp(m, status, sid) ==
    LET heard == HearRngRsp(m, sid)
        level == [heard EXCEPT !.retries = 0]
    IN  CASE status = "abort" -> Reinitialize(Disarm(m, "T3"))
          [] status = "success" -> IF Ranging(m) THEN RangingComplete(level) ELSE level
          [] status = "continue" -> KeepRanging(heard)

(* A UCC-REQ is acknowledged first; the move happens when the UCC-RSP left. *)
OnUccReq(m, ch) ==
    IF m.ucd.ch = ch THEN Enqueue(m, "UCC-RSP")
    ELSE [Queued(m, <<"UCC-RSP", ch>>) EXCEPT !.uccTarget = ch]

-----------------------------------------------------------------------------
(* Timers.                                                                  *)
T3Expired(m) ==
    LET missed == Disarm(m, "T3")
    IN  CASE m.state \in InService -> missed
          [] m.state \notin InService /\ m.retries + 1 >= MaxRetries -> Reinitialize(m)
          [] OTHER -> [missed EXCEPT !.retries = @ + 1, !.state = "ranging-wait"]

TodTimeout(m) ==
    LET fired == Disarm(m, "tod")
    IN  IF m.state = "time-of-day" THEN StartTftp(fired) ELSE fired

TftpTimeout(m) ==
    LET fired == Disarm(m, "tftp")
    IN  IF m.state = "tftp-config" THEN Reinitialize(fired) ELSE fired

Expired(m, timer) ==
    CASE timer = "T3" -> T3Expired(m)
      [] timer = "tod" -> TodTimeout(m)
      [] timer = "tftp" -> TftpTimeout(m)
      [] timer = "ds-scan" -> LockDownstream(m)
      [] timer = "lost-T6" -> Reinitialize(Disarm(m, "lost-T6"))
      [] timer \in MacTimers \ {"T3"} -> Reinitialize(m)

(* A frame from the LAN side is bridged only by a modem in service.         *)
FromLan(m) == IF m.state = "operational" THEN Enqueue(m, "CPE") ELSE m

(* An answer of the modem's own IP stack, to ARP or to a ping.              *)
AnswerHost(m) == IF m.address THEN Enqueue(m, "STACK") ELSE m
=============================================================================
