------------------------------- MODULE Bringup -------------------------------
(***************************************************************************)
(* The modems of cm/cm.py coming up against the CMTS of module Cmts: what  *)
(* a modem sends at each step from ranging to REG-ACK, the bursts and the  *)
(* replies in flight, and the faults that interrupt it.                    *)
(*                                                                         *)
(* CableModem has one modem in every detail of its upstream; here a modem  *)
(* is the step it is at and the frames it has queued, and its bandwidth    *)
(* requests are left to UpstreamScheduler: a queued frame leaves in its    *)
(* turn, some time.  A modem's ranging exchanges do not wait in the queue, *)
(* and it has one in flight at a time: the CMTS polls it once a second or  *)
(* slower and answers within milliseconds.                                 *)
(*                                                                         *)
(* A timer here runs out only when what it waits for was lost, which is    *)
(* how long the code's timers are; Reset stands for the re-initialisations *)
(* that may come at any time (an operator's, lost SYNC, a damaged file).   *)
(* A modem that re-initialises is deaf while it scans, and the scan of the *)
(* shipped topologies, 20 ms, outlasts the frames in flight.               *)
(***************************************************************************)
EXTENDS Cmts, Sequences

CONSTANTS
    TimeServer,         \* the DHCP server names a time server
    Verdicts, Accesses, \* what the configuration files may be worth
    MaxLosses,          \* bound: losses and failed exchanges
    MaxOrders           \* bound: resets and UCC-REQs

ASSUME BringupAssumption ==
    /\ TimeServer \in BOOLEAN
    /\ Verdicts \subseteq {"ok", "mic", "class"} /\ Accesses \subseteq BOOLEAN
    /\ {MaxLosses, MaxOrders} \subseteq Nat
    /\ Channels \subseteq Nat

VARIABLES
    at,                 \* the modem's CmState
    us,                 \* us_channel, NoChannel for None
    target,             \* ucc_target, NoChannel for None
    own,                \* the SID the modem believes it has
    registered,         \* registration completed since the last reset
    t3, t4,             \* the timers that run while ranging and afterwards
    file,               \* the configuration file the server has for the modem
    xid,                \* tells the DHCP exchange from the one before it
    queue,              \* us_queue: frames, with a UCC-RSP's channel or an xid
    air,                \* bursts on their way to the CMTS, first sent first
    server,             \* what the provisioning server is about to answer
    down,               \* messages on their way to the modem
    losses, orders      \* losses and orders so far

modemVars == <<at, us, target, own, registered, t3, t4, file, xid, queue>>
vars == <<cmtsVars, modemVars, air, server, down, losses, orders>>

-----------------------------------------------------------------------------
States == {"ds-scan", "ucd-wait", "ranging-wait", "ranging-initial",
           "ranging-station", "dhcp", "time-of-day", "tftp-config",
           "registering", "operational", "rejected"}

(* A file is what the CMTS makes of it: admitted, refused for its MIC or    *)
(* for its class of service; and whether it gives network access.  It is    *)
(* edited, if at all, when the modem re-initialises.                        *)
Files == [verdict : Verdicts, gives : Accesses]

RangingFrames == {"RNG-REQ0", "RNG-REQ"}
Answers == {"none", "OFFER", "ACK", "TOD", "FILE"}

Frame(kind, n) == [kind |-> kind, n |-> n]
FrameKinds == {"DISCOVER", "REQUEST", "TOD", "RRQ", "REG-REQ", "REG-ACK", "UCC-RSP"}
Message(kind, n) == [kind |-> kind, n |-> n]
Idle(m) == server[m].kind = "none"
RangingResponses == {"CONTINUE", "SUCCESS"}

Carries(seq, kinds) == \E i \in DOMAIN seq : seq[i].kind \in kinds

(* A frame or message of these kinds is queued or on its way.               *)
Pending(m, kinds) ==
    \/ Carries(queue[m], kinds) \/ Carries(air[m], kinds) \/ Carries(down[m], kinds)
    \/ server[m].kind \in kinds

RangingExchange(m) ==
    Carries(air[m], RangingFrames) \/ Carries(down[m], RangingResponses)

Init ==
    /\ CmtsInit
    /\ at = [m \in Macs |-> "ds-scan"]
    /\ us = [m \in Macs |-> NoChannel]
    /\ target = [m \in Macs |-> NoChannel]
    /\ own = [m \in Macs |-> NoSid]
    /\ registered = [m \in Macs |-> FALSE]
    /\ t3 = [m \in Macs |-> FALSE]
    /\ t4 = [m \in Macs |-> FALSE]
    /\ file \in [Macs -> Files]
    /\ xid = [m \in Macs |-> 0]
    /\ queue = [m \in Macs |-> <<>>]
    /\ air = [m \in Macs |-> <<>>]
    /\ server = [m \in Macs |-> Message("none", 0)]
    /\ down = [m \in Macs |-> <<>>]
    /\ losses = 0 /\ orders = 0

-----------------------------------------------------------------------------
Loss == losses < MaxLosses /\ losses' = losses + 1 /\ UNCHANGED orders
Order == orders < MaxOrders /\ orders' = orders + 1 /\ UNCHANGED losses
NoFault == UNCHANGED <<losses, orders>>

Enqueued(m, kind, n) == queue' = [queue EXCEPT ![m] = Append(@, Frame(kind, n))]
Goes(m, step) == at' = [at EXCEPT ![m] = step]

(* reinitialize: everything above the PHY is discarded.                     *)
Reinitialize(m) ==
    /\ Goes(m, "ds-scan")
    /\ us' = [us EXCEPT ![m] = NoChannel]
    /\ target' = [target EXCEPT ![m] = NoChannel]
    /\ own' = [own EXCEPT ![m] = NoSid]
    /\ registered' = [registered EXCEPT ![m] = FALSE]
    /\ t3' = [t3 EXCEPT ![m] = FALSE]
    /\ t4' = [t4 EXCEPT ![m] = FALSE]
    /\ queue' = [queue EXCEPT ![m] = <<>>]
    /\ down' = [down EXCEPT ![m] = <<>>]
    /\ \E f \in Files : file' = [file EXCEPT ![m] = f]
    /\ UNCHANGED <<cmtsVars, xid, air, server>>

Reset(m) == at[m] # "ds-scan" /\ Order /\ Reinitialize(m)

(* The scan ends on the carrier; SYNC follows within 20 ms.                 *)
Lock(m) ==
    /\ at[m] = "ds-scan" /\ air[m] = <<>> /\ Idle(m)
    /\ Goes(m, "ucd-wait")
    /\ UNCHANGED <<cmtsVars, us, target, own, registered, t3, t4, file, xid, queue,
                   air, server, down, losses, orders>>

(* A UCD the modem takes: the one a UCC-REQ named; else the first one, and  *)
(* after that any of a lower-numbered channel until it is operational.  The *)
(* CMTS sends them in the order of the channels, so another one than the    *)
(* lowest is first only when that one was lost.                             *)
HearUcd(m, c) ==
    /\ at[m] # "ds-scan"
    /\ IF target[m] # NoChannel THEN c = target[m]
       ELSE us[m] = NoChannel \/ (at[m] # "operational" /\ c < us[m])
    /\ IF target[m] = NoChannel /\ us[m] = NoChannel /\ \E d \in Channels : d < c
       THEN Loss ELSE NoFault
    /\ us' = [us EXCEPT ![m] = c]
    /\ target' = [target EXCEPT ![m] = NoChannel]
    /\ Goes(m, IF at[m] = "ucd-wait" THEN "ranging-wait" ELSE at[m])
    /\ UNCHANGED <<cmtsVars, own, registered, t3, t4, file, xid, queue, air, server, down>>

(* The region comes a fifth of a second apart: what was on its way when the *)
(* modem began to wait for one has arrived.                                 *)
InitialMaintenance(m) ==
    /\ at[m] = "ranging-wait" /\ us[m] # NoChannel
    /\ air[m] = <<>> /\ Idle(m) /\ down[m] = <<>>
    /\ Goes(m, "ranging-initial")
    /\ t3' = [t3 EXCEPT ![m] = TRUE]
    /\ air' = [air EXCEPT ![m] = Append(@, Frame("RNG-REQ0", us[m]))]
    /\ UNCHANGED <<cmtsVars, us, target, own, registered, t4, file, xid, queue, server,
                   down, losses, orders>>

(* The MAPs of the modem's channel hold a Station Maintenance region for    *)
(* its SID.                                                                 *)
StationMaintenance(m) ==
    /\ us[m] # NoChannel /\ own[m] \in tracked[us[m]] /\ ~RangingExchange(m)
    /\ t4' = [t4 EXCEPT ![m] = TRUE]
    /\ IF at[m] \in {"ds-scan", "ucd-wait", "ranging-wait", "rejected"}
       THEN UNCHANGED <<at, t3, air>>
       ELSE /\ air' = [air EXCEPT ![m] = Append(@, Frame("RNG-REQ", us[m]))]
            /\ Goes(m, IF at[m] = "ranging-initial" THEN "ranging-station" ELSE at[m])
            /\ t3' = [t3 EXCEPT ![m] = TRUE]
    /\ UNCHANGED <<cmtsVars, us, target, own, registered, file, xid, queue, server,
                   down, losses, orders>>

(* The head of the queue leaves in a data grant.  A REG-ACK that has left   *)
(* puts the modem in service; a UCC-RSP that names another channel makes it *)
(* leave the one it is on.                                                  *)
Transmit(m) ==
    /\ queue[m] # <<>> /\ us[m] # NoChannel /\ own[m] # NoSid
    /\ ~Carries(air[m], FrameKinds)
    /\ LET head   == Head(queue[m])
           leaves == head.kind = "UCC-RSP" /\ head.n # NoChannel
           acks   == head.kind = "REG-ACK"
       IN  /\ air' = [air EXCEPT ![m] = Append(@, head)]
           /\ queue' = [queue EXCEPT ![m] = IF leaves THEN <<>> ELSE Tail(@)]
           /\ us' = [us EXCEPT ![m] = IF leaves THEN NoChannel ELSE @]
           /\ registered' = [registered EXCEPT ![m] = @ \/ acks]
           /\ Goes(m, IF leaves THEN "ranging-wait"
                      ELSE IF acks THEN "operational" ELSE at[m])
    /\ UNCHANGED <<cmtsVars, target, own, t3, t4, file, xid, server, down, losses, orders>>

\* Mutant of T3: it is not fatal, whatever state the modem is in.
T3Harmless(m) == FALSE /\ UNCHANGED vars

(* The timers: T3 for the RNG-RSP, T4 once the modem was polled or ranged,  *)
(* T6 for the REG-RSP, and those of the Time of Day and TFTP exchanges.  A  *)
(* T3 does nothing to a modem that is past ranging, unless it was rejected  *)
(* since; any other backs off to another Initial Maintenance region.  Its   *)
(* sixteenth in a row is past MaxLosses.                                    *)
BacksOff == {"ranging-wait", "ranging-initial", "ranging-station", "rejected"}

T3(m) ==
    /\ t3[m] /\ ~RangingExchange(m)
    /\ Goes(m, IF at[m] \in BacksOff THEN "ranging-wait" ELSE at[m])
    /\ t3' = [t3 EXCEPT ![m] = FALSE]
    /\ UNCHANGED <<cmtsVars, us, target, own, registered, t4, file, xid, queue, air,
                   server, down, losses, orders>>

T4(m) ==
    /\ t4[m] /\ ~t3[m] /\ at[m] # "ranging-wait" /\ ~RangingExchange(m)
    /\ us[m] # NoChannel /\ own[m] \notin tracked[us[m]]
    /\ Reinitialize(m) /\ NoFault

T6(m) ==
    /\ at[m] = "registering"
    /\ ~Pending(m, {"REG-REQ", "REG-OK", "REG-NO", "REG-ACK"})
    /\ Reinitialize(m) /\ NoFault

StartTftp(m) == Goes(m, "tftp-config") /\ Enqueued(m, "RRQ", 0)

TodTimeout(m) ==
    /\ at[m] = "time-of-day" /\ ~Pending(m, {"TOD"})
    /\ StartTftp(m)
    /\ UNCHANGED <<cmtsVars, us, target, own, registered, t3, t4, file, xid, air,
                   server, down, losses, orders>>

TftpTimeout(m) ==
    /\ at[m] = "tftp-config" /\ ~Pending(m, {"RRQ", "FILE"})
    /\ Reinitialize(m) /\ NoFault

-----------------------------------------------------------------------------
(* The modem hears the first message on its way.                            *)
HearRngRsp(m, msg) ==
    LET ranging_ == at[m] \in {"ranging-initial", "ranging-station"}
        done     == ranging_ /\ msg.kind = "SUCCESS"
    IN  /\ own' = [own EXCEPT ![m] = IF @ = NoSid THEN msg.n ELSE @]
        /\ t3' = [t3 EXCEPT ![m] = FALSE]
        /\ t4' = [t4 EXCEPT ![m] = @ \/ done]
        /\ IF done /\ ~registered[m]
           THEN /\ xid' = [xid EXCEPT ![m] = 1 - @]
                /\ Goes(m, "dhcp") /\ Enqueued(m, "DISCOVER", 1 - xid[m])
           ELSE /\ Goes(m, IF done THEN "operational"
                           ELSE IF ranging_ THEN "ranging-station" ELSE at[m])
                /\ UNCHANGED <<xid, queue>>
        /\ UNCHANGED <<us, target, registered, file>>

HearUccReq(m, c) ==
    /\ queue' = [queue EXCEPT ![m] =
                    Append(@, Frame("UCC-RSP", IF us[m] = c THEN NoChannel ELSE c))]
    /\ target' = [target EXCEPT ![m] = IF us[m] = c THEN @ ELSE c]
    /\ UNCHANGED <<at, us, own, registered, t3, t4, file, xid>>

(* Replies of the provisioning server and REG-RSPs are taken in any state;  *)
(* only the Time of Day starts nothing unless the modem waits for it.       *)
HearReply(m, kind) ==
    /\ CASE kind = "OFFER"  -> Enqueued(m, "REQUEST", xid[m]) /\ UNCHANGED at
         [] kind = "ACK"    -> IF TimeServer
                               THEN Goes(m, "time-of-day") /\ Enqueued(m, "TOD", 0)
                               ELSE StartTftp(m)
         [] kind = "TOD"    -> IF at[m] = "time-of-day" THEN StartTftp(m)
                               ELSE UNCHANGED <<at, queue>>
         [] kind = "FILE"   -> Goes(m, "registering") /\ Enqueued(m, "REG-REQ", 0)
         [] kind = "REG-OK" -> Enqueued(m, "REG-ACK", 0) /\ UNCHANGED at
         [] kind = "REG-NO" -> Goes(m, "rejected") /\ UNCHANGED queue
    /\ UNCHANGED <<us, target, own, registered, t3, t4, file, xid>>

Hear(m) ==
    /\ down[m] # <<>>
    /\ LET msg == Head(down[m])
       IN  CASE msg.kind \in RangingResponses -> HearRngRsp(m, msg)
             [] msg.kind = "UCC-REQ"          -> HearUccReq(m, msg.n)
             [] OTHER ->
                  IF msg.kind \in {"OFFER", "ACK"} /\ msg.n # xid[m]
                  THEN UNCHANGED modemVars
                  ELSE HearReply(m, msg.kind)
    /\ down' = [down EXCEPT ![m] = Tail(@)]
    /\ UNCHANGED <<cmtsVars, air, server, losses, orders>>

-----------------------------------------------------------------------------
(* The CMTS sends the modem a message, which a scanning modem does not hear.*)
Says(m, kind, n) ==
    down' = [down EXCEPT ![m] = IF at[m] = "ds-scan" THEN @
                                ELSE Append(@, Message(kind, n))]

(* The CMTS handles the first burst of the modem on its way.                *)
HandleRngReq(m, burst) ==
    LET initial == burst.kind = "RNG-REQ0" IN
    \E usable \in BOOLEAN :
        /\ IF usable THEN NoFault ELSE ~initial /\ Loss
        /\ RngReq(m, burst.n, initial, usable)
        /\ Says(m, IF Converged(initial, usable) THEN "SUCCESS" ELSE "CONTINUE", sid'[m])
        /\ UNCHANGED server

HandleRegistration(m, kind) ==
    /\ \/ /\ kind = "REG-REQ"
          /\ RegReq(m, file[m].verdict, file[m].gives)
          /\ Says(m, IF Refuses(file[m].verdict) THEN "REG-NO" ELSE "REG-OK", 0)
       \/ kind = "REG-ACK" /\ RegAck(m) /\ UNCHANGED down
       \/ kind = "UCC-RSP" /\ UNCHANGED <<cmtsVars, down>>
    /\ UNCHANGED <<server, losses, orders>>

(* The provisioning server gets the request at once, and answers it or not. *)
AnswerTo == [DISCOVER |-> "OFFER", REQUEST |-> "ACK", TOD |-> "TOD", RRQ |-> "FILE"]

Serves(m, burst) ==
    \/ server' = [server EXCEPT ![m] = Message(AnswerTo[burst.kind], burst.n)] /\ NoFault
    \/ Loss /\ UNCHANGED server

HandleTraffic(m, burst) ==
    /\ Idle(m)
    /\ \/ burst.kind \in {"DISCOVER", "REQUEST"} /\ RelayFromCable(m)
       \/ burst.kind = "TOD" /\ TrackTod(m)
       \/ burst.kind = "RRQ" /\ TrackTftp(m)
    /\ Serves(m, burst)
    /\ UNCHANGED down

Receive(m) ==
    /\ air[m] # <<>>
    /\ LET burst == Head(air[m])
       IN  \/ burst.kind \in RangingFrames /\ HandleRngReq(m, burst)
           \/ HandleRegistration(m, burst.kind)
           \/ HandleTraffic(m, burst)
    /\ air' = [air EXCEPT ![m] = Tail(@)]
    /\ UNCHANGED modemVars

(* A burst is lost to a collision or to noise, a message on the downstream. *)
Lose(m) ==
    /\ air[m] # <<>> /\ Loss
    /\ air' = [air EXCEPT ![m] = Tail(@)]
    /\ UNCHANGED <<cmtsVars, modemVars, server, down>>

LoseDownstream(m) ==
    /\ down[m] # <<>> /\ Loss
    /\ down' = [down EXCEPT ![m] = Tail(@)]
    /\ UNCHANGED <<cmtsVars, modemVars, server, air>>

(* The server's answer crosses the network-side link and goes down the      *)
(* cable; the relay takes a DHCPACK for the modem's address.                *)
RelayAnswer(m) ==
    /\ ~Idle(m)
    /\ IF server[m].kind = "ACK" THEN RelayAck(m) ELSE UNCHANGED cmtsVars
    /\ Says(m, server[m].kind, server[m].n)
    /\ server' = [server EXCEPT ![m] = Message("none", 0)]
    /\ UNCHANGED <<modemVars, air, losses, orders>>

(* An operator moves a modem the CMTS has a record of.                      *)
TestUcc(m, c) ==
    /\ Known(m) /\ Order
    /\ Says(m, "UCC-REQ", c)
    /\ UNCHANGED <<cmtsVars, modemVars, air, server>>

-----------------------------------------------------------------------------
(* What the event queue and the MAPs bring about for a modem, sooner or     *)
(* later.                                                                   *)
Works(m) ==
    \/ Lock(m) \/ (\E c \in Channels : HearUcd(m, c))
    \/ InitialMaintenance(m) \/ StationMaintenance(m) \/ Transmit(m)
    \/ T3(m) \/ T4(m) \/ T6(m) \/ TodTimeout(m) \/ TftpTimeout(m)
    \/ Hear(m) \/ Receive(m) \/ RelayAnswer(m)

Next == \E m \in Macs :
    \/ Works(m)
    \/ Reset(m) \/ Lose(m) \/ LoseDownstream(m) \/ \E c \in Channels : TestUcc(m, c)

Fairness == \A m \in Macs :
    /\ WF_vars(Lock(m)) /\ WF_vars(\E c \in Channels : HearUcd(m, c))
    /\ WF_vars(InitialMaintenance(m)) /\ WF_vars(StationMaintenance(m))
    /\ WF_vars(Transmit(m)) /\ WF_vars(Hear(m)) /\ WF_vars(Receive(m))
    /\ WF_vars(RelayAnswer(m))
    /\ WF_vars(T3(m) \/ T4(m) \/ T6(m) \/ TodTimeout(m) \/ TftpTimeout(m))

Spec == Init /\ [][Next]_vars
FairSpec == Spec /\ Fairness

-----------------------------------------------------------------------------
(* The modems, the link and the database keep their types.                  *)
TypeOK ==
    /\ CmtsTypeOK
    /\ at \in [Macs -> States]
    /\ {us[m] : m \in Macs} \union {target[m] : m \in Macs}
           \subseteq Channels \union {NoChannel}
    /\ own \in [Macs -> Sids \union {NoSid}]
    /\ registered \in [Macs -> BOOLEAN]
    /\ t3 \in [Macs -> BOOLEAN] /\ t4 \in [Macs -> BOOLEAN]
    /\ file \in [Macs -> Files]
    /\ \A m \in Macs : server[m].kind \in Answers
    /\ \A m \in Macs : Len(air[m]) <= 2
    /\ losses \in 0..MaxLosses /\ orders \in 0..MaxOrders

(* A modem that re-initialises is given back the SID of its record: it      *)
(* never answers polls for, or sends data under, a SID the CMTS has no      *)
(* record for or has given to another modem.                                *)
SidKept == \A m \in Macs : own[m] # NoSid => own[m] = sid[m]

(* The modems' SIDs are those of the CMTS's records.                        *)
SidsAgree == TypeOK /\ SidKept

(* No step of a modem that comes up again, was moved or lost a frame leaves *)
(* its CPEs' traffic forwarded against the configuration file it registered *)
(* with: not when the file gives no access, and not when the CMTS refused   *)
(* it.                                                                      *)
ForwardsAsConfigured ==
    /\ \A m \in Macs : at[m] = "operational" /\ Forwards(m) => file[m].gives
    /\ \A m \in Macs : at[m] = "rejected" => ~Forwards(m)

(* Once a modem's REG-ACK has arrived, the CMTS and the modem agree that it *)
(* is in service; without a loss they never disagree again.                 *)
InServiceTogether ==
    \A m \in Macs : losses = 0 /\ at[m] = "operational" /\ ~Pending(m, {"REG-ACK"})
                        => state[m] \in Online

(* A modem whose DHCP exchange was lost.  No timer of its own is running,   *)
(* and the polls that go on keep T4 from expiring: it stays there.          *)
DhcpSilent(m) ==
    at[m] = "dhcp" /\ ~Pending(m, {"DISCOVER", "OFFER", "REQUEST", "ACK"})

(* A modem that a lower-numbered UCD took off the channel it was ranging on *)
(* before its first poll there: neither T3 nor T4 is running.               *)
Stranded(m) ==
    at[m] = "ranging-station" /\ ~t3[m] /\ ~t4[m] /\ own[m] \notin tracked[us[m]]

(* Whatever is lost, reset or moved on the way, a modem ends up in service  *)
(* or rejected, unless its DHCP exchange was lost or a UCD stranded it.     *)
BringupEnds ==
    \A m \in Macs :
        <>[](at[m] \in {"operational", "rejected"} \/ DhcpSilent(m) \/ Stranded(m))
=============================================================================
