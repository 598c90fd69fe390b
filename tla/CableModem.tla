----------------------------- MODULE CableModem -----------------------------
(***************************************************************************)
(* One cable modem from power-on to forwarding, against any CMTS: the      *)
(* handlers of ModemHandlers run by a network that may lose any frame, but *)
(* invents none.  What the CMTS owes the modem is what it heard from it.   *)
(*                                                                         *)
(* The simulation is one thread, so a handler is one step.  Time is left   *)
(* out: a running timer may expire, except that one that waits for an      *)
(* answer outlasts an answer that is on its way.  The scan takes at least  *)
(* two dwells of 10 ms, longer than any transmission is scheduled ahead    *)
(* and any answer is under way, so both are gone when the modem locks.     *)
(***************************************************************************)
EXTENDS ModemHandlers, FiniteSets

CONSTANTS
    UccTargets,         \* channels the operator may name in a UCC-REQ
    UccOnlyOnline,      \* the operator moves only modems that are online
    LateMaps,           \* a MAP may arrive after slots it describes
    Lossy,              \* frames and bursts may be lost
    SlowAnswers,        \* an answer may take longer than a MAP interval
    MaxQueue,           \* bound: frames queued for the LAN and other hosts
    MaxBursts           \* bound: transmissions scheduled when a MAP arrives

ASSUME NetworkAssumption ==
    /\ UccTargets \subseteq Channels
    /\ {UccOnlyOnline, LateMaps, Lossy, SlowAnswers} \subseteq BOOLEAN
    /\ {MaxQueue, MaxBursts} \subseteq Nat

VARIABLES
    modem,              \* the modem
    owed,               \* the answers on their way to it
    pollsOn,            \* the channel the CMTS polls it on
    grantsOn            \* the channel the CMTS holds a request of it on

vars == <<modem, owed, pollsOn, grantsOn>>

Answers == {"CONTINUE", "RNG-RSP", "OFFER", "DHCPACK", "TOD", "DATA", "REG-RSP"}

Answered == {"DISCOVER", "REQUEST", "TOD", "RRQ", "ACK", "REG-REQ"}
AnswerTo(kind) ==
    CASE kind = "DISCOVER" -> "OFFER"
      [] kind = "REQUEST" -> "DHCPACK"
      [] kind = "TOD" -> "TOD"
      [] kind \in {"RRQ", "ACK"} -> "DATA"
      [] kind = "REG-REQ" -> "REG-RSP"

-----------------------------------------------------------------------------
Init ==
    /\ modem = PoweredOff
    /\ owed = {}
    /\ pollsOn = NoChannel
    /\ grantsOn = NoChannel

Becomes(m) == modem' = m

PowerUp ==
    /\ modem.state = "offline"
    /\ Becomes(PowerOn(modem))
    /\ UNCHANGED <<owed, pollsOn, grantsOn>>

Lock ==
    /\ "ds-scan" \in modem.timers
    /\ modem.bursts = <<>>
    /\ Becomes(Expired(modem, "ds-scan"))
    /\ owed' = {}
    /\ UNCHANGED <<pollsOn, grantsOn>>

ReceiveSync ==
    /\ Listening(modem)
    /\ Becomes(OnSync(modem))
    /\ UNCHANGED <<owed, pollsOn, grantsOn>>

ReceiveUcd(u) ==
    /\ Listening(modem)
    /\ u.adv => u.ch \in AdvancedChannels
    /\ Becomes(OnUcd(modem, u))
    /\ UNCHANGED <<owed, pollsOn, grantsOn>>

(* A MAP polls a modem on the channel the CMTS last heard it range on, and  *)
(* grants what it asked for there; it acknowledges slots that have passed.  *)
ReceiveMap(map) ==
    /\ Listening(modem)
    /\ map.ch = modem.ucd.ch
    /\ Len(modem.bursts) <= MaxBursts
    /\ map.station => pollsOn = map.ch
    /\ map.grant # "none" => grantsOn = map.ch
    /\ map.acked => /\ modem.requestSlot
                    /\ \A i \in DOMAIN modem.bursts : modem.bursts[i].kind # "REQ"
    /\ map.late = 0 \/ LateMaps
    /\ owed = {} \/ SlowAnswers
    /\ \E m \in OnMap(modem, map) : Becomes(m)
    /\ grantsOn' \in IF map.grant = "sized" THEN {grantsOn, NoChannel} ELSE {grantsOn}
    /\ UNCHANGED <<owed, pollsOn>>

(* A grant the modem never hears of: the MAP was lost, or it is scanning.   *)
MissGrant ==
    /\ grantsOn # NoChannel
    /\ Lossy \/ modem.ucd.ch # grantsOn
    /\ grantsOn' = NoChannel
    /\ UNCHANGED <<modem, owed, pollsOn>>

(* Mutant: a modem is polled on the channel it was first heard on.          *)
HeardKeepsPolls(burst, ch) ==
    CASE burst.kind = "RNG-REQ" ->
            /\ owed' = owed \union {IF burst.sid = NoSid THEN "CONTINUE" ELSE "RNG-RSP"}
            /\ pollsOn' = IF pollsOn = NoChannel THEN ch ELSE pollsOn
            /\ UNCHANGED grantsOn
      [] burst.kind = "REQ" ->
            /\ grantsOn' = ch
            /\ UNCHANGED <<owed, pollsOn>>
      [] burst.kind = "DATA" ->
            /\ owed' = owed \union {AnswerTo(burst.frames[i][1]) :
                   i \in {j \in DOMAIN burst.frames : burst.frames[j][1] \in Answered}}
            /\ UNCHANGED <<pollsOn, grantsOn>>

(* The CMTS hears a burst: it answers a RNG-REQ and moves the modem to that *)
(* channel, holds a request, and passes frames on to the servers.           *)
Heard(burst, ch) ==
    CASE burst.kind = "RNG-REQ" ->
            /\ owed' = owed \union {IF burst.sid = NoSid THEN "CONTINUE" ELSE "RNG-RSP"}
            /\ pollsOn' = ch
            /\ grantsOn' = IF pollsOn = ch THEN grantsOn ELSE NoChannel
      [] burst.kind = "REQ" ->
            /\ grantsOn' = ch
            /\ UNCHANGED <<owed, pollsOn>>
      [] burst.kind = "DATA" ->
            /\ owed' = owed \union {AnswerTo(burst.frames[i][1]) :
                   i \in {j \in DOMAIN burst.frames : burst.frames[j][1] \in Answered}}
            /\ UNCHANGED <<pollsOn, grantsOn>>

SendBurst(heard) ==
    /\ modem.bursts # <<>>
    /\ heard \/ Lossy
    /\ Becomes(Transmit(modem))
    /\ IF heard /\ modem.ucd # NoUcd
       THEN Heard(Head(modem.bursts), modem.ucd.ch)
       ELSE UNCHANGED <<owed, pollsOn, grantsOn>>

(* An answer arrives; those to an earlier xid never count again when the    *)
(* modem starts DHCP anew.  The CMTS never ends ranging on a RNG-REQ with SID 0. *)
ReceiveRngRsp(answer, status, sid) ==
    /\ Listening(modem)
    /\ answer \in owed \intersect {"CONTINUE", "RNG-RSP"}
    /\ status = "continue" \/ answer = "RNG-RSP"
    /\ Becomes(OnRngRsp(modem, status, sid))
    /\ owed' = owed \ ({answer} \union
           IF modem'.state = "dhcp" /\ modem.state # "dhcp" THEN {"OFFER", "DHCPACK"}
           ELSE {})
    /\ UNCHANGED <<pollsOn, grantsOn>>

Receive(answer, m) ==
    /\ Listening(modem)
    /\ answer \in owed
    /\ Becomes(m)
    /\ owed' = owed \ {answer}
    /\ UNCHANGED <<pollsOn, grantsOn>>

ReceiveOffer == Receive("OFFER", OnOffer(modem))
ReceiveDhcpAck == Receive("DHCPACK", OnDhcpAck(modem))
ReceiveTod == Receive("TOD", OnTod(modem))
ReceiveTftpData(block, micOk) == Receive("DATA", OnTftpData(modem, block, micOk))
ReceiveRegRsp(ok) == Receive("REG-RSP", OnRegRsp(modem, ok))

LoseAnswer(answer) ==
    /\ Lossy
    /\ answer \in owed
    /\ owed' = owed \ {answer}
    /\ UNCHANGED <<modem, pollsOn, grantsOn>>

(* A frame of this kind has not left the modem yet.                         *)
Waiting(kind) ==
    \/ \E i \in DOMAIN modem.queue : modem.queue[i][1] = kind
    \/ \E i \in DOMAIN modem.bursts : \E j \in DOMAIN modem.bursts[i].frames :
           modem.bursts[i].frames[j][1] = kind

(* The operator (bound: who waits for the modem to answer), the LAN side    *)
(* and hosts that address the modem (bound: until its queue is full).       *)
ReceiveUccReq(ch) ==
    /\ Listening(modem)
    /\ pollsOn # NoChannel
    /\ UccOnlyOnline => modem.state = "operational"
    /\ ~Waiting("UCC-RSP")
    /\ Becomes(OnUccReq(modem, ch))
    /\ UNCHANGED <<owed, pollsOn, grantsOn>>

BridgeFromLan ==
    /\ modem.state = "operational"
    /\ Len(modem.queue) < MaxQueue
    /\ Becomes(FromLan(modem))
    /\ UNCHANGED <<owed, pollsOn, grantsOn>>

AnswerToHost ==
    /\ modem.address
    /\ Listening(modem)
    /\ Len(modem.queue) < MaxQueue
    /\ Becomes(AnswerHost(modem))
    /\ UNCHANGED <<owed, pollsOn, grantsOn>>

ClearCableModem ==
    /\ modem.state # "offline"
    /\ Becomes(Reinitialize(modem))
    /\ UNCHANGED <<owed, pollsOn, grantsOn>>

(* What a timer waits for is on its way, or has not been sent yet.          *)
Outlasts(timer) ==
    \/ /\ timer = "T3"
       /\ \/ owed \intersect {"CONTINUE", "RNG-RSP"} # {}
          \/ \E i \in DOMAIN modem.bursts : modem.bursts[i].kind = "RNG-REQ"
    \/ timer = "T6" /\ "REG-RSP" \in owed

(* The time-of-day and TFTP timers are never cancelled, nor a lost T6, so   *)
(* one of an earlier attempt may still run when another has fired.          *)
Expire(timer, another) ==
    /\ timer \in modem.timers \ {"ds-scan"}
    /\ ~Outlasts(timer)
    /\ another => timer \in {"tod", "tftp", "lost-T6"}
    /\ LET m == Expired(modem, timer)
       IN  Becomes(IF another THEN Arm(m, timer) ELSE m)
    /\ UNCHANGED <<owed, pollsOn, grantsOn>>

Next ==
    \/ PowerUp
    \/ Lock
    \/ ReceiveSync
    \/ \E u \in Ucds : ReceiveUcd(u)
    \/ \E map \in Maps : ReceiveMap(map)
    \/ MissGrant
    \/ \E heard \in BOOLEAN : SendBurst(heard)
    \/ \E answer \in owed, status \in {"continue", "success"}, sid \in Sids :
           ReceiveRngRsp(answer, status, sid)
    \/ ReceiveOffer
    \/ ReceiveDhcpAck
    \/ ReceiveTod
    \/ \E block \in {"next", "last", "other"}, micOk \in BOOLEAN :
           ReceiveTftpData(block, micOk)
    \/ \E ok \in BOOLEAN : ReceiveRegRsp(ok)
    \/ \E answer \in owed : LoseAnswer(answer)
    \/ \E ch \in UccTargets : ReceiveUccReq(ch)
    \/ BridgeFromLan
    \/ AnswerToHost
    \/ ClearCableModem
    \/ \E timer \in modem.timers, another \in BOOLEAN : Expire(timer, another)

Spec == Init /\ [][Next]_vars

-----------------------------------------------------------------------------
(* The modem's attributes keep their types through every handler.           *)
TypeOK ==
    /\ modem \in Modems
    /\ owed \in SUBSET Answers
    /\ {pollsOn, grantsOn} \subseteq Channels \union {NoChannel}

(* A modem that listens is watched by the lost-sync timer, and one in       *)
(* service by T4 as well, whatever interrupted it: a CMTS that forgets the  *)
(* modem always costs it its service, never leaves it there unserved.       *)
Watched ==
    /\ Listening(modem) => "lost-sync" \in modem.timers
    /\ modem.state \in InService => "T4" \in modem.timers

(* The waits of initialisation that a timer ends, whatever is lost, late or *)
(* reset.  Nothing ends the others: RANGING-WAIT waits for the broadcasts   *)
(* the CMTS repeats, once T2 stopped at the first region it let pass, and   *)
(* DHCP for an answer to a message it sends but once (WaitsKept).  (Without *)
(* a boot file no timer moves the modem on from TIME-OF-DAY either.)        *)
TimedWaits ==
    /\ modem.state = "ucd-wait" => "T1" \in modem.timers
    /\ modem.state = "ranging-initial" => "T3" \in modem.timers
    /\ modem.state = "time-of-day" /\ BootFile => "tod" \in modem.timers
    /\ modem.state = "tftp-config" => "tftp" \in modem.timers

(* A modem that was polled is watched by T4; one that was told to go on     *)
(* ranging before its first poll waits for that poll without a timer, and   *)
(* is polled on the channel it is on, or took a channel of a lower number   *)
(* than the one it ranged on, where nobody polls it and no timer ends that. *)
PollsCome ==
    modem.state = "ranging-station"
        => \/ {"T3", "T4"} \intersect modem.timers # {}
           \/ pollsOn # NoChannel /\ modem.ucd.ch <= pollsOn

(* A modem transmits requests and data under a SID only: what it scheduled  *)
(* before a SID was assigned is nothing but initial ranging.                *)
SidBeforeData ==
    \A i \in DOMAIN modem.bursts :
        modem.bursts[i].kind # "RNG-REQ" => modem.bursts[i].sid # NoSid

(* Whatever is lost, reset or late, and wherever the modem is moved, it is  *)
(* watched, its timed waits have their timers, the polls it ranges for can  *)
(* come, and it transmits requests and data under a SID only.               *)
Attended == TypeOK /\ Watched /\ TimedWaits /\ PollsCome /\ SidBeforeData

(* What DHCP and registration wait for without a timer is under way: DHCP   *)
(* sends each message once, and once the REG-RSP stopped T6 only the        *)
(* REG-ACK's transmission ends REGISTERING.                                 *)
Sustained ==
    /\ modem.state = "dhcp" /\ (TimeServer \/ BootFile)
           => \/ Waiting("DISCOVER") \/ "OFFER" \in owed
              \/ Waiting("REQUEST") \/ "DHCPACK" \in owed
    /\ modem.state = "registering" => "T6" \in modem.timers \/ Waiting("REG-ACK")

(* A burst or an answer is lost, or a data grant comes too late to be used. *)
Loses ==
    \/ SendBurst(FALSE)
    \/ \E answer \in owed : LoseAnswer(answer)
    \/ \E map \in {x \in Maps : x.grant = "sized" /\ x.late >= 3} : ReceiveMap(map)

(* Only the loss of a frame, or a grant that came too late, ends for ever   *)
(* what DHCP or registration waits for: no answer to an earlier attempt, no *)
(* timer, ranging, poll or move does, and a modem that starts over has it.  *)
WaitsKept ==
    [][Sustained' \/ Loses \/ (~Sustained /\ modem'.state = modem.state)]_vars

(* A modem in service with frames to send has asked for bandwidth, or was   *)
(* told to wait for it: no frame is ever left behind in the queue.          *)
QueueAsksForBandwidth ==
    modem.queue # <<>> /\ modem.state \in InService
        => modem.outstanding \/ modem.grantPending

(* A modem in service keeps the upstream it took, whatever UCDs it hears:   *)
(* "only a UCC-REQ or a MAC re-initialisation moves a modem afterwards".    *)
(* (The code keeps the promise from OPERATIONAL on, not from ranging on.)   *)
StaysOnUpstream ==
    [][modem.state = "operational" /\ modem'.ucd.ch # modem.ucd.ch
           => modem.uccTarget # NoChannel \/ modem'.state = "ds-scan"
                \/ modem'.ucd = NoUcd]_vars

(* The stage of initialisation a modem in this state has come to.           *)
Stage ==
    CASE modem.state \in {"offline", "ds-scan"} -> "down"
      [] modem.state \in {"sync-wait", "ucd-wait"} -> "searching"
      [] modem.state \in {"ranging-wait", "ranging-initial", "ranging-station"} -> "ranging"
      [] modem.state \in InService \ {"operational"} -> "provisioning"
      [] modem.state = "operational" -> "online"
      [] modem.state = "rejected" -> "rejected"

(* Whatever is lost, late or expires, the modem goes through the stages of  *)
(* ModemService in their order: it is never in service without having been  *)
(* registered since it started over, and never provisioned twice.           *)
Service == INSTANCE ModemService WITH stage <- Stage, configured <- modem.registered
ImplementsService == Service!Spec

=============================================================================
