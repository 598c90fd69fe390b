----------------------------- MODULE Forwarding -----------------------------
(***************************************************************************)
(* The data path between hosts behind cable modems and the network side:   *)
(* the bridge of the modem (cm/cm.py), the learning, filtering and routing *)
(* of the CMTS (cmts/cmts.py, cmts/modemdb.py) between its cable and its   *)
(* NSI interface, the server behind it, and pings with their timeout       *)
(* (cm/cpe.py).  IpStack has what each interface does with a frame.        *)
(*                                                                         *)
(* A modem has one host, as the runner attaches them.  The addresses of    *)
(* the cable interface in the modems' and the hosts' subnets are one name, *)
(* addresses are already configured, and no packet lives long enough for   *)
(* its TTL to matter.                                                      *)
(***************************************************************************)
EXTENDS IpStack

CONSTANTS
    Hosts, Modems,
    Behind,             \* the modem of each host
    NetworkAccess,      \* what each modem's configuration file says
    MaxCpe,             \* ... of the hosts the CMTS may learn,
    BridgeLimit,        \* and how many the modem itself may
    Targets,            \* bound: what each host may ping, first and later
    MaxFaults           \* bound: frames lost and modems re-initialised

Cable == "cable"        \* the CMTS's cable interface
Nsi == "nsi"            \* ... and its network side
Server == "server"      \* the provisioning server, also the default gateway

ASSUME ForwardingAssumption ==
    /\ Names = Hosts \union Modems \union {Cable, Nsi, Server}
    /\ Hosts \intersect Modems = {}
    /\ (Hosts \union Modems) \intersect {Cable, Nsi, Server} = {}
    /\ Behind \in [Hosts -> Modems]
    /\ \A g, h \in Hosts : Behind[g] = Behind[h] => g = h
    /\ NetworkAccess \in [Modems -> BOOLEAN]
    /\ MaxCpe \in [Modems -> Nat] /\ BridgeLimit \in [Modems -> Nat]
    /\ Targets \in [Hosts -> Seq(SUBSET Names)] /\ MaxFaults \in Nat

(* The modems' subnet and the hosts' are on the cable, with the CMTS as the *)
(* gateway of both; the network side is a subnet of its own.                *)
ASSUME TopologyAssumption ==
    LET Subscribers == Hosts \union Modems
    IN  /\ OnLink[Cable] = Subscribers \union {Cable}
        /\ \A n \in Subscribers :
               Cable \in OnLink[n] /\ OnLink[n] \subseteq OnLink[Cable] /\ Gateway[n] = Cable
        /\ \A m, n \in Subscribers : m \in OnLink[n] => n \in OnLink[m]
        /\ OnLink[Nsi] = {Nsi, Server} /\ OnLink[Server] = {Nsi, Server}
        /\ Gateway[Server] = Nsi

VARIABLES
    stack,              \* the IpStack of each interface
    operational,        \* modems in service, as they see it
    online,             \* ... and as the CMTS does
    bridged,            \* hosts each modem has learned on its LAN
    owner,              \* CMTS: the modem it learned each host behind
    up,                 \* frames each modem holds for the upstream
    down,               \* frames on the downstream, that every modem hears
    toServer, toNsi,    \* frames on the network side
    sent,               \* what each host pinged, by sequence number
    pings,              \* sequence numbers that wait for an answer
    results,            \* answers each host counted: <<number, from>>
    lost,               \* ... and sequence numbers it gave up
    faults,             \* losses so far
    spoiled             \* history: pings that waited when a frame was lost

net == <<up, down, toServer, toNsi>>
service == <<operational, online, bridged, owner>>
vars == <<stack, service, net, sent, pings, results, lost, faults, spoiled>>

NoOwner == "nobody"
RegAck(m) == [src |-> m, regAck |-> TRUE]
Waiting(p) == UNION {{h} \X p[h] : h \in Hosts}

(* A step that loses or drops a frame spoils the pings that wait after it.  *)
Spoils(lose) == spoiled' = IF lose THEN spoiled \union Waiting(pings') ELSE spoiled
Fault == faults < MaxFaults /\ faults' = faults + 1

Init ==
    /\ stack = [n \in Names |-> NewStack]
    /\ operational = {} /\ online = {}
    /\ bridged = [m \in Modems |-> {}]
    /\ owner = [h \in Hosts |-> NoOwner]
    /\ up = [m \in Modems |-> <<>>]
    /\ down = <<>> /\ toServer = <<>> /\ toNsi = <<>>
    /\ sent = [h \in Hosts |-> <<>>]
    /\ pings = [h \in Hosts |-> {}]
    /\ results = [h \in Hosts |-> {}] /\ lost = [h \in Hosts |-> {}]
    /\ faults = 0 /\ spoiled = {}

-----------------------------------------------------------------------------
(* Service comes and goes.                                                  *)
(* The modem is in service once it has sent its REG-ACK.                    *)
ComeUp(m) ==
    /\ m \notin operational
    /\ operational' = operational \union {m}
    /\ up' = [up EXCEPT ![m] = <<RegAck(m)>>]
    /\ UNCHANGED <<stack, online, bridged, owner, down, toServer, toNsi, sent,
                   pings, results, lost, faults, spoiled>>

(* The modem loses its queue and its address; what it learned stays, and so *)
(* does its state at the CMTS.                                              *)
Reinitialize(m) ==
    /\ m \in operational
    /\ Fault
    /\ operational' = operational \ {m}
    /\ up' = [up EXCEPT ![m] = <<>>]
    /\ UNCHANGED pings /\ Spoils(TRUE)
    /\ UNCHANGED <<stack, online, bridged, owner, down, toServer, toNsi, sent,
                   results, lost>>

-----------------------------------------------------------------------------
(* The modem's bridge.                                                      *)
(* A host's frames pass when the modem is in service and the host is known, *)
(* or there is room to learn it, which does not wait for service.           *)
HasRoom(m, h) == h \in bridged[m] \/ Cardinality(bridged[m]) < BridgeLimit[m]
Bridges(m, h) == HasRoom(m, h) /\ m \in operational

(* The frames of each host, and of each modem's own stack, go to the        *)
(* modems' queues.                                                          *)
FromLan(lan, own, lose) ==
    LET sends   == {h \in Hosts : lan[h] # <<>>}
        passes(m) == {h \in sends : Behind[h] = m /\ Bridges(m, h)}
    IN  /\ bridged' = [m \in Modems |-> bridged[m] \union
                          {h \in sends : Behind[h] = m /\ HasRoom(m, h)}]
        /\ up' = [m \in Modems |->
                     up[m] \o own[m]
                     \o IF passes(m) = {} THEN <<>> ELSE lan[CHOOSE h \in passes(m) : TRUE]]
        /\ Spoils(lose \/ \E h \in sends : ~Bridges(Behind[h], h))

Silent(set) == [x \in set |-> <<>>]

(* What of a downstream frame reaches the host behind a modem: anything not *)
(* for the modem while it is in service, and what is for a host it learned  *)
(* even when it is not.                                                     *)
ToLan(m, frame) ==
    /\ frame.dst # m
    /\ m \in operational \/ frame.dst \in bridged[m]

-----------------------------------------------------------------------------
(* The hosts.                                                               *)
Ping(h, target) ==
    LET seq == Len(sent[h]) + 1
        s == SendIp(stack[h], h,
                 [kind |-> "echo", from |-> h, to |-> target, seq |-> seq], NoMac)
    IN  /\ seq \in DOMAIN Targets[h] /\ target \in Targets[h][seq]
        /\ sent' = [sent EXCEPT ![h] = Append(@, target)]
        /\ stack' = [stack EXCEPT ![h] = s.stack]
        /\ pings' = [pings EXCEPT ![h] = @ \union {seq}]
        /\ FromLan([Silent(Hosts) EXCEPT ![h] = s.out], Silent(Modems), FALSE)
        /\ UNCHANGED <<operational, online, owner, down, toServer, toNsi, results,
                       lost, faults>>

PingTimeout(h, seq) ==
    /\ seq \in pings[h]
    /\ pings' = [pings EXCEPT ![h] = @ \ {seq}]
    /\ lost' = [lost EXCEPT ![h] = @ \union {seq}]
    /\ UNCHANGED <<stack, service, net, sent, results, faults, spoiled>>

(* The addresses of an interface: a modem loses its own with its service.   *)
LocalTo(n) == IF n \in Modems THEN {n} \intersect operational ELSE {n}

(* An answer that a host's stack takes counts while a ping of that number   *)
(* waits for it; nothing looks at where it comes from.                      *)
Counts(h, frame) ==
    /\ Accepts(h, frame) /\ ~IsArp(frame)
    /\ frame.ip.to \in LocalTo(h) /\ frame.ip.kind = "reply" /\ frame.ip.seq \in pings[h]

(* A downstream frame, at every modem that is not deaf to it, and behind.   *)
DeliverDown(deaf) ==
    LET frame  == Head(down)
        mine(m) == m \notin deaf /\ Accepts(m, frame)
        at(h)   == Behind[h] \notin deaf /\ ToLan(Behind[h], frame)
        result  == [n \in Hosts \union Modems |->
                      IF (n \in Modems /\ mine(n)) \/ (n \in Hosts /\ at(n))
                      THEN StackReceive(stack[n], n, LocalTo(n), frame)
                      ELSE Sends(stack[n], <<>>)]
        counts  == {h \in Hosts : at(h) /\ Counts(h, frame)}
    IN  /\ down # <<>> /\ down' = Tail(down)
        /\ IF deaf = {} THEN UNCHANGED faults ELSE Fault
        /\ stack' = [n \in Names |-> IF n \in DOMAIN result THEN result[n].stack
                                     ELSE stack[n]]
        /\ pings' = [h \in Hosts |-> IF h \in counts THEN pings[h] \ {frame.ip.seq}
                                     ELSE pings[h]]
        /\ results' = [h \in Hosts |->
                          IF h \in counts
                          THEN results[h] \union {<<frame.ip.seq, frame.ip.from>>}
                          ELSE results[h]]
        /\ FromLan([h \in Hosts |-> result[h].out], [m \in Modems |-> result[m].out],
                   deaf # {})
        /\ UNCHANGED <<operational, online, owner, toServer, toNsi, sent, lost>>

-----------------------------------------------------------------------------
(* The CMTS.                                                                *)
(* There is room for one more host behind a modem (learn_cpe).              *)
MayLearn(m) == Cardinality({h \in Hosts : owner[h] = m}) < MaxCpe[m]

\* Mutant of Admits: a modem without network access passes its host's frames.
AdmitsAll(m, src) == src = m \/ ((owner[src] # NoOwner \/ MayLearn(m)) /\ m \in online)

(* A modem's own frames always pass; its host's once the CMTS knows the     *)
(* host and the modem is in service with network access.                    *)
Admits(m, src) ==
    \/ src = m
    \/ /\ owner[src] # NoOwner \/ MayLearn(m)
       /\ NetworkAccess[m] /\ m \in online

(* What the CMTS makes of a packet that is not for the interface it came in *)
(* on: it answers an echo for its other one, or routes.                     *)
Routed(s, packet) ==
    LET local  == packet.to \in {Cable, Nsi}
        p      == IF local THEN Answer(packet) ELSE packet
        egress == IF p.to \in OnLink[Cable] THEN Cable ELSE Nsi
        mac    == IF egress = Cable THEN s[Cable].cache[p.to] ELSE NoMac
    IN  IF local /\ packet.kind # "echo" THEN [on |-> egress, does |-> Sends(s[egress], <<>>)]
        ELSE [on |-> egress, does |-> SendIp(s[egress], egress, p, mac)]

(* The CMTS takes in a frame on one interface: its stack sees it first, and *)
(* a packet that is for its MAC and not for its address is routed.          *)
TakeIn(n, frame) ==
    LET own   == StackReceive(stack[n], n, {n}, frame)
        s     == [stack EXCEPT ![n] = own.stack]
        other == ~IsArp(frame) /\ frame.dst = n /\ frame.ip.to # n
        r     == Routed(s, frame.ip)
        out(i) == (IF i = n THEN own.out ELSE <<>>)
                  \o (IF other /\ r.on = i THEN r.does.out ELSE <<>>)
    IN  /\ stack' = IF other THEN [s EXCEPT ![r.on] = r.does.stack] ELSE s
        /\ down' = down \o out(Cable)
        /\ toServer' = toServer \o out(Nsi)

Ignore == UNCHANGED <<stack, down, toServer>>

(* A modem's next frame reaches the CMTS.                                   *)
SendUp(m) ==
    LET frame == Head(up[m])
        data  == "regAck" \notin DOMAIN frame
        new   == data /\ frame.src # m /\ owner[frame.src] = NoOwner /\ MayLearn(m)
    IN  /\ up[m] # <<>> /\ up' = [up EXCEPT ![m] = Tail(@)]
        /\ online' = IF data THEN online ELSE online \union {m}
        /\ owner' = IF new THEN [owner EXCEPT ![frame.src] = m] ELSE owner
        /\ IF data /\ Admits(m, frame.src) THEN TakeIn(Cable, frame) ELSE Ignore
        /\ UNCHANGED pings /\ Spoils(data /\ ~Admits(m, frame.src))
        /\ UNCHANGED <<operational, bridged, toNsi, sent, results, lost, faults>>

(* ... or is lost on the upstream.                                          *)
LoseUp(m) ==
    /\ up[m] # <<>> /\ up' = [up EXCEPT ![m] = Tail(@)]
    /\ Fault
    /\ UNCHANGED pings /\ Spoils(TRUE)
    /\ UNCHANGED <<stack, service, down, toServer, toNsi, sent, results, lost>>

-----------------------------------------------------------------------------
(* The network side.                                                        *)
ServerReceives ==
    /\ toServer # <<>> /\ toServer' = Tail(toServer)
    /\ LET s == StackReceive(stack[Server], Server, {Server}, Head(toServer))
       IN  /\ stack' = [stack EXCEPT ![Server] = s.stack]
           /\ toNsi' = toNsi \o s.out
    /\ UNCHANGED <<service, up, down, sent, pings, results, lost, faults, spoiled>>

ReceiveNsi ==
    /\ toNsi # <<>> /\ toNsi' = Tail(toNsi)
    /\ TakeIn(Nsi, Head(toNsi))
    /\ UNCHANGED <<service, up, sent, pings, results, lost, faults, spoiled>>

-----------------------------------------------------------------------------
(* A frame gets a hop further.                                              *)
Hop ==
    \/ \E m \in Modems : SendUp(m)
    \/ \E deaf \in SUBSET Modems : DeliverDown(deaf)
    \/ ServerReceives
    \/ ReceiveNsi

Next ==
    \/ Hop
    \/ \E m \in Modems : ComeUp(m) \/ Reinitialize(m) \/ LoseUp(m)
    \/ \E h \in Hosts : \E t \in Names : Ping(h, t)
    \/ \E h \in Hosts : \E i \in DOMAIN sent[h] : PingTimeout(h, i)

Spec == Init /\ [][Next]_vars
(* Frames move on; nothing makes a ping time out.                          *)
FairSpec == Spec /\ WF_vars(Hop)

-----------------------------------------------------------------------------
(* Every attribute keeps its type; above all, no frame goes to no MAC.      *)
TypeOK ==
    /\ stack \in [Names -> Stacks]
    /\ operational \subseteq Modems /\ online \subseteq Modems
    /\ bridged \in [Modems -> SUBSET Hosts]
    /\ owner \in [Hosts -> Modems \union {NoOwner}]
    /\ up \in [Modems -> Seq(Frames \union {RegAck(m) : m \in Modems})]
    /\ {down, toServer, toNsi} \subseteq Seq(Frames)
    /\ sent \in [Hosts -> Seq(Names)]
    /\ {pings, lost} \subseteq [Hosts -> SUBSET Nat]
    /\ results \in [Hosts -> SUBSET (Nat \X Names)]
    /\ faults \in 0..MaxFaults /\ spoiled \subseteq Hosts \X Nat

(* Every ping is answered, given up, or waited for, and never two of them:  *)
(* its timer and a late answer race (cpe.py:106).                           *)
Answered(h) == {r[1] : r \in results[h]}
CountedOnce ==
    \A h \in Hosts :
        /\ Answered(h) \union lost[h] \union pings[h] = DOMAIN sent[h]
        /\ {Answered(h) \intersect lost[h], Answered(h) \intersect pings[h],
            lost[h] \intersect pings[h]} = {{}}

(* An answer is counted by the host that asked, and comes from what it      *)
(* asked, although modems flood their LAN with one another's frames and     *)
(* neither address nor identifier is looked at (cm.py:1267, cpe.py:113).    *)
AnswersOwn == \A h \in Hosts : \A r \in results[h] : sent[h][r[1]] = r[2]

(* Whatever an interface learned, from requests it was not asked and from   *)
(* routed packets, is where it would have to send (stack.py:195).           *)
CachesRight ==
    \A n, x \in Names :
        stack[n].cache[x] \in {NoMac, IF x \in OnLink[n] THEN x ELSE Gateway[n]}

(* Every frame goes to the right neighbour and every answer to its own ping. *)
DeliveredRight == TypeOK /\ CountedOnce /\ AnswersOwn /\ CachesRight

(* Nothing a host sends through a modem without network access gets past    *)
(* the CMTS: no interface beyond the modem hears of it (cmts.py:789).       *)
KeptOut ==
    \A h \in Hosts :
        ~NetworkAccess[Behind[h]] =>
            /\ \A n \in {Cable, Nsi, Server} : stack[n].cache[h] = NoMac
            /\ results[h] = {}

(* A ping that no loss, filter or timer touches is answered; above all, one *)
(* that follows a lost ARP exchange gets it repeated (stack.py:118).        *)
Unanswered ==
    {w \in Waiting(pings) \ spoiled : sent[w[1]][w[2]] \in {Cable, Nsi, Server}}
AnswerArrives == []<>(Unanswered = {})
=============================================================================
