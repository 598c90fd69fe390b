------------------------------ MODULE IpStack -------------------------------
(***************************************************************************)
(* The small IPv4 stack every interface of the lab has (net/stack.py): an  *)
(* ARP cache that is never emptied, packets that wait for an ARP answer,   *)
(* and what a received frame makes of them.                                *)
(*                                                                         *)
(* An interface, its address and its MAC share one name.  The operators    *)
(* take a stack and return it with the frames it sends, in order.          *)
(***************************************************************************)
EXTENDS Naturals, Sequences, FiniteSets

CONSTANTS
    Names,              \* the interfaces
    OnLink,             \* the addresses on the subnet of each
    Gateway             \* where each sends what is not on its subnet

Everyone == "ff:ff"     \* the broadcast MAC
NoMac == "00:00"
Nobody == "0.0.0.0"

ASSUME StackAssumption ==
    /\ OnLink \in [Names -> SUBSET Names] /\ Gateway \in [Names -> Names]
    /\ {Everyone, NoMac, Nobody} \intersect Names = {}

Packets == [kind : {"echo", "reply"}, from : Names, to : Names, seq : Nat]
ArpFrames == [src : Names, dst : Names \union {Everyone}, arp : {"who-has", "is-at"},
              from : Names, to : Names]
IpFrames == [src : Names, dst : Names \union {Everyone}, ip : Packets]
Frames == ArpFrames \union IpFrames

Stacks == [cache : [Names -> Names \union {NoMac}], waiting : [Names -> Seq(Packets)]]
NewStack == [cache |-> [n \in Names |-> NoMac], waiting |-> [n \in Names |-> <<>>]]

IsArp(frame) == "arp" \in DOMAIN frame
Framed(n, mac, packet) == [src |-> n, dst |-> mac, ip |-> packet]
Sends(stack, frames) == [stack |-> stack, out |-> frames]

-----------------------------------------------------------------------------
(* Transmission.                                                            *)
NextHop(n, to) == IF to \in OnLink[n] THEN to ELSE Gateway[n]

\* Mutant of ArpRequest: only the first packet to wait asks.
ArpRequestOnce(stack, n, hop) ==
    IF stack.waiting[hop] = <<>>
    THEN <<[src |-> n, dst |-> Everyone, arp |-> "who-has", from |-> n, to |-> hop]>>
    ELSE <<>>

ArpRequest(stack, n, hop) ==
    <<[src |-> n, dst |-> Everyone, arp |-> "who-has", from |-> n, to |-> hop]>>

(* A packet goes to a MAC the caller knows, or that the cache has; if not,  *)
(* it waits, and each packet that does repeats the request.                 *)
SendIp(stack, n, packet, mac) ==
    LET hop == NextHop(n, packet.to)
    IN  IF mac # NoMac THEN Sends(stack, <<Framed(n, mac, packet)>>)
        ELSE IF stack.cache[hop] # NoMac
        THEN Sends(stack, <<Framed(n, stack.cache[hop], packet)>>)
        ELSE Sends([cache |-> stack.cache,
                    waiting |-> [stack.waiting EXCEPT ![hop] = Append(@, packet)]],
                   ArpRequest(stack, n, hop))

-----------------------------------------------------------------------------
(* Reception.                                                               *)
(* A MAC is believed at once, and what waited for it goes out.              *)
Learn(stack, n, ip, mac) ==
    Sends([cache |-> [stack.cache EXCEPT ![ip] = mac],
           waiting |-> [stack.waiting EXCEPT ![ip] = <<>>]],
          [i \in DOMAIN stack.waiting[ip] |-> Framed(n, mac, stack.waiting[ip][i])])

\* Mutant of HandleArp: it takes the target of the request for its sender.
HandleArpTarget(stack, n, local, frame) ==
    LET learned == Learn(stack, n, frame.to, frame.src)
    IN  IF frame.arp = "who-has" /\ frame.to \in local
        THEN Sends(learned.stack, Append(learned.out,
                 [src |-> n, dst |-> frame.src, arp |-> "is-at",
                  from |-> frame.to, to |-> frame.from]))
        ELSE learned

(* The sender of every ARP frame is learned, be it meant for us or not.     *)
HandleArp(stack, n, local, frame) ==
    LET learned == Learn(stack, n, frame.from, frame.src)
    IN  IF frame.arp = "who-has" /\ frame.to \in local
        THEN Sends(learned.stack, Append(learned.out,
                 [src |-> n, dst |-> frame.src, arp |-> "is-at",
                  from |-> frame.to, to |-> frame.from]))
        ELSE learned

Accepts(n, frame) == frame.dst \in {n, Everyone}

Answer(packet) ==
    [kind |-> "reply", from |-> packet.to, to |-> packet.from, seq |-> packet.seq]

(* An echo for one of our addresses goes back to the MAC it came from; an   *)
(* answer is for the ICMP handler, which is the caller's.                   *)
ReceiveIp(stack, n, local, frame) ==
    LET learned == Learn(stack, n, frame.ip.from, frame.src)
    IN  IF frame.ip.kind = "echo" /\ frame.ip.to \in local
        THEN Sends(learned.stack, learned.out \o <<Framed(n, frame.src, Answer(frame.ip))>>)
        ELSE learned

(* One frame at an interface that has the addresses `local`.                *)
StackReceive(stack, n, local, frame) ==
    IF ~Accepts(n, frame) THEN Sends(stack, <<>>)
    ELSE IF IsArp(frame) THEN HandleArp(stack, n, local, frame)
    ELSE ReceiveIp(stack, n, local, frame)
=============================================================================
