-------------------------- MODULE Forwarding_proofs --------------------------
(***************************************************************************)
(* Proofs about the data path, for any number of modems and hosts.         *)
(***************************************************************************)
EXTENDS Forwarding, SequenceTheorems, TLAPS

(* The interfaces beyond the modems, and the hosts that are kept off them.  *)
Far == {Cable, Nsi, Server}
Kept == {h \in Hosts : ~NetworkAccess[Behind[h]]}

(* A packet is a ping that its host sent, or an answer to one.              *)
Asked(p, s) ==
    /\ p \in Packets
    /\ p.kind = "echo" =>
           p.from \in Hosts /\ p.seq \in DOMAIN s[p.from] /\ s[p.from][p.seq] = p.to
    /\ p.kind = "reply" =>
           p.to \in Hosts /\ p.seq \in DOMAIN s[p.to] /\ s[p.to][p.seq] = p.from

(* A packet that n may send: whoever gets it would answer by way of n, and  *)
(* only the CMTS sends packets that others made.                            *)
Sendable(n, p, s) ==
    /\ Asked(p, s)
    /\ NextHop(n, p.to) \in OnLink[n]
    /\ NextHop(NextHop(n, p.to), p.from) = n
    /\ n \notin {Cable, Nsi} => p.from = n
    /\ n \in Far => p.from \notin Kept

(* A frame that n sends.                                                    *)
Carried(n, f, s) ==
    /\ f \in Frames /\ "regAck" \notin DOMAIN f
    /\ f.src = n
    /\ IsArp(f) => f.from = n
    /\ ~IsArp(f) => /\ Sendable(n, f.ip, s)
                    /\ f.dst = NextHop(n, f.ip.to)
                    /\ n \in Far => f.dst \notin Kept
AllCarried(n, frames, s) ==
    frames \in Seq(Frames) /\ \A i \in DOMAIN frames : Carried(n, frames[i], s)

(* A stack knows of a name the MAC it would have to send to, if any, and    *)
(* holds packets by the hop they wait for.                                  *)
Sound(n, k, s) ==
    /\ k \in Stacks
    /\ \A x \in Names : k.cache[x] \in {NoMac, NextHop(n, x)}
    /\ \A h \in Kept : h # n => k.cache[h] = NoMac
    /\ \A x \in Names : \A i \in DOMAIN k.waiting[x] :
           Sendable(n, k.waiting[x][i], s) /\ NextHop(n, k.waiting[x][i].to) = x

-----------------------------------------------------------------------------
(* Frames and packets.                                                      *)
LEMMA FrameShape ==
    ASSUME NEW f \in Frames
    PROVE  IF IsArp(f) THEN f \in ArpFrames ELSE f \in IpFrames
<1>1. CASE f \in ArpFrames
  <2>1. DOMAIN f = {"src", "dst", "arp", "from", "to"}
    BY <1>1 DEF ArpFrames
  <2>2. QED
    BY <1>1, <2>1 DEF IsArp
<1>2. CASE f \in IpFrames
  <2>1. DOMAIN f = {"src", "dst", "ip"}
    BY <1>2 DEF IpFrames
  <2>2. QED
    BY <1>2, <2>1 DEF IsArp
<1>3. QED
  BY <1>1, <1>2 DEF Frames

LEMMA FramedFields ==
    ASSUME NEW n \in Names, NEW mac \in Names, NEW packet \in Packets,
           NEW f, f = Framed(n, mac, packet)
    PROVE  /\ f \in Frames /\ ~IsArp(f) /\ "regAck" \notin DOMAIN f
           /\ f.src = n /\ f.dst = mac /\ f.ip = packet
<1>1. f \in IpFrames /\ DOMAIN f = {"src", "dst", "ip"}
  BY DEF Framed, IpFrames
<1>2. QED
  BY <1>1 DEF Framed, Frames, IsArp

LEMMA ArpFields ==
    ASSUME NEW n \in Names, NEW dst \in Names \union {Everyone}, NEW kind \in {"who-has", "is-at"},
           NEW from \in Names, NEW to \in Names,
           NEW f, f = [src |-> n, dst |-> dst, arp |-> kind, from |-> from, to |-> to]
    PROVE  /\ f \in Frames /\ IsArp(f) /\ "regAck" \notin DOMAIN f
           /\ f.src = n /\ f.from = from
<1>1. f \in ArpFrames /\ DOMAIN f = {"src", "dst", "arp", "from", "to"}
  BY DEF ArpFrames
<1>2. QED
  BY <1>1 DEF Frames, IsArp

LEMMA StackFields ==
    ASSUME NEW s \in Stacks, NEW ip \in Names, NEW mac \in Names, NEW n,
           NEW l, l = Learn(s, n, ip, mac)
    PROVE  /\ l.stack \in Stacks
           /\ \A x \in Names : l.stack.cache[x] = IF x = ip THEN mac ELSE s.cache[x]
           /\ \A x \in Names : l.stack.waiting[x] = IF x = ip THEN <<>> ELSE s.waiting[x]
           /\ l.out = [i \in DOMAIN s.waiting[ip] |-> Framed(n, mac, s.waiting[ip][i])]
BY DEF Learn, Sends, Stacks

LEMMA NextHopName == ASSUME NEW n \in Names, NEW x \in Names PROVE NextHop(n, x) \in Names
BY StackAssumption DEF NextHop

LEMMA AllCarriedOne ==
    ASSUME NEW n, NEW s, NEW f, Carried(n, f, s)
    PROVE  AllCarried(n, <<f>>, s) /\ AllCarried(n, <<>>, s)
BY DEF AllCarried, Carried

LEMMA AllCarriedMore ==
    ASSUME NEW n, NEW s, NEW a, AllCarried(n, a, s), NEW b, AllCarried(n, b, s)
    PROVE  AllCarried(n, a \o b, s)
<1>1. a \in Seq(Frames) /\ b \in Seq(Frames)
  BY DEF AllCarried
<1>2. a \o b \in Seq(Frames) /\ Len(a \o b) = Len(a) + Len(b)
  BY <1>1
<1>3. ASSUME NEW i \in DOMAIN (a \o b) PROVE Carried(n, (a \o b)[i], s)
  <2>1. CASE i <= Len(a)
    BY <1>1, <1>2, <1>3, <2>1 DEF AllCarried
  <2>2. CASE i > Len(a)
    <3>1. (a \o b)[i] = b[i - Len(a)] /\ i - Len(a) \in DOMAIN b
      BY <1>1, <1>2, <1>3, <2>2
    <3>2. QED
      BY <3>1 DEF AllCarried
  <2>3. QED
    BY <1>1, <1>2, <1>3, <2>1, <2>2
<1>4. QED
  BY <1>2, <1>3 DEF AllCarried

(* A packet that n may send goes to the right MAC, or waits for it.         *)
LEMMA SendIpRight ==
    ASSUME NEW n \in Names, NEW k, NEW s, Sound(n, k, s), NEW p, Sendable(n, p, s),
           NEW mac, mac \in {NoMac, NextHop(n, p.to)}, n \in Far => mac \notin Kept,
           NEW r, r = SendIp(k, n, p, mac)
    PROVE  Sound(n, r.stack, s) /\ AllCarried(n, r.out, s)
<1>1. PICK hop : hop = NextHop(n, p.to)
  OBVIOUS
<1>2. p \in Packets /\ hop \in Names /\ hop \in OnLink[n]
  BY <1>1, NextHopName DEF Sendable, Asked, Packets
<1>3. NextHop(n, hop) = hop /\ hop # NoMac
  BY <1>2, StackAssumption DEF NextHop
<1>4. ASSUME NEW to, to = hop, n \in Far => to \notin Kept
      PROVE  AllCarried(n, <<Framed(n, to, p)>>, s)
  <2>1. PICK f : f = Framed(n, to, p)
    OBVIOUS
  <2>2. /\ f \in Frames /\ ~IsArp(f) /\ "regAck" \notin DOMAIN f
        /\ f.src = n /\ f.dst = to /\ f.ip = p
    BY <1>2, <1>4, <2>1, FramedFields
  <2>3. Carried(n, f, s)
    BY <1>1, <1>4, <2>2 DEF Carried
  <2>4. QED
    BY <2>1, <2>3, AllCarriedOne
<1>5. CASE mac # NoMac
  <2>1. r.stack = k /\ r.out = <<Framed(n, mac, p)>>
    BY <1>5 DEF SendIp, Sends
  <2>2. QED
    BY <1>1, <1>4, <1>5, <2>1
<1>6. CASE mac = NoMac /\ k.cache[hop] # NoMac
  <2>1. r.stack = k /\ r.out = <<Framed(n, k.cache[hop], p)>>
    BY <1>1, <1>6 DEF SendIp, Sends
  <2>2. k.cache[hop] = hop
    BY <1>2, <1>3, <1>6 DEF Sound
  <2>3. n \in Far => hop \notin Kept
    <3>1. Far \intersect Hosts = {}
      BY ForwardingAssumption DEF Far
    <3>2. QED
      BY <1>6, <3>1 DEF Sound, Kept
  <2>4. QED
    BY <1>4, <2>1, <2>2, <2>3
<1>7. CASE mac = NoMac /\ k.cache[hop] = NoMac
  <2>1. PICK ask : ask = [src |-> n, dst |-> Everyone, arp |-> "who-has", from |-> n, to |-> hop]
    OBVIOUS
  <2>2. /\ r.out = <<ask>>
        /\ r.stack = [cache |-> k.cache,
                      waiting |-> [k.waiting EXCEPT ![hop] = Append(@, p)]]
    BY <1>1, <1>7, <2>1 DEF SendIp, Sends, ArpRequest
  <2>3. Carried(n, ask, s)
    BY <1>2, <2>1, ArpFields DEF Carried
  <2>4. k \in Stacks /\ k.waiting[hop] \in Seq(Packets)
    BY <1>2 DEF Sound, Stacks
  <2>5. PICK q : q = Append(k.waiting[hop], p)
    OBVIOUS
  <2>6. /\ q \in Seq(Packets)
        /\ \A i \in DOMAIN q :
               \/ i \in DOMAIN k.waiting[hop] /\ q[i] = k.waiting[hop][i]
               \/ q[i] = p
    BY <1>2, <2>4, <2>5
  <2>7. /\ r.stack.cache = k.cache
        /\ \A x \in Names : r.stack.waiting[x] = IF x = hop THEN q ELSE k.waiting[x]
        /\ r.stack \in Stacks
    BY <1>2, <2>2, <2>4, <2>5, <2>6 DEF Stacks
  <2>8. ASSUME NEW x \in Names, NEW i \in DOMAIN r.stack.waiting[x]
        PROVE  Sendable(n, r.stack.waiting[x][i], s) /\ NextHop(n, r.stack.waiting[x][i].to) = x
    BY <1>1, <2>6, <2>7, <2>8 DEF Sound
  <2>9. Sound(n, r.stack, s)
    BY <2>7, <2>8 DEF Sound
  <2>10. QED
    BY <2>2, <2>3, <2>9, AllCarriedOne
<1>8. QED
  BY <1>5, <1>6, <1>7

(* What a frame teaches is where to send, and what waited for it goes out.  *)
LEMMA LearnRight ==
    ASSUME NEW n \in Names, NEW k, NEW s, Sound(n, k, s),
           NEW ip \in Names \ Kept, NEW mac \in Names,
           mac = NextHop(n, ip), n \in Far => mac \notin Kept,
           NEW l, l = Learn(k, n, ip, mac)
    PROVE  Sound(n, l.stack, s) /\ AllCarried(n, l.out, s)
<1>1. k \in Stacks /\ mac # NoMac
  BY StackAssumption DEF Sound
<1>2. /\ l.stack \in Stacks
      /\ \A x \in Names : l.stack.cache[x] = IF x = ip THEN mac ELSE k.cache[x]
      /\ \A x \in Names : l.stack.waiting[x] = IF x = ip THEN <<>> ELSE k.waiting[x]
      /\ l.out = [i \in DOMAIN k.waiting[ip] |-> Framed(n, mac, k.waiting[ip][i])]
  BY <1>1, StackFields
<1>3. Sound(n, l.stack, s)
  <2>1. \A x \in Names : l.stack.cache[x] \in {NoMac, NextHop(n, x)}
    BY <1>2 DEF Sound
  <2>2. \A h \in Kept : h # n => l.stack.cache[h] = NoMac
    BY SMTT(20), ZenonT(30), <1>2, ForwardingAssumption DEF Sound, Kept
  <2>3. ASSUME NEW x \in Names, NEW i \in DOMAIN l.stack.waiting[x]
        PROVE  Sendable(n, l.stack.waiting[x][i], s) /\ NextHop(n, l.stack.waiting[x][i].to) = x
    BY <1>2, <2>3 DEF Sound
  <2>4. QED
    BY <1>2, <2>1, <2>2, <2>3 DEF Sound
<1>4. PICK w : w = k.waiting[ip]
  OBVIOUS
<1>5. w \in Seq(Packets)
  BY <1>1, <1>4 DEF Stacks
<1>6. ASSUME NEW i \in DOMAIN w PROVE Carried(n, Framed(n, mac, w[i]), s)
  <2>1. Sendable(n, w[i], s) /\ NextHop(n, w[i].to) = ip
    BY <1>4, <1>6 DEF Sound
  <2>2. ip = mac
    BY <2>1 DEF Sendable, NextHop
  <2>3. PICK f : f = Framed(n, mac, w[i])
    OBVIOUS
  <2>4. w[i] \in Packets
    BY <1>5, <1>6
  <2>5. /\ f \in Frames /\ ~IsArp(f) /\ "regAck" \notin DOMAIN f
        /\ f.src = n /\ f.dst = mac /\ f.ip = w[i]
    BY <2>3, <2>4, FramedFields
  <2>6. QED
    BY <2>1, <2>2, <2>3, <2>5 DEF Carried
<1>7. l.out = [i \in 1..Len(w) |-> Framed(n, mac, w[i])]
  BY <1>2, <1>4, <1>5
<1>8. AllCarried(n, l.out, s)
  <2>1. \A i \in 1..Len(w) : Framed(n, mac, w[i]) \in Frames
    BY <1>5, <1>6 DEF Carried
  <2>2. l.out \in Seq(Frames) /\ DOMAIN l.out = 1..Len(w)
    BY <1>5, <1>7, <2>1
  <2>3. QED
    BY <1>5, <1>6, <1>7, <2>2 DEF AllCarried
<1>9. QED
  BY <1>3, <1>8

(* An interface that hears a neighbour learns where it is, and answers only *)
(* to where it would have sent.                                             *)
LEMMA ReceiveRight ==
    ASSUME NEW n \in Names, NEW k, NEW s, Sound(n, k, s), NEW local, local \subseteq {n},
           NEW l \in OnLink[n] \ Kept, l \in Names, NEW f, Carried(l, f, s),
           ~IsArp(f) => f.ip.from \notin Kept,
           NEW r, r = StackReceive(k, n, local, f)
    PROVE  Sound(n, r.stack, s) /\ AllCarried(n, r.out, s)
<1>1. CASE ~Accepts(n, f)
  <2>1. r.stack = k /\ r.out = <<>>
    BY <1>1 DEF StackReceive, Sends
  <2>2. QED
    BY <2>1 DEF AllCarried
<1>2. f \in Frames /\ f.src = l
  BY DEF Carried
<1>3. NextHop(n, l) = l
  BY DEF NextHop
<1>4. CASE Accepts(n, f) /\ IsArp(f)
  <2>1. f \in ArpFrames /\ f.from = l /\ f.to \in Names
    BY <1>2, <1>4, FrameShape DEF Carried, ArpFrames
  <2>2. PICK learned : learned = Learn(k, n, l, l)
    OBVIOUS
  <2>3. Sound(n, learned.stack, s) /\ AllCarried(n, learned.out, s)
    BY <1>3, <2>2, LearnRight
  <2>4. PICK reply : reply = [src |-> n, dst |-> l, arp |-> "is-at", from |-> n, to |-> l]
    OBVIOUS
  <2>5. Carried(n, reply, s)
    BY <2>4, ArpFields DEF Carried
  <2>6. r = learned \/ (r.stack = learned.stack /\ r.out = Append(learned.out, reply))
    <3>1. r = HandleArp(k, n, local, f)
      BY <1>4 DEF StackReceive
    <3>2. CASE f.arp = "who-has" /\ f.to \in local
      <4>1. f.to = n
        BY <3>2
      <4>2. QED
        BY <1>2, <2>1, <2>2, <2>4, <3>1, <3>2, <4>1 DEF HandleArp, Sends
    <3>3. CASE ~(f.arp = "who-has" /\ f.to \in local)
      BY <1>2, <2>1, <2>2, <3>1, <3>3 DEF HandleArp
    <3>4. QED
      BY <3>2, <3>3
  <2>7. AllCarried(n, Append(learned.out, reply), s)
    <3>1. learned.out \in Seq(Frames) /\ reply \in Frames
      BY <2>3, <2>5 DEF AllCarried, Carried
    <3>2. Append(learned.out, reply) = learned.out \o <<reply>>
      BY <3>1
    <3>3. QED
      BY <2>3, <2>5, <3>2, AllCarriedOne, AllCarriedMore
  <2>8. QED
    BY <2>3, <2>6, <2>7
<1>5. CASE Accepts(n, f) /\ ~IsArp(f)
  <2>1. f \in IpFrames /\ Sendable(l, f.ip, s) /\ f.dst = NextHop(l, f.ip.to)
    BY <1>2, <1>5, FrameShape DEF Carried
  <2>2. f.ip \in Packets /\ f.ip.from \in Names /\ f.ip.to \in Names
    BY <2>1 DEF Sendable, Asked, Packets
  <2>3. f.dst = n
    <3>1. f.dst \in Names
      BY <2>1, <2>2, NextHopName
    <3>2. QED
      BY <1>5, <3>1, StackAssumption DEF Accepts
  <2>4. NextHop(n, f.ip.from) = l
    BY <2>1, <2>3 DEF Sendable
  <2>5. PICK learned : learned = Learn(k, n, f.ip.from, l)
    OBVIOUS
  <2>6. Sound(n, learned.stack, s) /\ AllCarried(n, learned.out, s)
    BY <1>5, <2>2, <2>4, <2>5, LearnRight
  <2>7. r = ReceiveIp(k, n, local, f)
    BY <1>5 DEF StackReceive
  <2>8. CASE f.ip.kind = "echo" /\ f.ip.to \in local
    <3>1. PICK answer : answer = Answer(f.ip)
      OBVIOUS
    <3>2. PICK reply : reply = Framed(n, l, answer)
      OBVIOUS
    <3>3. r.stack = learned.stack /\ r.out = learned.out \o <<reply>>
      BY <1>2, <2>5, <2>7, <2>8, <3>1, <3>2 DEF ReceiveIp, Sends
    <3>4. /\ answer \in Packets /\ answer.kind = "reply" /\ answer.to = f.ip.from
          /\ answer.from = f.ip.to /\ answer.seq = f.ip.seq
      BY <2>2, <3>1 DEF Answer, Packets
    <3>5. f.ip.to = n
      BY <2>8
    <3>6. Asked(answer, s)
      BY <2>1, <2>8, <3>4 DEF Sendable, Asked
    <3>7. Sendable(n, answer, s)
      <4>1. NextHop(n, answer.to) = l /\ NextHop(l, n) = n
        BY <2>1, <2>3, <2>4, <3>4, <3>5
      <4>2. n \in Far => n \notin Kept
        BY ForwardingAssumption DEF Far, Kept
      <4>3. QED
        BY <3>4, <3>5, <3>6, <4>1, <4>2 DEF Sendable
    <3>8. /\ reply \in Frames /\ ~IsArp(reply) /\ "regAck" \notin DOMAIN reply
          /\ reply.src = n /\ reply.dst = l /\ reply.ip = answer
      BY <3>2, <3>4, FramedFields
    <3>9. Carried(n, reply, s)
      BY <2>4, <3>4, <3>7, <3>8 DEF Carried
    <3>10. QED
      BY <2>6, <3>3, <3>9, AllCarriedOne, AllCarriedMore
  <2>9. CASE ~(f.ip.kind = "echo" /\ f.ip.to \in local)
    <3>1. r = learned
      BY <1>2, <2>5, <2>7, <2>9 DEF ReceiveIp
    <3>2. QED
      BY <2>6, <3>1
  <2>10. QED
    BY <2>8, <2>9
<1>6. QED
  BY <1>1, <1>4, <1>5

-----------------------------------------------------------------------------
(* The CMTS: neighbours of its two interfaces, and the way between them.    *)
Neighbours(n) == IF n = Cable THEN Hosts \union Modems ELSE {Server}
Sounds(stacks, s) ==
    stacks \in [Names -> Stacks] /\ \A n \in Names : Sound(n, stacks[n], s)

LEMMA FarNames ==
    /\ Far \subseteq Names /\ Cable # Nsi /\ Cable # Server /\ Nsi # Server
    /\ Far \intersect (Hosts \union Modems) = {} /\ Far \intersect Kept = {}
    /\ Kept \subseteq Hosts /\ Hosts \union Modems \subseteq Names /\ NoMac \notin Names
    /\ Names = Hosts \union Modems \union Far
BY ForwardingAssumption, StackAssumption DEF Far, Kept, Cable, Nsi, Server

LEMMA RoutedRight ==
    ASSUME NEW s, NEW stacks, Sounds(stacks, s),
           NEW n \in {Cable, Nsi}, NEW l \in Neighbours(n) \ Kept,
           NEW p, Sendable(l, p, s), NextHop(l, p.to) = n, p.to # n,
           NEW r, r = Routed(stacks, p)
    PROVE  /\ r.on \in {Cable, Nsi}
           /\ Sound(r.on, r.does.stack, s) /\ AllCarried(r.on, r.does.out, s)
<1>1. l \notin {Cable, Nsi} /\ l \in Names
  BY FarNames DEF Neighbours, Far
<1>2. p.from = l /\ Asked(p, s) /\ p \in Packets /\ p.to \in Names
  BY <1>1 DEF Sendable, Asked, Packets
<1>3. Sound(Cable, stacks[Cable], s) /\ Sound(Nsi, stacks[Nsi], s)
  BY FarNames DEF Sounds, Far
<1>4. \A x \in Names : stacks[Cable].cache[x] \in {NoMac, NextHop(Cable, x)}
  BY <1>3 DEF Sound
<1>5. CASE p.to \in {Cable, Nsi} /\ p.kind # "echo"
  <2>1. /\ r.on \in {Cable, Nsi} /\ r.does.stack = stacks[r.on] /\ r.does.out = <<>>
    BY <1>5 DEF Routed, Sends
  <2>2. QED
    BY <1>3, <2>1 DEF AllCarried
<1>6. CASE p.to \in {Cable, Nsi} /\ p.kind = "echo"
  <2>1. l \in Hosts
    BY <1>2, <1>6 DEF Asked
  <2>2. n = Cable /\ p.to = Nsi
    BY <1>6, <2>1, FarNames DEF Neighbours, Far
  <2>3. PICK answer : answer = Answer(p)
    OBVIOUS
  <2>4. /\ answer \in Packets /\ answer.kind = "reply" /\ answer.to = l
        /\ answer.from = Nsi /\ answer.seq = p.seq
    BY <1>2, <2>2, <2>3 DEF Answer, Packets
  <2>5. Asked(answer, s)
    BY <1>2, <1>6, <2>2, <2>4 DEF Asked
  <2>6. l \in OnLink[Cable] /\ NextHop(Cable, l) = l /\ NextHop(l, Nsi) = Cable
    BY <2>1, TopologyAssumption, FarNames DEF NextHop, Far
  <2>7. Sendable(Cable, answer, s)
    BY <2>4, <2>5, <2>6, FarNames DEF Sendable, Far
  <2>8. PICK mac : mac = stacks[Cable].cache[l]
    OBVIOUS
  <2>9. mac \in {NoMac, l} /\ mac \notin Kept
    BY <1>1, <1>4, <2>6, <2>8, FarNames
  <2>10. r.on = Cable /\ r.does = SendIp(stacks[Cable], Cable, answer, mac)
    BY <1>6, <2>3, <2>4, <2>6, <2>8 DEF Routed
  <2>11. Cable \in Names
    BY FarNames DEF Far
  <2>12. Sound(Cable, r.does.stack, s) /\ AllCarried(Cable, r.does.out, s)
    BY <1>3, <2>4, <2>6, <2>7, <2>9, <2>10, <2>11, SendIpRight
  <2>13. QED
    BY <2>10, <2>12
<1>7. CASE p.to \in Hosts \union Modems
  <2>1. p.to \in OnLink[Cable] /\ NextHop(Cable, p.to) = p.to /\ p.to \notin Far
    BY <1>7, TopologyAssumption, FarNames DEF NextHop
  <2>2. NextHop(p.to, l) = Cable
    <3>1. l \notin OnLink[p.to]
      <4>1. CASE n = Cable
        <5>1. l \in Hosts \union Modems /\ p.to \notin OnLink[l]
          BY <2>1, <4>1 DEF Neighbours, NextHop, Far
        <5>2. QED
          BY <1>7, <5>1, TopologyAssumption
      <4>2. CASE n = Nsi
        <5>1. l = Server
          BY <4>2, FarNames DEF Neighbours
        <5>2. Server \notin OnLink[Cable]
          BY TopologyAssumption, FarNames DEF Far
        <5>3. QED
          BY <1>7, <5>1, <5>2, TopologyAssumption
      <4>3. QED
        BY <4>1, <4>2
    <3>2. QED
      BY <1>7, <3>1, TopologyAssumption DEF NextHop
  <2>3. Sendable(Cable, p, s)
    BY <1>2, <2>1, <2>2 DEF Sendable
  <2>4. PICK mac : mac = stacks[Cable].cache[p.to]
    OBVIOUS
  <2>5. mac \in {NoMac, p.to} /\ mac \notin Kept
    <3>1. mac \in {NoMac, p.to}
      BY <1>2, <1>4, <2>1, <2>4
    <3>2. p.to \in Kept => mac = NoMac
      BY <1>3, <2>1, <2>4 DEF Sound, Far
    <3>3. QED
      BY <3>1, <3>2, FarNames
  <2>6. p.to \notin {Cable, Nsi}
    BY <2>1 DEF Far
  <2>7. r.on = Cable /\ r.does = SendIp(stacks[Cable], Cable, p, mac)
    BY <2>1, <2>4, <2>6 DEF Routed
  <2>8. Cable \in Names
    BY FarNames DEF Far
  <2>9. Sound(Cable, r.does.stack, s) /\ AllCarried(Cable, r.does.out, s)
    BY <1>3, <2>1, <2>3, <2>5, <2>7, <2>8, SendIpRight
  <2>10. QED
    BY <2>7, <2>9
<1>8. CASE p.to = Server
  <2>1. Server \notin OnLink[Cable] /\ Server \notin {Cable, Nsi}
    BY TopologyAssumption, FarNames DEF Far
  <2>2. n = Cable /\ l \in Hosts \union Modems
    <3>1. CASE n = Nsi
      <4>1. l = Server
        BY <3>1, FarNames DEF Neighbours
      <4>2. NextHop(l, p.to) = Server
        BY <1>8, <4>1, TopologyAssumption DEF NextHop
      <4>3. QED
        BY <3>1, <4>2, FarNames
    <3>2. QED
      BY <3>1 DEF Neighbours
  <2>3. NextHop(Nsi, Server) = Server /\ Server \in OnLink[Nsi]
    BY TopologyAssumption DEF NextHop
  <2>4. NextHop(Server, l) = Nsi
    BY <2>2, TopologyAssumption, FarNames DEF NextHop, Far
  <2>5. Sendable(Nsi, p, s)
    BY <1>2, <1>8, <2>3, <2>4 DEF Sendable
  <2>6. r.on = Nsi /\ r.does = SendIp(stacks[Nsi], Nsi, p, NoMac)
    BY <1>8, <2>1, FarNames DEF Routed
  <2>7. Nsi \in Names /\ NoMac \notin Kept
    BY FarNames DEF Far
  <2>8. Sound(Nsi, r.does.stack, s) /\ AllCarried(Nsi, r.does.out, s)
    BY <1>3, <2>5, <2>6, <2>7, SendIpRight
  <2>9. QED
    BY <2>6, <2>8
<1>9. QED
  BY <1>2, <1>5, <1>6, <1>7, <1>8, FarNames DEF Far

LEMMA TakeInRight ==
    ASSUME NEW s, Sounds(stack, s), AllCarried(Cable, down, s), AllCarried(Nsi, toServer, s),
           NEW n \in {Cable, Nsi}, NEW l \in Neighbours(n) \ Kept,
           NEW f, Carried(l, f, s), TakeIn(n, f)
    PROVE  Sounds(stack', s) /\ AllCarried(Cable, down', s) /\ AllCarried(Nsi, toServer', s)
<1>1. /\ n \in Names /\ l \in OnLink[n] /\ l \in Names
      /\ l \notin {Cable, Nsi}
  BY TopologyAssumption, FarNames DEF Neighbours, Far
<1>2. PICK own : own = StackReceive(stack[n], n, {n}, f)
  OBVIOUS
<1>3. PICK st : st = [stack EXCEPT ![n] = own.stack]
  OBVIOUS
<1>4. PICK r : r = Routed(st, f.ip)
  OBVIOUS
<1>5. PICK other \in BOOLEAN : other = (~IsArp(f) /\ f.dst = n /\ f.ip.to # n)
  OBVIOUS
<1>6. /\ stack' = IF other THEN [st EXCEPT ![r.on] = r.does.stack] ELSE st
      /\ down' = down \o ((IF Cable = n THEN own.out ELSE <<>>)
                          \o (IF other /\ r.on = Cable THEN r.does.out ELSE <<>>))
      /\ toServer' = toServer \o ((IF Nsi = n THEN own.out ELSE <<>>)
                          \o (IF other /\ r.on = Nsi THEN r.does.out ELSE <<>>))
  BY <1>2, <1>3, <1>4, <1>5 DEF TakeIn
<1>7. ~IsArp(f) => /\ Sendable(l, f.ip, s) /\ f.dst = NextHop(l, f.ip.to)
                   /\ f.ip.from \notin Kept
  BY <1>1 DEF Carried, Sendable
<1>8. Sound(n, own.stack, s) /\ AllCarried(n, own.out, s)
  BY <1>1, <1>2, <1>7, ReceiveRight DEF Sounds
<1>9. Sounds(st, s)
  BY <1>1, <1>3, <1>8 DEF Sounds, Sound
<1>10. other => /\ r.on \in {Cable, Nsi}
                /\ Sound(r.on, r.does.stack, s) /\ AllCarried(r.on, r.does.out, s)
  BY SMTT(20), ZenonT(30), <1>4, <1>5, <1>7, <1>9, RoutedRight
<1>11. Sounds(stack', s)
  <2>1. CASE other
    <3>1. r.on \in Names /\ r.does.stack \in Stacks
      BY <1>10, <2>1, FarNames DEF Far, Sound
    <3>2. QED
      BY <1>6, <1>9, <1>10, <2>1, <3>1 DEF Sounds
  <2>2. CASE ~other
    BY <1>6, <1>9, <2>2
  <2>3. QED
    BY <2>1, <2>2
<1>12. \A i : AllCarried(i, <<>>, s)
  BY DEF AllCarried
<1>13. AllCarried(Cable, down', s)
  <2>1. AllCarried(Cable, IF Cable = n THEN own.out ELSE <<>>, s)
    BY <1>8, <1>12
  <2>2. AllCarried(Cable, IF other /\ r.on = Cable THEN r.does.out ELSE <<>>, s)
    BY <1>10, <1>12
  <2>3. QED
    BY <1>6, <2>1, <2>2, AllCarriedMore
<1>14. AllCarried(Nsi, toServer', s)
  <2>1. AllCarried(Nsi, IF Nsi = n THEN own.out ELSE <<>>, s)
    BY <1>8, <1>12
  <2>2. AllCarried(Nsi, IF other /\ r.on = Nsi THEN r.does.out ELSE <<>>, s)
    BY <1>10, <1>12
  <2>3. QED
    BY <1>6, <2>1, <2>2, AllCarriedMore
<1>15. QED
  BY <1>11, <1>13, <1>14

-----------------------------------------------------------------------------
(* The upstream: what a modem holds is its own, or its host's.              *)
RegAcks == {RegAck(m) : m \in Modems}
Behinds(m) == {m} \union {h \in Hosts : Behind[h] = m}
Rises(m, f, s) == f = RegAck(m) \/ \E n \in Behinds(m) : Carried(n, f, s)
Rising(m, frames, s) ==
    /\ frames \in Seq(Frames \union RegAcks)
    /\ \A i \in DOMAIN frames : Rises(m, frames[i], s)

Links(s) ==
    /\ Sounds(stack, s)
    /\ up \in [Modems -> Seq(Frames \union RegAcks)]
    /\ \A m \in Modems : Rising(m, up[m], s)
    /\ AllCarried(Cable, down, s)
    /\ AllCarried(Nsi, toServer, s)
    /\ AllCarried(Server, toNsi, s)

(* Tails and heads of what is on its way.                                   *)
LEMMA AllCarriedTail ==
    ASSUME NEW n, NEW s, NEW q, AllCarried(n, q, s), q # <<>>
    PROVE  Carried(n, Head(q), s) /\ AllCarried(n, Tail(q), s)
<1>1. q \in Seq(Frames)
  BY DEF AllCarried
<1>2. 1 \in DOMAIN q /\ Head(q) = q[1]
  BY <1>1
<1>3. Tail(q) \in Seq(Frames) /\ \A i \in DOMAIN Tail(q) : i + 1 \in DOMAIN q /\ Tail(q)[i] = q[i + 1]
  BY <1>1
<1>4. QED
  BY <1>2, <1>3 DEF AllCarried

LEMMA RisingTail ==
    ASSUME NEW m, NEW s, NEW q, Rising(m, q, s), q # <<>>
    PROVE  Rises(m, Head(q), s) /\ Rising(m, Tail(q), s)
<1>1. q \in Seq(Frames \union RegAcks)
  BY DEF Rising
<1>2. 1 \in DOMAIN q /\ Head(q) = q[1]
  BY <1>1
<1>3. /\ Tail(q) \in Seq(Frames \union RegAcks)
      /\ \A i \in DOMAIN Tail(q) : i + 1 \in DOMAIN q /\ Tail(q)[i] = q[i + 1]
  BY <1>1
<1>4. QED
  BY <1>2, <1>3 DEF Rising

LEMMA RisingMore ==
    ASSUME NEW m, NEW s, NEW q, Rising(m, q, s), NEW n \in Behinds(m),
           NEW frames, AllCarried(n, frames, s)
    PROVE  Rising(m, q \o frames, s)
<1>1. q \in Seq(Frames \union RegAcks) /\ frames \in Seq(Frames)
  BY DEF Rising, AllCarried
<1>2. frames \in Seq(Frames \union RegAcks)
  BY <1>1
<1>3. q \o frames \in Seq(Frames \union RegAcks) /\ Len(q \o frames) = Len(q) + Len(frames)
  BY <1>1, <1>2
<1>4. ASSUME NEW i \in DOMAIN (q \o frames) PROVE Rises(m, (q \o frames)[i], s)
  <2>1. CASE i <= Len(q)
    BY <1>1, <1>2, <1>3, <1>4, <2>1 DEF Rising
  <2>2. CASE i > Len(q)
    <3>1. (q \o frames)[i] = frames[i - Len(q)] /\ i - Len(q) \in DOMAIN frames
      BY <1>1, <1>2, <1>3, <1>4, <2>2
    <3>2. QED
      BY <3>1 DEF AllCarried, Rises
  <2>3. QED
    BY <1>1, <1>2, <1>3, <2>1, <2>2
<1>5. QED
  BY <1>3, <1>4 DEF Rising

(* What hosts and modems send joins the queues of their modems.             *)
LEMMA FromLanRight ==
    ASSUME NEW s, up \in [Modems -> Seq(Frames \union RegAcks)],
           \A m \in Modems : Rising(m, up[m], s),
           NEW lan, \A h \in Hosts : AllCarried(h, lan[h], s),
           NEW own, \A m \in Modems : AllCarried(m, own[m], s),
           NEW lose, FromLan(lan, own, lose)
    PROVE  /\ up' \in [Modems -> Seq(Frames \union RegAcks)]
           /\ \A m \in Modems : Rising(m, up'[m], s)
<1>1. PICK passes \in [Modems -> SUBSET Hosts] :
          /\ \A m \in Modems : \A h \in passes[m] : Behind[h] = m
          /\ up' = [m \in Modems |-> up[m] \o own[m]
                       \o IF passes[m] = {} THEN <<>>
                          ELSE lan[CHOOSE h \in passes[m] : TRUE]]
  <2>1. PICK passes : passes =
            [m \in Modems |-> {h \in {g \in Hosts : lan[g] # <<>>} : Behind[h] = m /\ Bridges(m, h)}]
    OBVIOUS
  <2>2. /\ passes \in [Modems -> SUBSET Hosts]
        /\ \A m \in Modems : \A h \in passes[m] : Behind[h] = m
    BY <2>1
  <2>3. up' = [m \in Modems |-> up[m] \o own[m]
                       \o IF passes[m] = {} THEN <<>>
                          ELSE lan[CHOOSE h \in passes[m] : TRUE]]
    <3> DEFINE Passes(m) ==
                   {h \in {g \in Hosts : lan[g] # <<>>} : Behind[h] = m /\ Bridges(m, h)}
               To(m, set) == up[m] \o own[m]
                   \o IF set = {} THEN <<>> ELSE lan[CHOOSE h \in set : TRUE]
    <3>1. up' = [m \in Modems |-> To(m, Passes(m))]
      BY DEF FromLan
    <3>2. \A m \in Modems : passes[m] = Passes(m)
      BY <2>1
    <3>3. \A m \in Modems : To(m, passes[m]) = To(m, Passes(m))
      <4> HIDE DEF Passes, To
      <4>1. QED
        BY <3>2
    <3>4. up' = [m \in Modems |-> To(m, passes[m])]
      <4> HIDE DEF Passes, To
      <4>1. QED
        BY <3>1, <3>3
    <3>5. QED
      BY <3>4
  <2>4. QED
    BY <2>2, <2>3
<1>2. ASSUME NEW m \in Modems PROVE Rising(m, up'[m], s)
  <2>1. Rising(m, up[m] \o own[m], s)
    BY RisingMore DEF Behinds
  <2>2. CASE passes[m] = {}
    <3>1. AllCarried(m, <<>>, s)
      BY DEF AllCarried
    <3>2. Rising(m, up[m] \o own[m] \o <<>>, s)
      BY <2>1, <3>1, RisingMore DEF Behinds
    <3>3. QED
      BY <1>1, <2>2, <3>2
  <2>3. CASE passes[m] # {}
    <3>1. PICK h \in passes[m] : h = CHOOSE g \in passes[m] : TRUE
      BY <2>3
    <3>2. h \in Behinds(m) /\ AllCarried(h, lan[h], s)
      BY <1>1, <3>1 DEF Behinds
    <3>3. Rising(m, up[m] \o own[m] \o lan[h], s)
      BY <2>1, <3>2, RisingMore
    <3>4. QED
      BY <1>1, <2>3, <3>1, <3>3
  <2>4. QED
    BY <2>2, <2>3
<1>3. QED
  BY <1>1, <1>2 DEF Rising

-----------------------------------------------------------------------------
(* A ping more makes none of what is on its way wrong.                      *)
Extends(s, t) ==
    \A h \in Hosts : \A i \in DOMAIN s[h] : i \in DOMAIN t[h] /\ t[h][i] = s[h][i]

LEMMA ExtendsRight ==
    ASSUME NEW s, NEW t, Extends(s, t)
    PROVE  /\ \A n, p : Sendable(n, p, s) => Sendable(n, p, t)
           /\ \A n, k : Sound(n, k, s) => Sound(n, k, t)
           /\ \A n, frames : AllCarried(n, frames, s) => AllCarried(n, frames, t)
           /\ \A m, frames : Rising(m, frames, s) => Rising(m, frames, t)
<1>1. \A n, p : Sendable(n, p, s) => Sendable(n, p, t)
  BY DEF Sendable, Asked, Extends
<1>2. \A n, k : Sound(n, k, s) => Sound(n, k, t)
  BY <1>1 DEF Sound
<1>3. \A n, f : Carried(n, f, s) => Carried(n, f, t)
  BY <1>1 DEF Carried
<1>4. \A n, frames : AllCarried(n, frames, s) => AllCarried(n, frames, t)
  BY <1>3 DEF AllCarried
<1>5. \A m, frames : Rising(m, frames, s) => Rising(m, frames, t)
  BY <1>3 DEF Rising, Rises
<1>6. QED
  BY <1>1, <1>2, <1>4, <1>5

LEMMA ExtendsLinks ==
    ASSUME NEW s, NEW t, Extends(s, t), Links(s)
    PROVE  Links(t)
BY ExtendsRight DEF Links, Sounds

-----------------------------------------------------------------------------
(* What the hosts have pinged and been answered.                            *)
Booked ==
    /\ sent \in [Hosts -> Seq(Names)]
    /\ {pings, lost} \subseteq [Hosts -> SUBSET Nat]
    /\ results \in [Hosts -> SUBSET (Nat \X Names)]
    /\ CountedOnce /\ AnswersOwn
    /\ \A h \in Kept : results[h] = {}

Served ==
    /\ operational \subseteq Modems /\ online \subseteq Modems
    /\ bridged \in [Modems -> SUBSET Hosts]
    /\ owner \in [Hosts -> Modems \union {NoOwner}]
    /\ faults \in 0..MaxFaults /\ spoiled \subseteq Hosts \X Nat

ForwardingInv == Links(sent) /\ Booked /\ Served

(* A downstream frame, at a modem or a host.                                *)
LEMMA DownRight ==
    ASSUME Links(sent), down # <<>>, NEW n \in Hosts \union Modems,
           NEW local, local \subseteq {n},
           NEW r, r = StackReceive(stack[n], n, local, Head(down))
    PROVE  Sound(n, r.stack, sent) /\ AllCarried(n, r.out, sent)
<1>1. PICK f : f = Head(down)
  OBVIOUS
<1>2. Carried(Cable, f, sent)
  BY <1>1, AllCarriedTail DEF Links
<1>3. ~IsArp(f) => f.ip.from \notin Kept
  BY <1>2 DEF Carried, Sendable, Far
<1>4. n \in Names /\ Cable \in Names /\ Cable \in OnLink[n] \ Kept
  BY TopologyAssumption, FarNames DEF Far
<1>5. Sound(n, stack[n], sent)
  BY <1>4 DEF Links, Sounds
<1>6. QED
  BY <1>1, <1>2, <1>3, <1>4, <1>5, ReceiveRight

LEMMA DeliverDownLinks ==
    ASSUME Links(sent), NEW deaf \in SUBSET Modems, DeliverDown(deaf)
    PROVE  Links(sent)'
<1>1. /\ down # <<>> /\ down' = Tail(down) /\ UNCHANGED <<toServer, toNsi, sent>>
  BY DEF DeliverDown
<1> DEFINE Result ==
       [n \in Hosts \union Modems |->
           IF \/ (n \in Modems /\ n \notin deaf /\ Accepts(n, Head(down)))
              \/ (n \in Hosts /\ Behind[n] \notin deaf /\ ToLan(Behind[n], Head(down)))
           THEN StackReceive(stack[n], n, LocalTo(n), Head(down))
           ELSE Sends(stack[n], <<>>)]
<1>2. stack' = [n \in Names |-> IF n \in DOMAIN Result THEN Result[n].stack ELSE stack[n]]
  BY Zenon DEF DeliverDown
<1>3. FromLan([h \in Hosts |-> Result[h].out], [m \in Modems |-> Result[m].out], deaf # {})
  BY Zenon DEF DeliverDown
<1>4. PICK result : result = Result
  OBVIOUS
<1>5. /\ DOMAIN result = Hosts \union Modems
      /\ \A n \in Hosts \union Modems :
             \/ result[n] = StackReceive(stack[n], n, LocalTo(n), Head(down))
             \/ result[n] = Sends(stack[n], <<>>)
  BY <1>4
<1> HIDE DEF Result
<1>6. /\ stack' = [n \in Names |-> IF n \in DOMAIN result THEN result[n].stack ELSE stack[n]]
      /\ FromLan([h \in Hosts |-> result[h].out], [m \in Modems |-> result[m].out], deaf # {})
  BY <1>2, <1>3, <1>4, Zenon
<1>7. ASSUME NEW n \in Hosts \union Modems
      PROVE  Sound(n, result[n].stack, sent) /\ AllCarried(n, result[n].out, sent)
  <2>1. PICK r : r = result[n]
    OBVIOUS
  <2>2. LocalTo(n) \subseteq {n}
    BY DEF LocalTo
  <2>3. CASE r = StackReceive(stack[n], n, LocalTo(n), Head(down))
    BY <1>1, <2>1, <2>2, <2>3, DownRight
  <2>4. CASE r = Sends(stack[n], <<>>)
    <3>1. r.stack = stack[n] /\ r.out = <<>>
      BY <2>4 DEF Sends
    <3>2. n \in Names
      BY FarNames
    <3>3. QED
      BY <2>1, <3>1, <3>2 DEF Links, Sounds, AllCarried
  <2>5. QED
    BY <1>5, <2>1, <2>3, <2>4
<1>8. DOMAIN result = Hosts \union Modems
  BY <1>5
<1>9. Sounds(stack', sent)
  <2>1. ASSUME NEW n \in Names PROVE Sound(n, stack'[n], sent)
    BY <1>6, <1>7, <1>8 DEF Links, Sounds
  <2>2. \A n \in Names : stack'[n] \in Stacks
    BY <2>1 DEF Sound
  <2>3. stack' \in [Names -> Stacks]
    BY <1>6, <2>2
  <2>4. QED
    BY <2>1, <2>3 DEF Sounds
<1>10. PICK lan : lan = [h \in Hosts |-> result[h].out]
  OBVIOUS
<1>11. PICK own : own = [m \in Modems |-> result[m].out]
  OBVIOUS
<1>12. /\ up' \in [Modems -> Seq(Frames \union RegAcks)]
      /\ \A m \in Modems : Rising(m, up'[m], sent)
  <2>1. FromLan(lan, own, deaf # {})
    BY <1>6, <1>10, <1>11
  <2>2. \A h \in Hosts : AllCarried(h, lan[h], sent)
    BY <1>7, <1>10
  <2>3. \A m \in Modems : AllCarried(m, own[m], sent)
    BY <1>7, <1>11
  <2>4. QED
    BY <2>1, <2>2, <2>3, FromLanRight DEF Links
<1>13. AllCarried(Cable, down', sent)
  BY <1>1, AllCarriedTail DEF Links
<1>14. QED
  BY <1>1, <1>9, <1>12, <1>13 DEF Links

(* A ping goes out, or waits for its hop.                                   *)
LEMMA PingLinks ==
    ASSUME Links(sent), Booked, NEW h \in Hosts, NEW target \in Names, Ping(h, target)
    PROVE  Links(sent)'
<1>1. PICK seq : seq = Len(sent[h]) + 1
  OBVIOUS
<1>2. PICK p : p = [kind |-> "echo", from |-> h, to |-> target, seq |-> seq]
  OBVIOUS
<1>3. PICK r : r = SendIp(stack[h], h, p, NoMac)
  OBVIOUS
<1>4. /\ sent' = [sent EXCEPT ![h] = Append(@, target)]
      /\ stack' = [stack EXCEPT ![h] = r.stack]
      /\ FromLan([Silent(Hosts) EXCEPT ![h] = r.out], Silent(Modems), FALSE)
      /\ UNCHANGED <<down, toServer, toNsi>>
  BY <1>1, <1>2, <1>3 DEF Ping
<1>5. sent \in [Hosts -> Seq(Names)] /\ h \in Names
  BY FarNames DEF Booked
<1>6. /\ sent'[h] \in Seq(Names) /\ Len(sent'[h]) = seq /\ sent'[h][seq] = target
      /\ \A i \in DOMAIN sent[h] : i \in DOMAIN sent'[h] /\ sent'[h][i] = sent[h][i]
      /\ \A g \in Hosts : g # h => sent'[g] = sent[g]
  <2>1. sent[h] \in Seq(Names) /\ sent'[h] = Append(sent[h], target)
    BY <1>4, <1>5
  <2>2. QED
    BY <1>1, <1>4, <1>5, <2>1
<1>7. Extends(sent, sent')
  BY <1>6 DEF Extends
<1>8. Links(sent')
  BY <1>7, ExtendsLinks
<1>9. Asked(p, sent')
  <2>1. seq \in Nat /\ seq \in DOMAIN sent'[h]
    BY <1>1, <1>5, <1>6
  <2>2. p \in Packets /\ p.kind = "echo" /\ p.from = h /\ p.to = target /\ p.seq = seq
    BY <1>2, <1>5, <2>1 DEF Packets
  <2>3. QED
    BY <1>6, <2>1, <2>2 DEF Asked
<1>10. Sendable(h, p, sent')
  <2>1. p.from = h /\ p.to = target
    BY <1>2
  <2>2. h \notin Far /\ Gateway[h] = Cable /\ Cable \in OnLink[h] /\ h \in OnLink[Cable]
    BY TopologyAssumption, FarNames
  <2>3. CASE target \in OnLink[h]
    <3>1. target = Cable \/ target \in Hosts \union Modems
      BY <2>3, TopologyAssumption
    <3>2. h \in OnLink[target]
      BY <2>2, <2>3, <3>1, TopologyAssumption
    <3>3. QED
      BY <1>9, <2>1, <2>2, <2>3, <3>2 DEF Sendable, NextHop, Far
  <2>4. CASE target \notin OnLink[h]
    BY <1>9, <2>1, <2>2, <2>4 DEF Sendable, NextHop, Far
  <2>5. QED
    BY <2>3, <2>4
<1>11. Sound(h, r.stack, sent') /\ AllCarried(h, r.out, sent')
  <2>1. Sound(h, stack[h], sent') /\ h \notin Far
    BY <1>5, <1>8, FarNames DEF Links, Sounds
  <2>2. QED
    BY <1>3, <1>5, <1>10, <2>1, SendIpRight
<1>12. Sounds(stack', sent')
  <2>1. r.stack \in Stacks
    BY <1>11 DEF Sound
  <2>2. stack \in [Names -> Stacks] /\ \A n \in Names : Sound(n, stack[n], sent')
    BY <1>8 DEF Links, Sounds
  <2>3. QED
    BY <1>4, <1>5, <1>11, <2>1, <2>2 DEF Sounds
<1>13. PICK lan : lan = [Silent(Hosts) EXCEPT ![h] = r.out]
  OBVIOUS
<1>14. \A g \in Hosts : AllCarried(g, lan[g], sent')
  <2>1. \A g \in Hosts : lan[g] = IF g = h THEN r.out ELSE <<>>
    BY <1>13 DEF Silent
  <2>2. \A g : AllCarried(g, <<>>, sent')
    BY DEF AllCarried
  <2>3. QED
    BY <1>11, <2>1, <2>2
<1>15. \A m \in Modems : AllCarried(m, Silent(Modems)[m], sent')
  BY DEF Silent, AllCarried
<1>16. /\ up' \in [Modems -> Seq(Frames \union RegAcks)]
       /\ \A m \in Modems : Rising(m, up'[m], sent')
  BY <1>4, <1>8, <1>13, <1>14, <1>15, FromLanRight DEF Links
<1>17. QED
  BY <1>4, <1>8, <1>12, <1>16 DEF Links

(* What the CMTS takes in from a modem is the modem's own, or comes from a  *)
(* host that the modem's configuration lets on the network.                 *)
LEMMA SendUpFrame ==
    ASSUME Links(sent), NEW m \in Modems, up[m] # <<>>
    PROVE  \/ Head(up[m]) = RegAck(m)
           \/ /\ "regAck" \notin DOMAIN Head(up[m])
              /\ Head(up[m]).src \in Behinds(m)
              /\ Carried(Head(up[m]).src, Head(up[m]), sent)
<1>1. PICK f : f = Head(up[m])
  OBVIOUS
<1>2. Rises(m, f, sent)
  BY <1>1, RisingTail DEF Links
<1>3. ASSUME NEW n \in Behinds(m), Carried(n, f, sent)
      PROVE  "regAck" \notin DOMAIN f /\ f.src \in Behinds(m) /\ Carried(f.src, f, sent)
  <2>1. f.src = n /\ "regAck" \notin DOMAIN f
    BY <1>3 DEF Carried
  <2>2. QED
    BY <1>3, <2>1
<1>4. QED
  BY <1>1, <1>2, <1>3 DEF Rises

LEMMA SendUpLinks ==
    ASSUME Links(sent), NEW m \in Modems, SendUp(m)
    PROVE  Links(sent)'
<1>1. PICK f : f = Head(up[m])
  OBVIOUS
<1>2. /\ up[m] # <<>> /\ up' = [up EXCEPT ![m] = Tail(@)]
      /\ UNCHANGED <<toNsi, sent>>
  BY DEF SendUp
<1>3. /\ up' \in [Modems -> Seq(Frames \union RegAcks)]
      /\ \A n \in Modems : Rising(n, up'[n], sent)
  <2>1. Rising(m, Tail(up[m]), sent)
    BY <1>2, RisingTail DEF Links
  <2>2. Tail(up[m]) \in Seq(Frames \union RegAcks)
    BY <2>1 DEF Rising
  <2>3. QED
    BY <1>2, <2>1, <2>2 DEF Links
<1>4. /\ Sounds(stack', sent) /\ AllCarried(Cable, down', sent)
      /\ AllCarried(Nsi, toServer', sent)
  <2>1. CASE "regAck" \notin DOMAIN f /\ Admits(m, f.src)
    <3>1. DOMAIN RegAck(m) = {"src", "regAck"}
      BY DEF RegAck
    <3>2. f.src \in Behinds(m) /\ Carried(f.src, f, sent)
      BY <1>1, <1>2, <2>1, <3>1, SendUpFrame
    <3>3. f.src \in Hosts \union Modems /\ f.src \notin Kept
      <4>1. CASE f.src = m
        BY <4>1, ForwardingAssumption DEF Kept
      <4>2. CASE f.src # m
        <5>1. f.src \in Hosts /\ Behind[f.src] = m /\ NetworkAccess[m]
          BY <2>1, <3>2, <4>2 DEF Admits, Behinds
        <5>2. QED
          BY <5>1 DEF Kept
      <4>3. QED
        BY <4>1, <4>2
    <3>4. TakeIn(Cable, f)
      BY <1>1, <2>1 DEF SendUp
    <3>5. f.src \in Neighbours(Cable) \ Kept
      BY <3>3 DEF Neighbours
    <3>6. QED
      BY <3>2, <3>4, <3>5, TakeInRight DEF Links
  <2>2. CASE ~("regAck" \notin DOMAIN f /\ Admits(m, f.src))
    <3>1. Ignore
      BY <1>1, <2>2 DEF SendUp
    <3>2. QED
      BY <3>1 DEF Ignore, Links
  <2>3. QED
    BY <2>1, <2>2
<1>5. QED
  BY <1>2, <1>3, <1>4 DEF Links

LEMMA ServerReceivesLinks == ASSUME Links(sent), ServerReceives PROVE Links(sent)'
<1>1. PICK f : f = Head(toServer)
  OBVIOUS
<1>2. PICK r : r = StackReceive(stack[Server], Server, {Server}, f)
  OBVIOUS
<1>3. /\ toServer # <<>> /\ toServer' = Tail(toServer)
      /\ stack' = [stack EXCEPT ![Server] = r.stack] /\ toNsi' = toNsi \o r.out
      /\ UNCHANGED <<up, down, sent>>
  BY <1>1, <1>2 DEF ServerReceives, net
<1>4. Carried(Nsi, f, sent) /\ AllCarried(Nsi, toServer', sent)
  BY <1>1, <1>3, AllCarriedTail DEF Links
<1>5. ~IsArp(f) => f.ip.from \notin Kept
  BY <1>4 DEF Carried, Sendable, Far
<1>6. /\ Server \in Names /\ Nsi \in Names /\ Nsi \in OnLink[Server] \ Kept
  BY TopologyAssumption, FarNames DEF Far
<1>7. Sound(Server, stack[Server], sent)
  BY <1>6 DEF Links, Sounds
<1>8. Sound(Server, r.stack, sent) /\ AllCarried(Server, r.out, sent)
  BY <1>2, <1>4, <1>5, <1>6, <1>7, ReceiveRight
<1>9. Sounds(stack', sent)
  <2>1. r.stack \in Stacks
    BY <1>8 DEF Sound
  <2>2. QED
    BY <1>3, <1>6, <1>8, <2>1 DEF Links, Sounds
<1>10. AllCarried(Server, toNsi', sent)
  BY <1>3, <1>8, AllCarriedMore DEF Links
<1>11. QED
  BY <1>3, <1>4, <1>9, <1>10 DEF Links

LEMMA ReceiveNsiLinks == ASSUME Links(sent), ReceiveNsi PROVE Links(sent)'
<1>1. PICK f : f = Head(toNsi)
  OBVIOUS
<1>2. /\ toNsi # <<>> /\ toNsi' = Tail(toNsi) /\ TakeIn(Nsi, f) /\ UNCHANGED <<up, sent>>
  BY <1>1 DEF ReceiveNsi
<1>3. Carried(Server, f, sent) /\ AllCarried(Server, toNsi', sent)
  BY <1>1, <1>2, AllCarriedTail DEF Links
<1>4. Server \in Neighbours(Nsi) \ Kept
  BY FarNames DEF Neighbours, Far
<1>5. QED
  BY <1>2, <1>3, <1>4, TakeInRight DEF Links

LEMMA LinksPreserved ==
    ASSUME Links(sent), Booked, [Next]_vars
    PROVE  Links(sent)'
<1>1. CASE UNCHANGED vars
  BY <1>1 DEF vars, net, Links
<1>2. ASSUME NEW m \in Modems, ComeUp(m) PROVE Links(sent)'
  <2>1. up' = [up EXCEPT ![m] = <<RegAck(m)>>] /\ UNCHANGED <<stack, down, toServer, toNsi, sent>>
    BY <1>2 DEF ComeUp
  <2>2. Rising(m, <<RegAck(m)>>, sent) /\ <<RegAck(m)>> \in Seq(Frames \union RegAcks)
    BY DEF Rising, Rises, RegAcks
  <2>3. QED
    BY <2>1, <2>2 DEF Links
<1>3. ASSUME NEW m \in Modems, Reinitialize(m) PROVE Links(sent)'
  <2>1. up' = [up EXCEPT ![m] = <<>>] /\ UNCHANGED <<stack, down, toServer, toNsi, sent>>
    BY <1>3 DEF Reinitialize
  <2>2. Rising(m, <<>>, sent) /\ <<>> \in Seq(Frames \union RegAcks)
    BY DEF Rising
  <2>3. QED
    BY <2>1, <2>2 DEF Links
<1>4. ASSUME NEW m \in Modems, LoseUp(m) PROVE Links(sent)'
  <2>1. /\ up[m] # <<>> /\ up' = [up EXCEPT ![m] = Tail(@)]
        /\ UNCHANGED <<stack, down, toServer, toNsi, sent>>
    BY <1>4 DEF LoseUp
  <2>2. Rising(m, Tail(up[m]), sent) /\ Tail(up[m]) \in Seq(Frames \union RegAcks)
    BY <2>1, RisingTail DEF Links, Rising
  <2>3. QED
    BY <2>1, <2>2 DEF Links
<1>5. ASSUME NEW m \in Modems, SendUp(m) PROVE Links(sent)'
  BY <1>5, SendUpLinks
<1>6. ASSUME NEW deaf \in SUBSET Modems, DeliverDown(deaf) PROVE Links(sent)'
  BY <1>6, DeliverDownLinks
<1>7. CASE ServerReceives
  BY <1>7, ServerReceivesLinks
<1>8. CASE ReceiveNsi
  BY <1>8, ReceiveNsiLinks
<1>9. ASSUME NEW h \in Hosts, NEW t \in Names, Ping(h, t) PROVE Links(sent)'
  BY <1>9, PingLinks
<1>10. ASSUME NEW h \in Hosts, NEW i \in DOMAIN sent[h], PingTimeout(h, i) PROVE Links(sent)'
  BY <1>10 DEF PingTimeout, net, Links
<1>11. QED
  BY <1>1, <1>2, <1>3, <1>4, <1>5, <1>6, <1>7, <1>8, <1>9, <1>10 DEF Next, Hop

(* The same of one host, with its sets side by side.                        *)
Accounts(h, p, answers, l, s) ==
    /\ p \subseteq Nat /\ l \subseteq Nat /\ answers \subseteq Nat \X Names
    /\ {r[1] : r \in answers} \union l \union p = DOMAIN s[h]
    /\ {r[1] : r \in answers} \intersect l = {}
    /\ {r[1] : r \in answers} \intersect p = {}
    /\ l \intersect p = {}
    /\ \A r \in answers : s[h][r[1]] = r[2]
    /\ h \in Kept => answers = {}

LEMMA AccountsOfBooked ==
    ASSUME Booked
    PROVE  /\ pings = [h \in Hosts |-> pings[h]] /\ lost = [h \in Hosts |-> lost[h]]
           /\ results = [h \in Hosts |-> results[h]]
           /\ \A h \in Hosts : Accounts(h, pings[h], results[h], lost[h], sent)
<1>1. /\ pings \in [Hosts -> SUBSET Nat] /\ lost \in [Hosts -> SUBSET Nat]
      /\ results \in [Hosts -> SUBSET (Nat \X Names)]
  BY DEF Booked
<1>2. ASSUME NEW h \in Hosts PROVE Accounts(h, pings[h], results[h], lost[h], sent)
  <2>1. /\ Answered(h) \union lost[h] \union pings[h] = DOMAIN sent[h]
        /\ {Answered(h) \intersect lost[h], Answered(h) \intersect pings[h],
            lost[h] \intersect pings[h]} = {{}}
    BY DEF Booked, CountedOnce
  <2>2. /\ Answered(h) \intersect lost[h] = {} /\ Answered(h) \intersect pings[h] = {}
        /\ lost[h] \intersect pings[h] = {}
    BY <2>1
  <2>3. \A r \in results[h] : sent[h][r[1]] = r[2]
    BY DEF Booked, AnswersOwn
  <2>4. h \in Kept => results[h] = {}
    BY DEF Booked
  <2>5. /\ {r[1] : r \in results[h]} \union lost[h] \union pings[h] = DOMAIN sent[h]
        /\ {r[1] : r \in results[h]} \intersect lost[h] = {}
        /\ {r[1] : r \in results[h]} \intersect pings[h] = {}
    BY <2>1, <2>2, Zenon DEF Answered
  <2>6. pings[h] \subseteq Nat /\ lost[h] \subseteq Nat /\ results[h] \subseteq Nat \X Names
    BY <1>1
  <2>7. QED
    BY <2>2, <2>3, <2>4, <2>5, <2>6, Zenon DEF Accounts
<1>3. QED
  BY <1>1, <1>2

LEMMA BookedOfAccounts ==
    ASSUME sent' \in [Hosts -> Seq(Names)],
           pings' = [h \in Hosts |-> pings'[h]], lost' = [h \in Hosts |-> lost'[h]],
           results' = [h \in Hosts |-> results'[h]],
           \A h \in Hosts : Accounts(h, pings'[h], results'[h], lost'[h], sent')
    PROVE  Booked'
<1>1. \A h \in Hosts : pings'[h] \subseteq Nat /\ lost'[h] \subseteq Nat
                       /\ results'[h] \subseteq Nat \X Names
  BY DEF Accounts
<1>2. /\ pings' \in [Hosts -> SUBSET Nat] /\ lost' \in [Hosts -> SUBSET Nat]
      /\ results' \in [Hosts -> SUBSET (Nat \X Names)]
  BY <1>1
<1>3. CountedOnce'
  <2>1. ASSUME NEW h \in Hosts
        PROVE  /\ Answered(h)' \union lost'[h] \union pings'[h] = DOMAIN sent'[h]
               /\ Answered(h)' \intersect lost'[h] = {} /\ Answered(h)' \intersect pings'[h] = {}
               /\ lost'[h] \intersect pings'[h] = {}
    BY DEF Accounts, Answered
  <2>2. QED
    BY <2>1 DEF CountedOnce
<1>4. Kept \subseteq Hosts
  BY DEF Kept
<1>5. AnswersOwn' /\ \A h \in Kept : results'[h] = {}
  BY <1>4 DEF Accounts, AnswersOwn
<1>6. QED
  BY <1>2, <1>3, <1>5 DEF Booked

(* A ping is asked, given up, or answered.                                  *)
LEMMA AccountsAsked ==
    ASSUME NEW h \in Hosts, NEW p, NEW a, NEW l, NEW s, Accounts(h, p, a, l, s), s[h] \in Seq(Names),
           NEW t, NEW target \in Names, t[h] = Append(s[h], target)
    PROVE  Accounts(h, p \union {Len(s[h]) + 1}, a, l, t)
<1>1. PICK answered : answered = {r[1] : r \in a}
  OBVIOUS
<1>2. PICK seq : seq = Len(s[h]) + 1
  OBVIOUS
<1>3. /\ seq \in Nat /\ seq \notin DOMAIN s[h] /\ DOMAIN t[h] = DOMAIN s[h] \union {seq}
      /\ \A i \in DOMAIN s[h] : t[h][i] = s[h][i]
  BY <1>2
<1>4. /\ answered \union l \union p = DOMAIN s[h] /\ answered \intersect l = {}
      /\ answered \intersect p = {} /\ l \intersect p = {}
  BY <1>1 DEF Accounts
<1>5. /\ answered \union l \union (p \union {seq}) = DOMAIN t[h]
      /\ answered \intersect (p \union {seq}) = {} /\ l \intersect (p \union {seq}) = {}
  BY <1>3, <1>4
<1>6. ASSUME NEW r \in a PROVE t[h][r[1]] = r[2]
  <2>1. r[1] \in answered
    BY <1>1
  <2>2. QED
    BY <1>3, <1>4, <2>1 DEF Accounts
<1>7. p \union {seq} \subseteq Nat /\ l \subseteq Nat /\ a \subseteq Nat \X Names
  BY <1>3 DEF Accounts
<1>8. h \in Kept => a = {}
  BY DEF Accounts
<1>9. QED
  BY <1>1, <1>2, <1>4, <1>5, <1>6, <1>7, <1>8, Zenon DEF Accounts

LEMMA AccountsGivenUp ==
    ASSUME NEW h, NEW p, NEW a, NEW l, NEW s, Accounts(h, p, a, l, s), NEW seq \in p
    PROVE  Accounts(h, p \ {seq}, a, l \union {seq}, s)
<1>1. PICK answered : answered = {r[1] : r \in a}
  OBVIOUS
<1>2. /\ answered \union l \union p = DOMAIN s[h] /\ answered \intersect l = {}
      /\ answered \intersect p = {} /\ l \intersect p = {}
  BY <1>1 DEF Accounts
<1>3. /\ answered \union (l \union {seq}) \union (p \ {seq}) = DOMAIN s[h]
      /\ answered \intersect (l \union {seq}) = {}
      /\ answered \intersect (p \ {seq}) = {} /\ (l \union {seq}) \intersect (p \ {seq}) = {}
  BY <1>2
<1>4. p \ {seq} \subseteq Nat /\ l \union {seq} \subseteq Nat
  BY DEF Accounts
<1>5. QED
  BY <1>1, <1>3, <1>4, Zenon DEF Accounts

LEMMA AccountsAnswered ==
    ASSUME NEW h \in Hosts \ Kept, NEW p, NEW a, NEW l, NEW s, Accounts(h, p, a, l, s),
           NEW seq \in p, NEW from \in Names, s[h][seq] = from
    PROVE  Accounts(h, p \ {seq}, a \union {<<seq, from>>}, l, s)
<1>1. PICK answered : answered = {r[1] : r \in a}
  OBVIOUS
<1>2. /\ answered \union l \union p = DOMAIN s[h] /\ answered \intersect l = {}
      /\ answered \intersect p = {} /\ l \intersect p = {}
  BY <1>1 DEF Accounts
<1>3. {r[1] : r \in a \union {<<seq, from>>}} = answered \union {seq}
  <2>1. <<seq, from>>[1] = seq
    OBVIOUS
  <2>2. QED
    BY <1>1, <2>1, Zenon
<1>4. /\ (answered \union {seq}) \union l \union (p \ {seq}) = DOMAIN s[h]
      /\ (answered \union {seq}) \intersect l = {}
      /\ (answered \union {seq}) \intersect (p \ {seq}) = {} /\ l \intersect (p \ {seq}) = {}
  BY <1>2
<1>5. p \ {seq} \subseteq Nat /\ l \subseteq Nat /\ a \union {<<seq, from>>} \subseteq Nat \X Names
  BY DEF Accounts
<1>6. \A r \in a \union {<<seq, from>>} : s[h][r[1]] = r[2]
  BY DEF Accounts
<1>7. QED
  BY <1>3, <1>4, <1>5, <1>6 DEF Accounts

LEMMA PingBooked ==
    ASSUME Booked, NEW h \in Hosts, NEW target \in Names, Ping(h, target)
    PROVE  Booked'
<1>1. /\ sent' = [sent EXCEPT ![h] = Append(@, target)]
      /\ pings' = [pings EXCEPT ![h] = @ \union {Len(sent[h]) + 1}]
      /\ UNCHANGED <<results, lost>>
  BY DEF Ping
<1>2. sent \in [Hosts -> Seq(Names)]
  BY DEF Booked
<1>3. sent' \in [Hosts -> Seq(Names)] /\ sent'[h] = Append(sent[h], target)
  <2>1. sent[h] \in Seq(Names) /\ Append(sent[h], target) \in Seq(Names)
    BY <1>2
  <2>2. QED
    BY <1>1, <1>2, <2>1
<1>4. /\ pings = [g \in Hosts |-> pings[g]] /\ lost = [g \in Hosts |-> lost[g]]
      /\ results = [g \in Hosts |-> results[g]]
      /\ \A g \in Hosts : Accounts(g, pings[g], results[g], lost[g], sent)
  BY AccountsOfBooked
<1>5. Accounts(h, pings[h] \union {Len(sent[h]) + 1}, results[h], lost[h], sent')
  BY <1>2, <1>3, <1>4, AccountsAsked
<1>6. \A g \in Hosts : Accounts(g, pings'[g], results'[g], lost'[g], sent')
  <2>1. pings'[h] = pings[h] \union {Len(sent[h]) + 1} /\ \A g \in Hosts : g # h => pings'[g] = pings[g]
    BY <1>1, <1>4
  <2>2. ASSUME NEW g \in Hosts, g # h PROVE Accounts(g, pings'[g], results'[g], lost'[g], sent')
    <3>1. sent'[g] = sent[g] /\ pings'[g] = pings[g] /\ results' = results /\ lost' = lost
      BY <1>1, <1>2, <2>1, <2>2
    <3>2. Accounts(g, pings[g], results[g], lost[g], sent)
      BY <1>4
    <3>3. QED
      BY <3>1, <3>2, Zenon DEF Accounts
  <2>3. Accounts(h, pings'[h], results'[h], lost'[h], sent')
    BY <1>1, <1>5, <2>1
  <2>4. QED
    BY <2>2, <2>3
<1>7. /\ pings' = [g \in Hosts |-> pings'[g]] /\ lost' = [g \in Hosts |-> lost'[g]]
      /\ results' = [g \in Hosts |-> results'[g]]
  BY <1>1, <1>4
<1>8. QED
  BY <1>3, <1>6, <1>7, BookedOfAccounts

LEMMA PingTimeoutBooked ==
    ASSUME Booked, NEW h \in Hosts, NEW seq, PingTimeout(h, seq)
    PROVE  Booked'
<1>1. /\ seq \in pings[h]
      /\ pings' = [pings EXCEPT ![h] = @ \ {seq}]
      /\ lost' = [lost EXCEPT ![h] = @ \union {seq}]
      /\ UNCHANGED <<sent, results>>
  BY DEF PingTimeout
<1>2. sent \in [Hosts -> Seq(Names)]
  BY DEF Booked
<1>3. /\ pings = [g \in Hosts |-> pings[g]] /\ lost = [g \in Hosts |-> lost[g]]
      /\ results = [g \in Hosts |-> results[g]]
      /\ \A g \in Hosts : Accounts(g, pings[g], results[g], lost[g], sent)
  BY AccountsOfBooked
<1>4. Accounts(h, pings[h] \ {seq}, results[h], lost[h] \union {seq}, sent)
  BY <1>1, <1>3, AccountsGivenUp
<1>5. /\ pings' = [g \in Hosts |-> pings'[g]] /\ lost' = [g \in Hosts |-> lost'[g]]
      /\ results' = [g \in Hosts |-> results'[g]]
      /\ pings'[h] = pings[h] \ {seq} /\ lost'[h] = lost[h] \union {seq}
      /\ \A g \in Hosts : g # h => pings'[g] = pings[g] /\ lost'[g] = lost[g]
  BY <1>1, <1>3
<1>6. \A g \in Hosts : Accounts(g, pings'[g], results'[g], lost'[g], sent')
  BY <1>1, <1>3, <1>4, <1>5
<1>7. QED
  BY <1>1, <1>2, <1>5, <1>6, BookedOfAccounts

(* What a host counts is the answer to its own ping, and a host that is     *)
(* kept out gets none.                                                      *)
LEMMA CountsRight ==
    ASSUME Links(sent), down # <<>>, NEW h \in Hosts, Counts(h, Head(down))
    PROVE  /\ h \notin Kept
           /\ Head(down).ip.seq \in pings[h]
           /\ Head(down).ip.from \in Names
           /\ sent[h][Head(down).ip.seq] = Head(down).ip.from
<1>1. PICK f : f = Head(down)
  OBVIOUS
<1>2. Carried(Cable, f, sent)
  BY <1>1, AllCarriedTail DEF Links
<1>3. f.dst \in {h, Everyone} /\ ~IsArp(f) /\ f.ip.kind = "reply" /\ f.ip.seq \in pings[h]
  BY <1>1 DEF Counts, Accepts
<1>4. /\ Asked(f.ip, sent) /\ f.dst = NextHop(Cable, f.ip.to) /\ f.dst \notin Kept
  BY <1>2, <1>3 DEF Carried, Sendable, Far
<1>5. f.ip.to \in Hosts /\ f.ip.from \in Names /\ sent[f.ip.to][f.ip.seq] = f.ip.from
  BY <1>3, <1>4 DEF Asked, Packets
<1>6. f.dst = f.ip.to
  BY <1>4, <1>5, TopologyAssumption DEF NextHop
<1>7. f.ip.to = h
  BY <1>3, <1>5, <1>6, StackAssumption, FarNames
<1>8. QED
  BY <1>1, <1>3, <1>4, <1>5, <1>6, <1>7

LEMMA DeliverDownBooked ==
    ASSUME Links(sent), Booked, NEW deaf \in SUBSET Modems, DeliverDown(deaf)
    PROVE  Booked'
<1> DEFINE Counting == {h \in Hosts : /\ Behind[h] \notin deaf /\ ToLan(Behind[h], Head(down))
                                      /\ Counts(h, Head(down))}
<1>1. down # <<>> /\ UNCHANGED <<sent, lost>>
  BY DEF DeliverDown
<1>2. pings' = [h \in Hosts |-> IF h \in Counting THEN pings[h] \ {Head(down).ip.seq} ELSE pings[h]]
  BY Zenon DEF DeliverDown
<1>3. results' = [h \in Hosts |->
          IF h \in Counting
          THEN results[h] \union {<<Head(down).ip.seq, Head(down).ip.from>>}
          ELSE results[h]]
  BY Zenon DEF DeliverDown
<1>4. PICK counts : counts = Counting
  OBVIOUS
<1>5. \A h \in counts : h \in Hosts /\ Counts(h, Head(down))
  BY <1>4
<1> HIDE DEF Counting
<1>6. PICK seq : seq = Head(down).ip.seq
  OBVIOUS
<1>7. PICK from : from = Head(down).ip.from
  OBVIOUS
<1>8. /\ pings' = [h \in Hosts |-> IF h \in counts THEN pings[h] \ {seq} ELSE pings[h]]
      /\ results' = [h \in Hosts |-> IF h \in counts THEN results[h] \union {<<seq, from>>}
                                     ELSE results[h]]
  BY <1>2, <1>3, <1>4, <1>6, <1>7, Zenon
<1>9. /\ lost = [g \in Hosts |-> lost[g]]
      /\ \A g \in Hosts : Accounts(g, pings[g], results[g], lost[g], sent)
  BY AccountsOfBooked
<1>10. ASSUME NEW h \in Hosts PROVE Accounts(h, pings'[h], results'[h], lost'[h], sent')
  <2>1. CASE h \in counts
    <3>1. h \notin Kept /\ seq \in pings[h] /\ from \in Names /\ sent[h][seq] = from
      BY <1>1, <1>5, <1>6, <1>7, <2>1, CountsRight
    <3>2. Accounts(h, pings[h] \ {seq}, results[h] \union {<<seq, from>>}, lost[h], sent)
      BY <1>9, <3>1, AccountsAnswered
    <3>3. QED
      BY <1>1, <1>8, <2>1, <3>2
  <2>2. CASE h \notin counts
    BY <1>1, <1>8, <1>9, <2>2
  <2>3. QED
    BY <2>1, <2>2
<1>11. /\ pings' = [h \in Hosts |-> pings'[h]] /\ lost' = [h \in Hosts |-> lost'[h]]
       /\ results' = [h \in Hosts |-> results'[h]] /\ sent' \in [Hosts -> Seq(Names)]
  <2>1. sent' \in [Hosts -> Seq(Names)]
    BY <1>1 DEF Booked
  <2>2. QED
    BY <1>1, <1>8, <1>9, <2>1
<1>12. QED
  BY <1>10, <1>11, BookedOfAccounts

LEMMA BookedPreserved ==
    ASSUME Links(sent), Booked, [Next]_vars
    PROVE  Booked'
<1>1. ASSUME UNCHANGED <<sent, pings, results, lost>> PROVE Booked'
  <2>1. sent' \in [Hosts -> Seq(Names)]
    BY <1>1 DEF Booked
  <2>2. QED
    BY <1>1, <2>1, AccountsOfBooked, BookedOfAccounts
<1>2. CASE UNCHANGED vars
  BY <1>1, <1>2 DEF vars
<1>3. ASSUME NEW m \in Modems, ComeUp(m) \/ Reinitialize(m) \/ LoseUp(m) \/ SendUp(m) PROVE Booked'
  BY <1>1, <1>3 DEF ComeUp, Reinitialize, LoseUp, SendUp
<1>4. CASE ServerReceives \/ ReceiveNsi
  BY <1>1, <1>4 DEF ServerReceives, ReceiveNsi
<1>5. ASSUME NEW deaf \in SUBSET Modems, DeliverDown(deaf) PROVE Booked'
  BY <1>5, DeliverDownBooked
<1>6. ASSUME NEW h \in Hosts, NEW t \in Names, Ping(h, t) PROVE Booked'
  BY <1>6, PingBooked
<1>7. ASSUME NEW h \in Hosts, NEW i \in DOMAIN sent[h], PingTimeout(h, i) PROVE Booked'
  BY <1>7, PingTimeoutBooked
<1>8. QED
  BY <1>2, <1>3, <1>4, <1>5, <1>6, <1>7 DEF Next, Hop

(* Types of the rest: who is in service, learned, and spoiled.              *)
LEMMA SpoiledType ==
    ASSUME spoiled \subseteq Hosts \X Nat, Booked', NEW lose, Spoils(lose)
    PROVE  spoiled' \subseteq Hosts \X Nat
<1>1. pings' \in [Hosts -> SUBSET Nat]
  BY DEF Booked
<1>2. Waiting(pings') \subseteq Hosts \X Nat
  BY <1>1 DEF Waiting
<1>3. QED
  BY <1>2 DEF Spoils

LEMMA BridgedType ==
    ASSUME bridged \in [Modems -> SUBSET Hosts], spoiled \subseteq Hosts \X Nat, Booked',
           NEW lan, NEW own, NEW lose, FromLan(lan, own, lose)
    PROVE  bridged' \in [Modems -> SUBSET Hosts] /\ spoiled' \subseteq Hosts \X Nat
<1>1. bridged' = [m \in Modems |-> bridged[m] \union
                     {h \in {g \in Hosts : lan[g] # <<>>} : Behind[h] = m /\ HasRoom(m, h)}]
  BY DEF FromLan
<1>2. PICK spoils : Spoils(spoils)
  BY DEF FromLan
<1>3. QED
  BY <1>1, <1>2, SpoiledType

LEMMA FaultType ==
    ASSUME faults \in 0..MaxFaults, Fault \/ UNCHANGED faults
    PROVE  faults' \in 0..MaxFaults
BY ForwardingAssumption DEF Fault

LEMMA SendUpServed ==
    ASSUME Links(sent), Served, Booked', NEW m \in Modems, SendUp(m)
    PROVE  Served'
<1>1. PICK f : f = Head(up[m])
  OBVIOUS
<1>2. PICK new \in BOOLEAN :
          new = ("regAck" \notin DOMAIN f /\ f.src # m /\ owner[f.src] = NoOwner /\ MayLearn(m))
  OBVIOUS
<1>3. /\ up[m] # <<>> /\ UNCHANGED <<operational, bridged, faults>>
      /\ online' = online \/ online' = online \union {m}
      /\ owner' = IF new THEN [owner EXCEPT ![f.src] = m] ELSE owner
      /\ Spoils("regAck" \notin DOMAIN f /\ ~Admits(m, f.src))
  BY <1>1, <1>2 DEF SendUp
<1>4. new => f.src \in Hosts
  <2>1. DOMAIN RegAck(m) = {"src", "regAck"}
    BY DEF RegAck
  <2>2. QED
    BY <1>1, <1>2, <1>3, <2>1, SendUpFrame DEF Behinds
<1>5. owner' \in [Hosts -> Modems \union {NoOwner}]
  BY <1>2, <1>3, <1>4 DEF Served
<1>6. spoiled' \subseteq Hosts \X Nat
  BY <1>3, SpoiledType DEF Served
<1>7. QED
  BY <1>3, <1>5, <1>6 DEF Served

LEMMA ServedPreserved ==
    ASSUME Links(sent), Booked, Served, [Next]_vars
    PROVE  Served'
<1>1. Booked'
  BY BookedPreserved
<1>2. ASSUME NEW m \in Modems, ComeUp(m) PROVE Served'
  BY <1>2 DEF ComeUp, Served
<1>3. ASSUME NEW m \in Modems, Reinitialize(m) \/ LoseUp(m) PROVE Served'
  <2>1. Spoils(TRUE) /\ Fault /\ UNCHANGED <<online, bridged, owner>> /\ operational' \subseteq operational
    BY <1>3 DEF Reinitialize, LoseUp, service
  <2>2. QED
    BY <1>1, <2>1, SpoiledType, FaultType DEF Served
<1>4. ASSUME NEW m \in Modems, SendUp(m) PROVE Served'
  BY <1>1, <1>4, SendUpServed
<1>5. ASSUME NEW deaf \in SUBSET Modems, DeliverDown(deaf) PROVE Served'
  <2>1. /\ UNCHANGED <<operational, online, owner>>
        /\ Fault \/ UNCHANGED faults
        /\ \E lan, own : FromLan(lan, own, deaf # {})
    BY <1>5 DEF DeliverDown
  <2>2. QED
    BY <1>1, <2>1, BridgedType, FaultType DEF Served
<1>6. ASSUME NEW h \in Hosts, NEW t \in Names, Ping(h, t) PROVE Served'
  <2>1. UNCHANGED <<operational, online, owner, faults>> /\ \E lan, own : FromLan(lan, own, FALSE)
    BY <1>6 DEF Ping
  <2>2. QED
    BY <1>1, <2>1, BridgedType DEF Served
<1>7. CASE ServerReceives \/ ReceiveNsi \/ \E h \in Hosts : \E i \in DOMAIN sent[h] : PingTimeout(h, i)
  BY <1>7 DEF ServerReceives, ReceiveNsi, PingTimeout, service, Served
<1>8. CASE UNCHANGED vars
  BY <1>8 DEF vars, service, Served
<1>9. QED
  BY <1>2, <1>3, <1>4, <1>5, <1>6, <1>7, <1>8 DEF Next, Hop

-----------------------------------------------------------------------------
(* The theorems.                                                            *)
LEMMA InitForwarding == Init => ForwardingInv
<1> SUFFICES ASSUME Init PROVE ForwardingInv
  OBVIOUS
<1>1. NewStack \in Stacks
  BY DEF NewStack, Stacks
<1>2. Sounds(stack, sent)
  <2>1. ASSUME NEW n \in Names PROVE Sound(n, NewStack, sent)
    <3>1. \A x \in Names : NewStack.cache[x] = NoMac /\ NewStack.waiting[x] = <<>>
      BY DEF NewStack
    <3>2. \A h \in Kept : NewStack.cache[h] = NoMac
      BY <3>1, FarNames
    <3>3. QED
      BY <1>1, <3>1, <3>2 DEF Sound
  <2>2. stack = [n \in Names |-> NewStack]
    BY DEF Init
  <2>3. QED
    BY <1>1, <2>1, <2>2 DEF Sounds
<1>3. Links(sent)
  <2>1. /\ up = [m \in Modems |-> <<>>] /\ down = <<>> /\ toServer = <<>> /\ toNsi = <<>>
    BY DEF Init
  <2>2. \A n : AllCarried(n, <<>>, sent) /\ Rising(n, <<>>, sent)
    BY DEF AllCarried, Rising
  <2>3. QED
    BY <1>2, <2>1, <2>2 DEF Links
<1>4. Booked
  <2>1. /\ sent = [h \in Hosts |-> <<>>] /\ pings = [h \in Hosts |-> {}]
        /\ results = [h \in Hosts |-> {}] /\ lost = [h \in Hosts |-> {}]
    BY DEF Init
  <2>2. CountedOnce
    BY <2>1 DEF CountedOnce, Answered
  <2>3. AnswersOwn /\ \A h \in Kept : results[h] = {}
    BY <2>1 DEF AnswersOwn, Kept
  <2>4. /\ sent \in [Hosts -> Seq(Names)] /\ {pings, lost} \subseteq [Hosts -> SUBSET Nat]
        /\ results \in [Hosts -> SUBSET (Nat \X Names)]
    <3>1. <<>> \in Seq(Names)
      OBVIOUS
    <3>2. pings \in [Hosts -> SUBSET Nat] /\ lost = pings /\ sent \in [Hosts -> Seq(Names)]
      BY <2>1, <3>1
    <3>3. results \in [Hosts -> SUBSET (Nat \X Names)]
      BY <2>1
    <3>4. QED
      BY <3>2, <3>3
  <2>5. QED
    BY <2>2, <2>3, <2>4, Zenon DEF Booked
<1>5. Served
  BY ForwardingAssumption DEF Init, Served
<1>6. QED
  BY <1>3, <1>4, <1>5 DEF ForwardingInv

(* Every frame on its way was sent by a neighbour to where its packet has   *)
(* to go, every packet is a ping that was sent or the answer to one, every  *)
(* cache names the next hop, every ping is accounted for once, and the      *)
(* interfaces beyond the modems know nothing of a host that is kept out.    *)
THEOREM ForwardingInvCorrect == Spec => []ForwardingInv
<1>1. Init => ForwardingInv
  BY InitForwarding
<1>2. ForwardingInv /\ [Next]_vars => ForwardingInv'
  BY LinksPreserved, BookedPreserved, ServedPreserved DEF ForwardingInv
<1>3. QED
  BY <1>1, <1>2, PTL DEF Spec

LEMMA ForwardingTypes == ForwardingInv => TypeOK
<1> SUFFICES ASSUME ForwardingInv PROVE TypeOK
  OBVIOUS
<1>1. Links(sent) /\ Booked /\ Served
  BY DEF ForwardingInv
<1>2. stack \in [Names -> Stacks]
  BY <1>1 DEF Links, Sounds
<1>3. up \in [Modems -> Seq(Frames \union {RegAck(m) : m \in Modems})]
  BY <1>1, Zenon DEF Links, RegAcks
<1>4. {down, toServer, toNsi} \subseteq Seq(Frames)
  BY <1>1 DEF Links, AllCarried
<1>5. QED
  BY <1>1, <1>2, <1>3, <1>4, Zenon DEF Booked, Served, TypeOK

(* Every frame goes to the right neighbour and every answer to its own      *)
(* ping: what interfaces learn from frames that were not meant for them,    *)
(* and from packets that were routed, is where they would have to send      *)
(* (stack.py:195); a ping's timer and a late answer never both count        *)
(* (cpe.py:106); and although modems flood their LAN and a host looks at    *)
(* neither address nor identifier (cm.py:1267, cpe.py:113), what it counts  *)
(* comes from what it pinged under that number.                             *)
THEOREM DeliveredRightCorrect == Spec => []DeliveredRight
<1>1. ForwardingInv => DeliveredRight
  <2> SUFFICES ASSUME ForwardingInv PROVE DeliveredRight
    OBVIOUS
  <2>1. \A n \in Names : Sound(n, stack[n], sent)
    BY DEF ForwardingInv, Links, Sounds
  <2>2. CachesRight
    BY <2>1 DEF CachesRight, Sound, NextHop
  <2>3. CountedOnce /\ AnswersOwn
    BY DEF ForwardingInv, Booked
  <2>4. QED
    BY <2>2, <2>3, ForwardingTypes DEF DeliveredRight
<1>2. QED
  BY <1>1, ForwardingInvCorrect, PTL

(* Nothing a host sends through a modem without network access gets past    *)
(* the CMTS (cmts.py:789): whoever owns the host in the database, however   *)
(* modems come and go, no interface beyond the modem ever learns its MAC,   *)
(* and it never counts an answer.                                           *)
THEOREM KeptOutCorrect == Spec => []KeptOut
<1>1. ForwardingInv => KeptOut
  <2> SUFFICES ASSUME ForwardingInv, NEW h \in Kept
               PROVE  /\ \A n \in Far : stack[n].cache[h] = NoMac
                      /\ results[h] = {}
    BY DEF KeptOut, Kept, Far
  <2>1. \A n \in Far : Sound(n, stack[n], sent) /\ n # h
    BY FarNames DEF ForwardingInv, Links, Sounds
  <2>2. QED
    BY <2>1 DEF ForwardingInv, Booked, Sound
<1>2. QED
  BY <1>1, ForwardingInvCorrect, PTL

=============================================================================
