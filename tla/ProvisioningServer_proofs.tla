---------------------- MODULE ProvisioningServer_proofs ----------------------
(***************************************************************************)
(* Proofs about the DHCP pools and the TFTP transfer, for every number of  *)
(* clients, addresses, ports, losses and resets and every set of files.    *)
(***************************************************************************)
EXTENDS ProvisioningServer, SequenceTheorems, WellFoundedInduction, TLAPS

(* Every set of natural numbers that is not empty has a least element.      *)
LEMMA LeastElement ==
    ASSUME NEW T \in SUBSET Nat, T # {}
    PROVE  \E x \in T : \A y \in T : x <= y
<1>1. PICK x \in T : \A y \in T : ~ (<<y, x>> \in OpToRel(<, Nat))
  BY WFMin, NatLessThanWellFounded, Zenon
<1>2. ASSUME NEW y \in T PROVE ~ (y < x)
  BY <1>1, Zenon DEF OpToRel
<1>3. QED
  BY <1>2

(* Frames join a queue at its end and leave it at its head.                 *)
LEMMA QueueOfFrames ==
    ASSUME NEW S, NEW q \in Seq(S)
    PROVE  /\ \A x \in S : q \o <<x>> \in Seq(S) /\ Append(q, x) \in Seq(S)
           /\ q \o <<>> = q
           /\ q # <<>> => Head(q) \in S /\ Tail(q) \in Seq(S)
<1>1. \A x \in S : <<x>> \in Seq(S)
  OBVIOUS
<1>2. \A x \in S : q \o <<x>> \in Seq(S)
  BY <1>1, ConcatProperties
<1>3. QED
  BY <1>2, ConcatEmptySeq, HeadTailProperties

-----------------------------------------------------------------------------
(* The piece of a file that block i carries, and the blocks that exist: the *)
(* server sends one only when the one before it did not reach the end.      *)
Piece(size, i) == <<(i - 1) * BlockSize, Smaller(BlockSize, size - (i - 1) * BlockSize)>>
Sent(size) == {i \in Nat \ {0} : (i - 1) * BlockSize <= size}

(* What may be on its way from a client and to it: a TFTP frame only once   *)
(* the client has a port, an address only once it is leased to the client,  *)
(* and in a DATA frame what the file has at that block.                     *)
UpFrames(port) ==
    [kind : {"DISCOVER", "REQUEST"}, current : BOOLEAN, host : 0 .. Hosts]
    \union [kind : {"TOD"}]
    \union {f \in [kind : {"RRQ", "ACK"}, port : Ports, block : Nat] : port \in Ports}

DownFrames(port, lease, size) ==
    {f \in [kind : {"OFFER", "DHCPACK"}, current : BOOLEAN, host : 1 .. Hosts] : f.host = lease}
    \union [kind : {"TIME"}]
    \union [kind : {"ERROR"}, port : Ports, block : Nat]
    \union {f \in {Data(p, i, Piece(size, i)[1], Piece(size, i)[2]) : p \in Ports, i \in Sent(size)} :
                port \in Ports}

ClientRecords ==
    [phase : Phases, host : 0 .. Hosts, port : Ports \union {NoPort}, block : Nat,
     got : Seq(Int \X Int)]

(* What a modem has received is the beginning of its file, and all of it    *)
(* when it goes on.                                                         *)
GotRight(record, size) ==
    /\ Len(record.got) = record.block
    /\ \A i \in 1 .. record.block : record.got[i] = Piece(size, i)
    /\ record.phase = "done" => record.block = (size \div BlockSize) + 1

ClientOK(c, size, record, lease, sent, coming) ==
    /\ record \in ClientRecords
    /\ record.host # NoHost => record.host = lease
    /\ sent \in Seq(UpFrames(record.port))
    /\ coming \in Seq(DownFrames(record.port, lease, size))
    /\ c \in Modems => GotRight(record, size)

(* The server's own state, and every client's.                              *)
ServerOK ==
    /\ file \in [Modems -> Files]
    /\ leases \in [Pools -> [Clients -> 0 .. Hosts]]
    /\ transfers \in [Modems -> [Ports -> Nat]]
    /\ losses \in 0 .. MaxLosses
    /\ resets \in 0 .. MaxResets
    /\ \A p \in Pools, c, d \in Clients :
          c # d /\ leases[p][c] # NoHost => leases[p][c] # leases[p][d]

ServerInv ==
    /\ ServerOK
    /\ DOMAIN client = Clients /\ DOMAIN up = Clients /\ DOMAIN down = Clients
    /\ \A c \in Clients :
          ClientOK(c, file[c].size, client[c], leases[PoolFor(c)][c], up[c], down[c])

(* A step of one client leaves the others as they were.                     *)
LEMMA OneClientStep ==
    ASSUME ServerInv, NEW c \in Clients, ServerOK', file' = file,
           DOMAIN client' = Clients, DOMAIN up' = Clients, DOMAIN down' = Clients,
           \A d \in Clients : d # c =>
               /\ client'[d] = client[d] /\ up'[d] = up[d] /\ down'[d] = down[d]
               /\ leases'[PoolFor(d)][d] = leases[PoolFor(d)][d],
           ClientOK(c, file[c].size, client'[c], leases'[PoolFor(c)][c], up'[c], down'[c])
    PROVE  ServerInv'
<1>1. ASSUME NEW d \in Clients
      PROVE  ClientOK(d, file'[d].size, client'[d], leases'[PoolFor(d)][d], up'[d], down'[d])
  <2>1. CASE d = c
    BY <2>1
  <2>2. CASE d # c
    BY <2>2 DEF ServerInv
  <2>3. QED
    BY <2>1, <2>2
<1>2. (\A d \in Clients :
          ClientOK(d, file[d].size, client[d], leases[PoolFor(d)][d], up[d], down[d]))'
  BY <1>1 DEF PoolFor, ClientOK
<1>3. QED
  BY <1>2 DEF ServerInv

LEMMA InitInv == Init => ServerInv
<1> SUFFICES ASSUME Init PROVE ServerInv
  OBVIOUS
<1>1. ServerOK
  BY ServerAssumption DEF Init, ServerOK, NoHost
<1>2. ASSUME NEW c \in Clients
      PROVE  ClientOK(c, file[c].size, client[c], leases[PoolFor(c)][c], up[c], down[c])
  <2>1. client[c] = [phase |-> "off", host |-> NoHost, port |-> NoPort, block |-> 0, got |-> <<>>]
        /\ up[c] = <<>> /\ down[c] = <<>>
    BY DEF Init
  <2>2. client[c] \in ClientRecords
    BY <2>1, ServerAssumption DEF ClientRecords, Phases, NoHost, NoPort
  <2>3. GotRight(client[c], file[c].size)
    BY <2>1 DEF GotRight
  <2>4. QED
    BY <2>1, <2>2, <2>3 DEF ClientOK
<1>3. QED
  BY <1>1, <1>2 DEF Init, ServerInv

-----------------------------------------------------------------------------
(* What may be under way only grows when a lease or a port is first given.  *)
LEMMA FramesMonotone ==
    ASSUME NEW port, NEW next, NEW lease, NEW given, NEW size,
           port \in Ports => next \in Ports,
           lease \in 1 .. Hosts => given = lease
    PROVE  /\ UpFrames(port) \subseteq UpFrames(next)
           /\ DownFrames(port, lease, size) \subseteq DownFrames(next, given, size)
BY DEF UpFrames, DownFrames

(* A client keeps its address; a new one gets an address nobody has.        *)
LEMMA AllocateSound ==
    ASSUME ServerOK, NEW p \in Pools, NEW c \in Clients
    PROVE  /\ Allocate(p, c) \in 0 .. Hosts
           /\ leases[p][c] # NoHost => Allocate(p, c) = leases[p][c]
           /\ Allocate(p, c) = NoHost => leases[p][c] = NoHost
           /\ \A d \in Clients : d # c /\ Allocate(p, c) # NoHost
                                    => leases[p][d] # Allocate(p, c)
<1>1. Hosts \in Nat /\ leases[p][c] \in 0 .. Hosts /\ \A d \in Clients : leases[p][d] \in 0 .. Hosts
  BY ServerAssumption DEF ServerOK
<1>2. CASE leases[p][c] # NoHost
  BY <1>1, <1>2 DEF ServerOK, Allocate
<1>3. CASE leases[p][c] = NoHost /\ Free(p) = {}
  BY <1>1, <1>3 DEF Allocate, NoHost
<1>4. CASE leases[p][c] = NoHost /\ Free(p) # {}
  <2>1. Free(p) \in SUBSET Nat /\ Free(p) \subseteq 1 .. Hosts
    BY <1>1 DEF Free
  <2>2. \E h \in Free(p) : \A other \in Free(p) : h <= other
    BY <1>4, <2>1, LeastElement
  <2>3. Lowest(Free(p)) \in Free(p)
    BY <2>2 DEF Lowest
  <2>4. Allocate(p, c) = Lowest(Free(p))
    BY <1>4 DEF Allocate
  <2>5. Lowest(Free(p)) \in 1 .. Hosts /\ \A d \in Clients : leases[p][d] # Lowest(Free(p))
    BY <2>3 DEF Free
  <2>6. QED
    BY <1>1, <1>4, <2>4, <2>5 DEF NoHost
<1>5. QED
  BY <1>2, <1>3, <1>4

LEMMA OnDhcpKeeps ==
    ASSUME ServerInv, NEW c \in Clients, OnDhcp(c)
    PROVE  ServerInv'
<1> DEFINE p == PoolFor(c)
           request == Head(up[c])
           host == Allocate(p, c)
           kind == IF request.kind = "DISCOVER" THEN "OFFER" ELSE "DHCPACK"
           answer == Answering(request, Dhcp(kind, host))
<1>1. /\ p \in Pools /\ ServerOK
      /\ ClientOK(c, file[c].size, client[c], leases[p][c], up[c], down[c])
  BY DEF PoolFor, Pools, ServerInv
<1>2. /\ up[c] # <<>> /\ request.kind \in {"DISCOVER", "REQUEST"}
      /\ leases' = [leases EXCEPT ![p][c] = host]
      /\ down' = [down EXCEPT ![c] = @ \o (IF host = NoHost THEN <<>> ELSE <<answer>>)]
      /\ up' = [up EXCEPT ![c] = Tail(@)]
      /\ UNCHANGED <<file, transfers, client, losses, resets>>
  BY DEF OnDhcp, Reply, Take
<1>3. /\ host \in 0 .. Hosts
      /\ leases[p][c] # NoHost => host = leases[p][c]
      /\ host = NoHost => leases[p][c] = NoHost
      /\ \A d \in Clients : d # c /\ host # NoHost => leases[p][d] # host
  BY <1>1, AllocateSound
<1>4. request \in UpFrames(client[c].port) /\ Tail(up[c]) \in Seq(UpFrames(client[c].port))
  BY <1>1, <1>2, QueueOfFrames DEF ClientOK
<1>5. request.current \in BOOLEAN
  BY <1>2, <1>4 DEF UpFrames
<1> HIDE DEF p, request, host
<1>6. /\ leases' \in [Pools -> [Clients -> 0 .. Hosts]]
      /\ leases'[p][c] = host
      /\ \A q \in Pools, d \in Clients : q # p \/ d # c => leases'[q][d] = leases[q][d]
  BY <1>1, <1>2, <1>3 DEF ServerOK
<1>7. ServerOK'
  <2>1. ASSUME NEW q \in Pools, NEW b \in Clients, NEW d \in Clients, b # d,
               leases'[q][b] # NoHost
        PROVE  leases'[q][b] # leases'[q][d]
    <3>1. leases[q][b] # NoHost => leases[q][b] # leases[q][d]
      BY <1>1, <2>1 DEF ServerOK
    <3>2. CASE q = p /\ b = c
      BY <1>3, <1>6, <2>1, <3>2
    <3>3. CASE q = p /\ d = c
      BY <1>3, <1>6, <2>1, <3>3
    <3>4. CASE q # p \/ (b # c /\ d # c)
      BY <1>6, <2>1, <3>1, <3>4
    <3>5. QED
      BY <3>2, <3>3, <3>4
  <2>2. QED
    BY <1>1, <1>2, <1>6, <2>1 DEF ServerOK
<1>8. DownFrames(client[c].port, leases[p][c], file[c].size)
        \subseteq DownFrames(client[c].port, host, file[c].size)
  <2>1. leases[p][c] \in 1 .. Hosts => host = leases[p][c]
    BY <1>3 DEF NoHost
  <2>2. QED
    BY <2>1, FramesMonotone
<1>9. down[c] \in Seq(DownFrames(client[c].port, host, file[c].size))
  BY <1>1, <1>8, SeqMonotonic DEF ClientOK
<1>10. host # NoHost => answer \in DownFrames(client[c].port, host, file[c].size)
  <2> SUFFICES ASSUME host # NoHost
               PROVE  answer \in DownFrames(client[c].port, host, file[c].size)
    OBVIOUS
  <2>1. answer = [kind |-> kind, current |-> request.current, host |-> host]
    BY DEF Answering, Dhcp
  <2>2. kind \in {"OFFER", "DHCPACK"} /\ host \in 1 .. Hosts
    BY <1>3 DEF NoHost
  <2> HIDE DEF answer, kind
  <2>3. QED
    BY <1>5, <2>1, <2>2 DEF DownFrames
<1>11. down'[c] \in Seq(DownFrames(client[c].port, host, file[c].size))
  <2>1. down'[c] = down[c] \o (IF host = NoHost THEN <<>> ELSE <<answer>>)
    BY <1>2 DEF ServerInv
  <2> HIDE DEF answer
  <2>2. QED
    BY <1>9, <1>10, <2>1, QueueOfFrames
<1>12. up'[c] = Tail(up[c]) /\ client' = client /\ file' = file
  BY <1>2 DEF ServerInv
<1>13. client[c].host # NoHost => client[c].host = host
  <2>1. client[c].host \in 0 .. Hosts /\ (client[c].host # NoHost => client[c].host = leases[p][c])
    BY <1>1 DEF ClientOK, ClientRecords
  <2>2. QED
    BY <1>3, <2>1
<1>14. ClientOK(c, file[c].size, client'[c], leases'[p][c], up'[c], down'[c])
  BY <1>1, <1>4, <1>6, <1>11, <1>12, <1>13 DEF ClientOK
<1>15. \A d \in Clients : d # c =>
          /\ client'[d] = client[d] /\ up'[d] = up[d] /\ down'[d] = down[d]
          /\ leases'[PoolFor(d)][d] = leases[PoolFor(d)][d]
  BY <1>2, <1>6 DEF ServerInv, PoolFor, Pools
<1>16. DOMAIN client' = Clients /\ DOMAIN up' = Clients /\ DOMAIN down' = Clients
  BY <1>2 DEF ServerInv
<1>17. QED
  BY <1>7, <1>12, <1>14, <1>15, <1>16, OneClientStep DEF p

-----------------------------------------------------------------------------
(* A step that leaves files and leases alone.                               *)
LEMMA SameLeasesStep ==
    ASSUME ServerInv, NEW c \in Clients, UNCHANGED <<file, leases>>,
           transfers' \in [Modems -> [Ports -> Nat]],
           losses' \in 0 .. MaxLosses, resets' \in 0 .. MaxResets,
           DOMAIN client' = Clients, DOMAIN up' = Clients, DOMAIN down' = Clients,
           \A d \in Clients : d # c =>
               client'[d] = client[d] /\ up'[d] = up[d] /\ down'[d] = down[d],
           ClientOK(c, file[c].size, client'[c], leases[PoolFor(c)][c], up'[c], down'[c])
    PROVE  ServerInv'
<1>1. ServerOK'
  BY DEF ServerInv, ServerOK
<1>2. QED
  BY <1>1, OneClientStep

LEMMA InvParts ==
    ASSUME ServerInv
    PROVE  /\ ServerOK
           /\ transfers \in [Modems -> [Ports -> Nat]]
           /\ losses \in 0 .. MaxLosses /\ resets \in 0 .. MaxResets
           /\ DOMAIN client = Clients /\ DOMAIN up = Clients /\ DOMAIN down = Clients
           /\ \A c \in Clients :
                 ClientOK(c, file[c].size, client[c], leases[PoolFor(c)][c], up[c], down[c])
           /\ \A m \in Modems : m \in Clients /\ file[m].size \in Nat
           /\ BlockSize \in Nat \ {0} /\ Hosts \in Nat
<1>1. \A m \in Modems : m \in Clients /\ file[m].size \in Nat
  BY ServerAssumption DEF ServerInv, ServerOK, Clients
<1>2. QED
  BY <1>1, ServerAssumption DEF ServerInv, ServerOK

LEMMA OnTodKeeps ==
    ASSUME ServerInv, NEW c \in Clients, OnTod(c)
    PROVE  ServerInv'
<1> DEFINE S == DownFrames(client[c].port, leases[PoolFor(c)][c], file[c].size)
           time == [kind |-> "TIME"]
<1>1. /\ up[c] # <<>> /\ up' = [up EXCEPT ![c] = Tail(@)]
      /\ down' = [down EXCEPT ![c] = @ \o <<time>>]
      /\ UNCHANGED <<file, leases, transfers, client, losses, resets>>
  BY DEF OnTod, Reply, Take
<1>2. ClientOK(c, file[c].size, client[c], leases[PoolFor(c)][c], up[c], down[c])
      /\ DOMAIN up = Clients /\ DOMAIN down = Clients
  BY InvParts
<1>3. down[c] \o <<time>> \in Seq(S)
  <2>1. time \in S
    BY DEF DownFrames
  <2> HIDE DEF S, time
  <2>2. down[c] \in Seq(S)
    BY <1>2 DEF ClientOK, S
  <2>3. QED
    BY <2>1, <2>2, QueueOfFrames
<1>4. ClientOK(c, file[c].size, client'[c], leases[PoolFor(c)][c], up'[c], down'[c])
  BY <1>1, <1>2, <1>3, QueueOfFrames DEF ClientOK
<1>5. QED
  BY <1>1, <1>2, <1>4, InvParts, SameLeasesStep

(* The block the server sends is the piece of the file that it names.       *)
LEMMA BlockIsPiece ==
    ASSUME NEW m \in Modems, NEW port \in Ports, NEW i \in Sent(file[m].size), NEW lease,
           NEW known \in Ports
    PROVE  Block(m, port, i) \in DownFrames(known, lease, file[m].size)
<1>1. Block(m, port, i) = Data(port, i, Piece(file[m].size, i)[1], Piece(file[m].size, i)[2])
  BY DEF Block, Piece
<1>2. QED
  BY <1>1 DEF DownFrames

LEMMA TransfersType ==
    ASSUME NEW t \in [Modems -> [Ports -> Nat]], NEW m \in Modems, NEW port \in Ports,
           NEW block \in Nat
    PROVE  [t EXCEPT ![m][port] = block] \in [Modems -> [Ports -> Nat]]
OBVIOUS

LEMMA OnReadRequestKeeps ==
    ASSUME ServerInv, NEW m \in Modems, OnReadRequest(m)
    PROVE  ServerInv'
<1> DEFINE request == Head(up[m])
           S == DownFrames(client[m].port, leases[PoolFor(m)][m], file[m].size)
<1>1. /\ ClientOK(m, file[m].size, client[m], leases[PoolFor(m)][m], up[m], down[m])
      /\ m \in Clients /\ file[m].size \in Nat /\ BlockSize \in Nat
      /\ DOMAIN up = Clients /\ DOMAIN down = Clients
  BY InvParts
<1>2. /\ up[m] # <<>> /\ request.kind = "RRQ"
      /\ up' = [up EXCEPT ![m] = Tail(@)]
      /\ UNCHANGED <<file, leases, client, losses, resets>>
      /\ \/ /\ down' = [down EXCEPT ![m] = @ \o <<Tftp("ERROR", request.port, 0)>>]
            /\ transfers' = transfers
         \/ /\ down' = [down EXCEPT ![m] = @ \o <<Block(m, request.port, 1)>>]
            /\ transfers' = [transfers EXCEPT ![m][request.port] = 1]
  BY DEF OnReadRequest, Reply, Take
<1>3. request \in UpFrames(client[m].port) /\ Tail(up[m]) \in Seq(UpFrames(client[m].port))
  BY <1>1, <1>2, QueueOfFrames DEF ClientOK
<1>4. request.port \in Ports /\ client[m].port \in Ports
  BY <1>2, <1>3 DEF UpFrames
<1> HIDE DEF request
<1>5. 1 \in Sent(file[m].size)
  BY <1>1 DEF Sent
<1>6. Tftp("ERROR", request.port, 0) \in S /\ Block(m, request.port, 1) \in S
  <2>1. Tftp("ERROR", request.port, 0) \in S
    BY <1>4 DEF Tftp, DownFrames
  <2>2. QED
    BY <1>4, <1>5, <2>1, BlockIsPiece
<1> HIDE DEF S
<1>7. down[m] \in Seq(S)
  BY <1>1 DEF ClientOK, S
<1>8. down'[m] \in Seq(S)
  <2>1. down'[m] = down[m] \o <<Tftp("ERROR", request.port, 0)>>
        \/ down'[m] = down[m] \o <<Block(m, request.port, 1)>>
    BY <1>1, <1>2
  <2>2. QED
    BY <1>6, <1>7, <2>1, QueueOfFrames
<1>9. transfers' \in [Modems -> [Ports -> Nat]]
  <2>1. transfers \in [Modems -> [Ports -> Nat]]
    BY InvParts
  <2>2. [transfers EXCEPT ![m][request.port] = 1] \in [Modems -> [Ports -> Nat]]
    BY <1>4, <2>1, TransfersType
  <2>3. QED
    BY <1>2, <2>1, <2>2
<1>10. ClientOK(m, file[m].size, client'[m], leases[PoolFor(m)][m], up'[m], down'[m])
  BY <1>1, <1>2, <1>3, <1>8 DEF ClientOK, S
<1>11. QED
  BY <1>1, <1>2, <1>9, <1>10, InvParts, SameLeasesStep

LEMMA OnAckKeeps ==
    ASSUME ServerInv, NEW m \in Modems, OnAck(m)
    PROVE  ServerInv'
<1> DEFINE ack == Head(up[m])
           port == ack.port
           block == transfers[m][port]
           last == block * BlockSize >= file[m].size
           S == DownFrames(client[m].port, leases[PoolFor(m)][m], file[m].size)
<1>1. /\ ClientOK(m, file[m].size, client[m], leases[PoolFor(m)][m], up[m], down[m])
      /\ m \in Clients /\ file[m].size \in Nat /\ BlockSize \in Nat
      /\ DOMAIN up = Clients /\ DOMAIN down = Clients
  BY InvParts
<1>2. /\ up[m] # <<>> /\ ack.kind = "ACK"
      /\ up' = [up EXCEPT ![m] = Tail(@)]
      /\ UNCHANGED <<file, leases, client, losses, resets>>
      /\ \/ UNCHANGED <<transfers, down>>
         \/ /\ last /\ transfers' = [transfers EXCEPT ![m][port] = 0]
            /\ down' = [down EXCEPT ![m] = @ \o <<>>]
         \/ /\ ~last /\ transfers' = [transfers EXCEPT ![m][port] = block + 1]
            /\ down' = [down EXCEPT ![m] = @ \o <<Block(m, port, block + 1)>>]
  BY DEF OnAck, Reply, Take
<1>3. ack \in UpFrames(client[m].port) /\ Tail(up[m]) \in Seq(UpFrames(client[m].port))
  BY <1>1, <1>2, QueueOfFrames DEF ClientOK
<1>4. port \in Ports /\ client[m].port \in Ports
  BY <1>2, <1>3 DEF UpFrames
<1>5. block \in Nat /\ transfers \in [Modems -> [Ports -> Nat]]
  BY <1>4, InvParts
<1> HIDE DEF ack, port, block
<1>6. ~last => Block(m, port, block + 1) \in S
  <2>1. ~last => block + 1 \in Sent(file[m].size)
    BY <1>1, <1>5 DEF Sent
  <2>2. QED
    BY <1>4, <2>1, BlockIsPiece
<1> HIDE DEF S, last
<1>7. down[m] \in Seq(S)
  BY <1>1 DEF ClientOK, S
<1>8. down'[m] \in Seq(S) /\ DOMAIN down' = Clients
      /\ \A d \in Clients : d # m => down'[d] = down[d]
  <2>1. CASE UNCHANGED down
    BY <1>1, <1>7, <2>1
  <2>2. CASE down' = [down EXCEPT ![m] = @ \o <<>>]
    <3>1. down'[m] = down[m] \o <<>>
      BY <1>1, <2>2
    <3>2. QED
      BY <1>1, <1>7, <2>2, <3>1, QueueOfFrames
  <2>3. CASE ~last /\ down' = [down EXCEPT ![m] = @ \o <<Block(m, port, block + 1)>>]
    <3>1. down'[m] = down[m] \o <<Block(m, port, block + 1)>>
      BY <1>1, <2>3
    <3>2. QED
      BY <1>1, <1>6, <1>7, <2>3, <3>1, QueueOfFrames
  <2>4. QED
    BY <1>2, <2>1, <2>2, <2>3
<1>9. transfers' \in [Modems -> [Ports -> Nat]]
  <2>1. 0 \in Nat /\ block + 1 \in Nat
    BY <1>5
  <2>2. /\ [transfers EXCEPT ![m][port] = 0] \in [Modems -> [Ports -> Nat]]
        /\ [transfers EXCEPT ![m][port] = block + 1] \in [Modems -> [Ports -> Nat]]
    BY <1>4, <1>5, <2>1, TransfersType
  <2>3. QED
    BY <1>2, <1>5, <2>2
<1>10. ClientOK(m, file[m].size, client'[m], leases[PoolFor(m)][m], up'[m], down'[m])
  BY <1>1, <1>2, <1>3, <1>8 DEF ClientOK, S
<1>11. QED
  BY <1>1, <1>2, <1>8, <1>9, <1>10, InvParts, SameLeasesStep

-----------------------------------------------------------------------------
(* Frames that have become outdated are still frames that may be under way. *)
LEMMA OutdatedFrames ==
    ASSUME NEW port, NEW lease, NEW size
    PROVE  /\ \A q \in Seq(UpFrames(port)) : Outdated(q) \in Seq(UpFrames(port))
           /\ \A q \in Seq(DownFrames(port, lease, size)) :
                 Outdated(q) \in Seq(DownFrames(port, lease, size))
<1> DEFINE U == UpFrames(port)
           D == DownFrames(port, lease, size)
           old(f) == IF IsDhcp(f) THEN [f EXCEPT !.current = FALSE] ELSE f
<1>1. \A f \in U : old(f) \in U
  BY DEF UpFrames, IsDhcp
<1>2. \A f \in D : old(f) \in D
  <2> SUFFICES ASSUME NEW f \in D PROVE old(f) \in D
    OBVIOUS
  <2>1. CASE ~ IsDhcp(f)
    BY <2>1
  <2>2. CASE IsDhcp(f)
    <3>1. f \in [kind : {"OFFER", "DHCPACK"}, current : BOOLEAN, host : 1 .. Hosts] /\ f.host = lease
      BY <2>2 DEF DownFrames, IsDhcp, Data
    <3>2. PICK g : g = [f EXCEPT !.current = FALSE]
      OBVIOUS
    <3>3. /\ g \in [kind : {"OFFER", "DHCPACK"}, current : BOOLEAN, host : 1 .. Hosts]
          /\ g.host = lease
      BY <3>1, <3>2
    <3>4. g \in D
      BY <3>3 DEF DownFrames
    <3>5. QED
      BY <2>2, <3>2, <3>4
  <2>3. QED
    BY <2>1, <2>2
<1>3. ASSUME NEW S, \A f \in S : old(f) \in S, NEW q \in Seq(S)
      PROVE  Outdated(q) \in Seq(S)
  <2>1. Len(q) \in Nat /\ DOMAIN q = 1 .. Len(q) /\ \A i \in 1 .. Len(q) : q[i] \in S
    BY LenProperties, ElementOfSeq
  <2>2. Outdated(q) = [i \in 1 .. Len(q) |-> old(q[i])]
    BY <2>1 DEF Outdated
  <2> HIDE DEF old
  <2>3. Outdated(q) \in [1 .. Len(q) -> S]
    BY <1>3, <2>1, <2>2
  <2>4. QED
    BY <2>1, <2>3, SeqDef
<1> HIDE DEF U, D, old
<1>4. QED
  BY <1>1, <1>2, <1>3 DEF U, D

LEMMA StartDhcpKeeps ==
    ASSUME ServerInv, NEW c \in Clients, StartDhcp(c)
    PROVE  ServerInv'
<1> DEFINE U == UpFrames(client[c].port)
           D == DownFrames(client[c].port, leases[PoolFor(c)][c], file[c].size)
<1>1. /\ ClientOK(c, file[c].size, client[c], leases[PoolFor(c)][c], up[c], down[c])
      /\ DOMAIN client = Clients /\ DOMAIN up = Clients /\ DOMAIN down = Clients
      /\ Hosts \in Nat
  BY InvParts
<1>2. /\ client' = [client EXCEPT ![c].phase = "dhcp"]
      /\ up' = [up EXCEPT ![c] = Append(Outdated(@), Dhcp("DISCOVER", NoHost))]
      /\ down' = [down EXCEPT ![c] = Outdated(@)]
      /\ UNCHANGED <<file, leases, transfers, losses, resets>>
  BY DEF StartDhcp
<1>3. Dhcp("DISCOVER", NoHost) \in U
  BY <1>1 DEF Dhcp, UpFrames, NoHost
<1>4. client'[c] = [client[c] EXCEPT !.phase = "dhcp"] /\ client[c] \in ClientRecords
  BY <1>1, <1>2 DEF ClientOK
<1>5. /\ client'[c] \in ClientRecords
      /\ client'[c].host = client[c].host /\ client'[c].port = client[c].port
      /\ client'[c].block = client[c].block /\ client'[c].got = client[c].got
      /\ client'[c].phase = "dhcp"
  BY <1>4 DEF ClientRecords, Phases
<1> HIDE DEF U, D
<1>6. up[c] \in Seq(U) /\ down[c] \in Seq(D)
  BY <1>1 DEF ClientOK, U, D
<1>7. Outdated(up[c]) \in Seq(U) /\ Outdated(down[c]) \in Seq(D)
  BY <1>6, OutdatedFrames DEF U, D
<1>8. up'[c] \in Seq(U) /\ down'[c] \in Seq(D)
  BY <1>1, <1>2, <1>3, <1>7, QueueOfFrames
<1>9. c \in Modems => GotRight(client'[c], file[c].size)
  BY <1>1, <1>5 DEF ClientOK, GotRight
<1>10. ClientOK(c, file[c].size, client'[c], leases[PoolFor(c)][c], up'[c], down'[c])
  BY <1>1, <1>5, <1>8, <1>9 DEF ClientOK, U, D
<1>11. QED
  BY <1>1, <1>2, <1>10, InvParts, SameLeasesStep

LEMMA OnOfferKeeps ==
    ASSUME ServerInv, NEW c \in Clients, OnOffer(c)
    PROVE  ServerInv'
<1> DEFINE U == UpFrames(client[c].port)
           D == DownFrames(client[c].port, leases[PoolFor(c)][c], file[c].size)
           offer == Head(down[c])
           request == Dhcp("REQUEST", offer.host)
<1>1. /\ ClientOK(c, file[c].size, client[c], leases[PoolFor(c)][c], up[c], down[c])
      /\ DOMAIN client = Clients /\ DOMAIN up = Clients /\ DOMAIN down = Clients
      /\ Hosts \in Nat
  BY InvParts
<1>2. /\ down[c] # <<>> /\ offer.kind = "OFFER"
      /\ down' = [down EXCEPT ![c] = Tail(@)]
      /\ up' = up \/ up' = [up EXCEPT ![c] = @ \o <<request>>]
      /\ UNCHANGED <<file, leases, transfers, client, losses, resets>>
  BY DEF OnOffer, Receiving, Receive, Send
<1>3. offer \in D /\ Tail(down[c]) \in Seq(D)
  BY <1>1, <1>2, QueueOfFrames DEF ClientOK
<1>4. offer.host \in 0 .. Hosts
  BY <1>1, <1>2, <1>3 DEF DownFrames, Data
<1>5. request \in U
  BY <1>4 DEF Dhcp, UpFrames
<1> HIDE DEF U, D, offer, request
<1>6. up[c] \in Seq(U)
  BY <1>1 DEF ClientOK, U
<1>7. up'[c] \in Seq(U)
  <2>1. up'[c] = up[c] \/ up'[c] = up[c] \o <<request>>
    BY <1>1, <1>2
  <2>2. QED
    BY <1>5, <1>6, <2>1, QueueOfFrames
<1>8. ClientOK(c, file[c].size, client'[c], leases[PoolFor(c)][c], up'[c], down'[c])
  BY <1>1, <1>2, <1>3, <1>7 DEF ClientOK, U, D
<1>9. QED
  BY <1>1, <1>2, <1>8, InvParts, SameLeasesStep

(* Only an address that is leased to the client is ever in an answer, so it *)
(* may take one whatever state it is in.                                    *)
LEMMA OnDhcpAckKeeps ==
    ASSUME ServerInv, NEW c \in Clients, OnDhcpAck(c)
    PROVE  ServerInv'
<1> DEFINE lease == leases[PoolFor(c)][c]
           U == UpFrames(client[c].port)
           D == DownFrames(client[c].port, lease, file[c].size)
           ack == Head(down[c])
           next == IF c \in Modems THEN "time-of-day" ELSE "done"
           sent == IF c \in Modems THEN <<[kind |-> "TOD"]>> ELSE <<>>
<1>1. /\ ClientOK(c, file[c].size, client[c], lease, up[c], down[c])
      /\ DOMAIN client = Clients /\ DOMAIN up = Clients /\ DOMAIN down = Clients
      /\ Hosts \in Nat
  BY InvParts
<1>2. /\ down[c] # <<>> /\ ack.kind = "DHCPACK"
      /\ down' = [down EXCEPT ![c] = Tail(@)]
      /\ \/ UNCHANGED <<client, up>>
         \/ /\ client' = [client EXCEPT ![c].host = ack.host, ![c].phase = next]
            /\ up' = [up EXCEPT ![c] = @ \o sent]
      /\ UNCHANGED <<file, leases, transfers, losses, resets>>
  BY DEF OnDhcpAck, Receiving, Receive, Send
<1>3. ack \in D /\ Tail(down[c]) \in Seq(D)
  BY <1>1, <1>2, QueueOfFrames DEF ClientOK
<1>4. ack.host \in 0 .. Hosts /\ ack.host = lease
  BY <1>1, <1>2, <1>3 DEF DownFrames, Data
<1>5. next \in Phases /\ (c \in Modems => next # "done")
  BY DEF Phases
<1> HIDE DEF U, D, ack, next, lease
<1>6. up[c] \in Seq(U)
  BY <1>1 DEF ClientOK, U
<1>7. CASE UNCHANGED <<client, up>>
  <2>1. ClientOK(c, file[c].size, client'[c], lease, up'[c], down'[c])
    BY <1>1, <1>2, <1>3, <1>7 DEF ClientOK, D
  <2>2. QED
    BY <1>1, <1>2, <1>7, <2>1, InvParts, SameLeasesStep DEF lease
<1>8. CASE /\ client' = [client EXCEPT ![c].host = ack.host, ![c].phase = next]
           /\ up' = [up EXCEPT ![c] = @ \o sent]
  <2>1. up'[c] \in Seq(U)
    <3>1. up'[c] = up[c] \o sent
      BY <1>1, <1>8
    <3>2. [kind |-> "TOD"] \in U
      BY DEF U, UpFrames
    <3>3. QED
      BY <1>6, <3>1, <3>2, QueueOfFrames
  <2>2. client'[c] = [client[c] EXCEPT !.host = ack.host, !.phase = next]
    BY <1>1, <1>8
  <2>3. client[c] \in ClientRecords
    BY <1>1 DEF ClientOK
  <2>4. /\ client'[c] \in ClientRecords
        /\ client'[c].host = ack.host /\ client'[c].port = client[c].port
        /\ client'[c].block = client[c].block /\ client'[c].got = client[c].got
        /\ client'[c].phase = next
    BY <1>4, <1>5, <2>2, <2>3 DEF ClientRecords
  <2>5. c \in Modems => GotRight(client'[c], file[c].size)
    BY <1>1, <1>5, <2>4 DEF ClientOK, GotRight
  <2>6. ClientOK(c, file[c].size, client'[c], lease, up'[c], down'[c])
    BY <1>1, <1>2, <1>3, <1>4, <2>1, <2>4, <2>5 DEF ClientOK, U, D
  <2>7. \A d \in Clients : d # c =>
            client'[d] = client[d] /\ up'[d] = up[d] /\ down'[d] = down[d]
    BY <1>1, <1>2, <1>8
  <2>8. DOMAIN client' = Clients /\ DOMAIN up' = Clients /\ DOMAIN down' = Clients
    BY <1>1, <1>2, <1>8
  <2>9. QED
    BY <1>2, <2>6, <2>7, <2>8, InvParts, SameLeasesStep DEF lease
<1>9. QED
  BY <1>2, <1>7, <1>8

(* A new transfer begins with nothing received.                             *)
LEMMA StartTftpRight ==
    ASSUME ServerInv, NEW m \in Modems, NEW port \in Ports, StartTftp(m, port),
           NEW coming \in Seq(DownFrames(client[m].port, leases[PoolFor(m)][m], file[m].size))
    PROVE  /\ ClientOK(m, file[m].size, client'[m], leases[PoolFor(m)][m], up'[m], coming)
           /\ DOMAIN client' = Clients /\ DOMAIN up' = Clients
           /\ \A d \in Clients : d # m => client'[d] = client[d] /\ up'[d] = up[d]
<1> DEFINE lease == leases[PoolFor(m)][m]
           request == Tftp("RRQ", port, 0)
           started == [client[m] EXCEPT !.phase = "tftp-config", !.port = port, !.block = 0,
                                        !.got = <<>>]
<1>1. /\ ClientOK(m, file[m].size, client[m], lease, up[m], down[m])
      /\ DOMAIN client = Clients /\ DOMAIN up = Clients /\ m \in Clients
  BY InvParts
<1>2. /\ client' = [client EXCEPT ![m] = started]
      /\ up' = [up EXCEPT ![m] = @ \o <<request>>]
  BY DEF StartTftp, Send
<1>3. client'[m] = started /\ up'[m] = up[m] \o <<request>>
  BY <1>1, <1>2
<1>4. client[m] \in ClientRecords
  BY <1>1 DEF ClientOK
<1>5. /\ started \in ClientRecords
      /\ started.host = client[m].host /\ started.port = port /\ started.block = 0
      /\ started.got = <<>> /\ started.phase = "tftp-config"
  BY <1>4, EmptySeq DEF ClientRecords, Phases
<1> HIDE DEF started, lease
<1>6. GotRight(started, file[m].size)
  BY <1>5 DEF GotRight
<1>7. /\ UpFrames(client[m].port) \subseteq UpFrames(port)
      /\ DownFrames(client[m].port, lease, file[m].size)
            \subseteq DownFrames(port, lease, file[m].size)
  BY DEF UpFrames, DownFrames
<1>8. up[m] \in Seq(UpFrames(port)) /\ coming \in Seq(DownFrames(port, lease, file[m].size))
  BY <1>1, <1>7, SeqMonotonic DEF ClientOK, lease
<1>9. request \in UpFrames(port)
  BY DEF Tftp, UpFrames
<1> HIDE DEF request
<1>10. up'[m] \in Seq(UpFrames(port))
  BY <1>3, <1>8, <1>9, QueueOfFrames
<1>11. ClientOK(m, file[m].size, client'[m], lease, up'[m], coming)
  BY <1>1, <1>3, <1>5, <1>6, <1>8, <1>10 DEF ClientOK
<1>12. QED
  BY <1>1, <1>2, <1>11 DEF lease

LEMMA OnTimeKeeps ==
    ASSUME ServerInv, NEW m \in Modems, NEW port \in Ports, OnTime(m, port)
    PROVE  ServerInv'
<1> DEFINE D == DownFrames(client[m].port, leases[PoolFor(m)][m], file[m].size)
<1>1. /\ ClientOK(m, file[m].size, client[m], leases[PoolFor(m)][m], up[m], down[m])
      /\ DOMAIN client = Clients /\ DOMAIN up = Clients /\ DOMAIN down = Clients
      /\ m \in Clients
  BY InvParts
<1>2. /\ down[m] # <<>>
      /\ down' = [down EXCEPT ![m] = Tail(@)]
      /\ StartTftp(m, port) \/ UNCHANGED <<client, up>>
      /\ UNCHANGED <<file, leases, transfers, losses, resets>>
  BY DEF OnTime, Receiving, Receive
<1>3. Tail(down[m]) \in Seq(D) /\ down'[m] = Tail(down[m])
  BY <1>1, <1>2, QueueOfFrames DEF ClientOK
<1>4. CASE StartTftp(m, port)
  <2>1. /\ ClientOK(m, file[m].size, client'[m], leases[PoolFor(m)][m], up'[m], Tail(down[m]))
        /\ DOMAIN client' = Clients /\ DOMAIN up' = Clients
        /\ \A d \in Clients : d # m => client'[d] = client[d] /\ up'[d] = up[d]
    BY <1>3, <1>4, StartTftpRight
  <2>2. QED
    BY <1>1, <1>2, <1>3, <2>1, InvParts, SameLeasesStep
<1>5. CASE UNCHANGED <<client, up>>
  <2>1. ClientOK(m, file[m].size, client'[m], leases[PoolFor(m)][m], up'[m], down'[m])
    BY <1>1, <1>3, <1>5 DEF ClientOK
  <2>2. QED
    BY <1>1, <1>2, <1>5, <2>1, InvParts, SameLeasesStep
<1>6. QED
  BY <1>2, <1>4, <1>5

LEMMA TodTimeoutKeeps ==
    ASSUME ServerInv, NEW m \in Modems, NEW port \in Ports, TodTimeout(m, port)
    PROVE  ServerInv'
<1>1. /\ ClientOK(m, file[m].size, client[m], leases[PoolFor(m)][m], up[m], down[m])
      /\ DOMAIN down = Clients /\ m \in Clients
  BY InvParts
<1>2. StartTftp(m, port) /\ UNCHANGED <<file, leases, transfers, down, losses, resets>>
  BY DEF TodTimeout
<1>3. down[m] \in Seq(DownFrames(client[m].port, leases[PoolFor(m)][m], file[m].size))
  BY <1>1 DEF ClientOK
<1>4. /\ ClientOK(m, file[m].size, client'[m], leases[PoolFor(m)][m], up'[m], down[m])
      /\ DOMAIN client' = Clients /\ DOMAIN up' = Clients
      /\ \A d \in Clients : d # m => client'[d] = client[d] /\ up'[d] = up[d]
  BY <1>2, <1>3, StartTftpRight
<1>5. QED
  BY <1>1, <1>2, <1>4, InvParts, SameLeasesStep

-----------------------------------------------------------------------------
(* A block that reaches the end of the file is the last: number size div    *)
(* BlockSize, counting from 0, and there is none after it.                  *)
LEMMA LastBlock ==
    ASSUME NEW size \in Nat, NEW n \in Nat, n * BlockSize <= size,
           size - n * BlockSize < BlockSize
    PROVE  n = size \div BlockSize
<1>1. BlockSize \in Nat /\ BlockSize > 0
  BY ServerAssumption
<1>2. PICK b \in Nat : b = BlockSize
  BY <1>1
<1>3. b > 0 /\ n * b <= size /\ size < (n + 1) * b
  BY <1>1, <1>2
<1>4. QED
  BY <1>2, <1>3

LEMMA NoBlockAfterLast ==
    ASSUME NEW size \in Nat
    PROVE  (size \div BlockSize) + 2 \notin Sent(size)
<1>1. BlockSize \in Nat /\ BlockSize > 0
  BY ServerAssumption
<1>2. PICK b \in Nat : b = BlockSize
  BY <1>1
<1>3. ((size \div b) + 1) * b > size
  BY <1>1, <1>2
<1>4. QED
  BY <1>1, <1>2, <1>3 DEF Sent

(* A modem that starts again keeps its file's beginning, its port and its   *)
(* frames; it gives up its address.                                         *)
LEMMA RestartedRight ==
    ASSUME ServerInv, NEW m \in Modems
    PROVE  /\ Restarted(m) \in ClientRecords
           /\ Restarted(m).host = NoHost /\ Restarted(m).port = client[m].port
           /\ GotRight(Restarted(m), file[m].size)
<1>1. /\ ClientOK(m, file[m].size, client[m], leases[PoolFor(m)][m], up[m], down[m])
      /\ Hosts \in Nat
  BY InvParts
<1>2. client[m] \in ClientRecords /\ GotRight(client[m], file[m].size)
  BY <1>1 DEF ClientOK
<1>3. /\ Restarted(m) \in ClientRecords
      /\ Restarted(m).host = NoHost /\ Restarted(m).port = client[m].port
      /\ Restarted(m).phase = "off"
      /\ Restarted(m).block = client[m].block /\ Restarted(m).got = client[m].got
  <2>1. PICK r \in ClientRecords : r = client[m]
    BY <1>2
  <2>2. Restarted(m) = [r EXCEPT !.phase = "off", !.host = NoHost]
    BY <2>1 DEF Restarted
  <2>3. PICK t : t = [r EXCEPT !.phase = "off", !.host = NoHost]
    OBVIOUS
  <2>4. /\ t \in ClientRecords /\ t.phase = "off" /\ t.host = NoHost
        /\ t.port = r.port /\ t.block = r.block /\ t.got = r.got
    <3>1. "off" \in Phases /\ NoHost \in 0 .. Hosts
      BY <1>1 DEF Phases, NoHost
    <3>2. QED
      BY <2>3, <3>1 DEF ClientRecords
  <2>5. QED
    BY <2>1, <2>2, <2>3, <2>4
<1>4. QED
  BY <1>2, <1>3 DEF GotRight

LEMMA OnDataKeeps ==
    ASSUME ServerInv, NEW m \in Modems, OnData(m)
    PROVE  ServerInv'
<1> DEFINE lease == leases[PoolFor(m)][m]
           size == file[m].size
           c == client[m]
           data == Head(down[m])
           got == [c EXCEPT !.block = data.block, !.got = Append(@, <<data.start, data.length>>)]
           done == [got EXCEPT !.phase = "done"]
           ack == Tftp("ACK", c.port, IF data.block = c.block + 1 THEN data.block ELSE c.block)
<1>1. /\ ClientOK(m, size, c, lease, up[m], down[m])
      /\ DOMAIN client = Clients /\ DOMAIN up = Clients /\ DOMAIN down = Clients
      /\ m \in Clients /\ size \in Nat /\ BlockSize \in Nat \ {0} /\ Hosts \in Nat
  BY InvParts
<1>2. /\ down[m] # <<>> /\ data.kind = "DATA"
      /\ down' = [down EXCEPT ![m] = Tail(@)]
      /\ up' = [up EXCEPT ![m] = @ \o <<ack>>]
      /\ UNCHANGED <<file, leases, transfers, losses, resets>>
  BY DEF OnData, Receiving, Receive, Send
<1>3. \/ client'[m] = c
      \/ client'[m] = Restarted(m)
      \/ data.block = c.block + 1 /\ data.length = BlockSize /\ client'[m] = got
      \/ data.block = c.block + 1 /\ data.length # BlockSize /\ client'[m] = done
  BY <1>1 DEF OnData
<1>4. data \in DownFrames(c.port, lease, size)
      /\ Tail(down[m]) \in Seq(DownFrames(c.port, lease, size))
  BY <1>1, <1>2, QueueOfFrames DEF ClientOK
<1>5. c.port \in Ports
      /\ \E i \in Sent(size) :
            /\ data.block = i
            /\ <<data.start, data.length>> = Piece(size, i)
            /\ data.length = Piece(size, i)[2]
  <2>1. c.port \in Ports
        /\ data \in {Data(p, i, Piece(size, i)[1], Piece(size, i)[2]) : p \in Ports, i \in Sent(size)}
    BY <1>2, <1>4 DEF DownFrames
  <2>2. PICK p \in Ports, i \in Sent(size) : data = Data(p, i, Piece(size, i)[1], Piece(size, i)[2])
    BY <2>1
  <2>3. data.block = i /\ data.start = Piece(size, i)[1] /\ data.length = Piece(size, i)[2]
    BY <2>2 DEF Data
  <2>4. <<data.start, data.length>> = Piece(size, i)
    BY <2>3 DEF Piece
  <2>5. QED
    BY <2>1, <2>3, <2>4
<1>6. c \in ClientRecords /\ GotRight(c, size) /\ up[m] \in Seq(UpFrames(c.port))
  BY <1>1 DEF ClientOK
<1> HIDE DEF lease, size, c, data
<1>7. PICK i \in Sent(size) : /\ data.block = i
                              /\ <<data.start, data.length>> = Piece(size, i)
                              /\ data.length = Piece(size, i)[2]
  BY <1>5
<1>8. /\ i \in Nat \ {0} /\ (i - 1) * BlockSize <= size
      /\ data.length = Smaller(BlockSize, size - (i - 1) * BlockSize)
      /\ <<data.start, data.length>> \in Int \X Int
  BY <1>1, <1>7 DEF Sent, Piece, Smaller
<1>9. /\ c.block \in Nat /\ c.got \in Seq(Int \X Int) /\ c.host \in 0 .. Hosts
      /\ c.phase \in Phases
  BY <1>6 DEF ClientRecords
<1>10. ack \in UpFrames(c.port)
  <2>1. ack.kind = "ACK" /\ ack.port = c.port /\ ack.block \in Nat
        /\ ack = [kind |-> ack.kind, port |-> ack.port, block |-> ack.block]
    BY <1>7, <1>8, <1>9 DEF Tftp
  <2> HIDE DEF ack
  <2>2. QED
    BY <1>5, <2>1 DEF UpFrames
<1> HIDE DEF ack
<1>11. up'[m] \in Seq(UpFrames(c.port))
  <2>1. up'[m] = up[m] \o <<ack>>
    BY <1>1, <1>2
  <2>2. QED
    BY <1>6, <1>10, <2>1, QueueOfFrames
<1> DEFINE more == Append(c.got, <<data.start, data.length>>)
<1>12. /\ got \in ClientRecords /\ got.host = c.host /\ got.port = c.port
       /\ got.block = i /\ got.got = more /\ got.phase = c.phase
       /\ done \in ClientRecords /\ done.host = c.host /\ done.port = c.port
       /\ done.block = i /\ done.got = more /\ done.phase = "done"
  <2>1. more \in Seq(Int \X Int)
    BY <1>8, <1>9
  <2> HIDE DEF more
  <2>2. got = [c EXCEPT !.block = i, !.got = more]
    BY <1>7 DEF more
  <2> HIDE DEF got
  <2>3. /\ got \in ClientRecords /\ got.host = c.host /\ got.port = c.port
        /\ got.block = i /\ got.got = more /\ got.phase = c.phase
    BY <1>6, <1>8, <2>1, <2>2 DEF ClientRecords
  <2>4. /\ done \in ClientRecords /\ done.host = got.host /\ done.port = got.port
        /\ done.block = got.block /\ done.got = got.got /\ done.phase = "done"
    BY <2>3 DEF ClientRecords, Phases
  <2>5. QED
    BY <2>3, <2>4
<1>13. i = c.block + 1 => Len(more) = i /\ \A j \in 1 .. i : more[j] = Piece(size, j)
  <2> SUFFICES ASSUME i = c.block + 1
               PROVE  Len(more) = i /\ \A j \in 1 .. i : more[j] = Piece(size, j)
    OBVIOUS
  <2>1. Len(c.got) = c.block /\ \A j \in 1 .. c.block : c.got[j] = Piece(size, j)
    BY <1>6 DEF GotRight
  <2>2. PICK x : x = <<data.start, data.length>>
    OBVIOUS
  <2>3. x \in Int \X Int /\ more = Append(c.got, x)
    BY <1>8, <2>2
  <2>4. /\ Len(more) = Len(c.got) + 1
        /\ \A j \in 1 .. Len(c.got) : more[j] = c.got[j]
        /\ more[Len(c.got) + 1] = x
    BY <1>9, <2>3, AppendProperties
  <2> HIDE DEF more
  <2>5. Len(more) = i
    BY <1>9, <2>1, <2>4
  <2>6. ASSUME NEW j \in 1 .. i PROVE more[j] = Piece(size, j)
    <3>1. CASE j = i
      BY <1>7, <1>9, <2>1, <2>2, <2>4, <3>1
    <3>2. CASE j # i
      <4>1. j \in 1 .. c.block
        BY <1>9, <3>2
      <4>2. QED
        BY <2>1, <2>4, <4>1
    <3>3. QED
      BY <3>1, <3>2
  <2>7. QED
    BY <2>5, <2>6
<1> HIDE DEF more, got, done
<1>14. ASSUME data.block = c.block + 1, data.length = BlockSize PROVE GotRight(got, size)
  <2>1. c.phase # "done"
    <3> SUFFICES ASSUME c.phase = "done" PROVE FALSE
      OBVIOUS
    <3>1. i = (size \div BlockSize) + 2
      BY <1>1, <1>6, <1>7, <1>14 DEF GotRight, size
    <3>2. QED
      BY <1>1, <3>1, NoBlockAfterLast DEF size
  <2>2. QED
    BY <1>7, <1>12, <1>13, <1>14, <2>1 DEF GotRight
<1>15. ASSUME data.block = c.block + 1, data.length # BlockSize PROVE GotRight(done, size)
  <2>1. i - 1 \in Nat /\ size - (i - 1) * BlockSize < BlockSize
    BY <1>1, <1>8, <1>15 DEF Smaller, size
  <2>2. i - 1 = size \div BlockSize
    BY <1>1, <1>8, <2>1, LastBlock DEF size
  <2>3. i = (size \div BlockSize) + 1
    BY <1>8, <2>2
  <2>4. QED
    BY <1>7, <1>12, <1>13, <1>15, <2>3 DEF GotRight
<1>16. ClientOK(m, size, client'[m], lease, up'[m], down'[m])
  <2>1. /\ client'[m] \in ClientRecords /\ GotRight(client'[m], size)
        /\ client'[m].port = c.port
        /\ client'[m].host = c.host \/ client'[m].host = NoHost
    BY <1>3, <1>6, <1>12, <1>14, <1>15, RestartedRight DEF c, size
  <2>2. down'[m] = Tail(down[m])
    BY <1>1, <1>2
  <2>3. c.host # NoHost => c.host = lease
    BY <1>1 DEF ClientOK
  <2>4. QED
    BY <1>4, <1>11, <2>1, <2>2, <2>3 DEF ClientOK
<1>17. DOMAIN client' = Clients /\ \A d \in Clients : d # m => client'[d] = client[d]
  BY <1>1 DEF OnData
<1>18. QED
  BY <1>1, <1>2, <1>16, <1>17, InvParts, SameLeasesStep DEF size, lease

LEMMA OnErrorKeeps ==
    ASSUME ServerInv, NEW m \in Modems, OnError(m)
    PROVE  ServerInv'
<1>1. /\ ClientOK(m, file[m].size, client[m], leases[PoolFor(m)][m], up[m], down[m])
      /\ DOMAIN client = Clients /\ DOMAIN up = Clients /\ DOMAIN down = Clients
      /\ m \in Clients
  BY InvParts
<1>2. /\ down[m] # <<>> /\ down' = [down EXCEPT ![m] = Tail(@)]
      /\ UNCHANGED <<file, leases, transfers, client, up, losses, resets>>
  BY DEF OnError, Receiving, Receive
<1>3. ClientOK(m, file[m].size, client'[m], leases[PoolFor(m)][m], up'[m], down'[m])
  BY <1>1, <1>2, QueueOfFrames DEF ClientOK
<1>4. QED
  BY <1>1, <1>2, <1>3, InvParts, SameLeasesStep

(* The transfer timer and a re-initialisation from outside; a deaf modem    *)
(* takes nothing that was on its way.                                       *)
LEMMA RestartKeeps ==
    ASSUME ServerInv, NEW m \in Modems, client' = [client EXCEPT ![m] = Restarted(m)],
           UNCHANGED <<file, leases, transfers, up, losses>>, resets' \in 0 .. MaxResets,
           down' = down \/ down' = [down EXCEPT ![m] = <<>>]
    PROVE  ServerInv'
<1>1. /\ ClientOK(m, file[m].size, client[m], leases[PoolFor(m)][m], up[m], down[m])
      /\ DOMAIN client = Clients /\ DOMAIN up = Clients /\ DOMAIN down = Clients
      /\ m \in Clients
  BY InvParts
<1>2. client'[m] = Restarted(m)
  BY <1>1
<1>3. /\ Restarted(m) \in ClientRecords
      /\ Restarted(m).host = NoHost /\ Restarted(m).port = client[m].port
      /\ GotRight(Restarted(m), file[m].size)
  BY RestartedRight
<1>4. down'[m] \in Seq(DownFrames(client[m].port, leases[PoolFor(m)][m], file[m].size))
  BY <1>1, EmptySeq DEF ClientOK
<1>5. ClientOK(m, file[m].size, client'[m], leases[PoolFor(m)][m], up'[m], down'[m])
  BY <1>1, <1>2, <1>3, <1>4 DEF ClientOK
<1>6. DOMAIN down' = Clients /\ \A d \in Clients : d # m => down'[d] = down[d]
  BY <1>1
<1>7. QED
  BY <1>1, <1>5, <1>6, InvParts, SameLeasesStep

LEMMA LoseKeeps ==
    ASSUME ServerInv, NEW c \in Clients, Lose(c)
    PROVE  ServerInv'
<1>1. /\ ClientOK(c, file[c].size, client[c], leases[PoolFor(c)][c], up[c], down[c])
      /\ DOMAIN client = Clients /\ DOMAIN up = Clients /\ DOMAIN down = Clients
      /\ losses \in 0 .. MaxLosses /\ MaxLosses \in Nat
  BY InvParts, ServerAssumption
<1>2. losses' \in 0 .. MaxLosses
  BY <1>1 DEF Lose
<1>3. CASE up[c] # <<>> /\ up' = [up EXCEPT ![c] = Tail(@)] /\ UNCHANGED down
  <2>1. ClientOK(c, file[c].size, client'[c], leases[PoolFor(c)][c], up'[c], down'[c])
    BY <1>1, <1>3, QueueOfFrames DEF ClientOK, Lose
  <2>2. QED
    BY <1>1, <1>2, <1>3, <2>1, InvParts, SameLeasesStep DEF Lose
<1>4. CASE down[c] # <<>> /\ down' = [down EXCEPT ![c] = Tail(@)] /\ UNCHANGED up
  <2>1. ClientOK(c, file[c].size, client'[c], leases[PoolFor(c)][c], up'[c], down'[c])
    BY <1>1, <1>4, QueueOfFrames DEF ClientOK, Lose
  <2>2. QED
    BY <1>1, <1>2, <1>4, <2>1, InvParts, SameLeasesStep DEF Lose
<1>5. QED
  BY <1>3, <1>4 DEF Lose, Take, Receive

-----------------------------------------------------------------------------
LEMMA ServerInductive == ServerInv /\ [Next]_vars => ServerInv'
<1> SUFFICES ASSUME ServerInv, [Next]_vars PROVE ServerInv'
  OBVIOUS
<1>1. ASSUME NEW c \in Clients, Serve(c) PROVE ServerInv'
  BY <1>1, OnDhcpKeeps, OnTodKeeps, OnReadRequestKeeps, OnAckKeeps DEF Serve
<1>2. ASSUME NEW m \in Modems, TftpTimeout(m) PROVE ServerInv'
  BY <1>2, InvParts, RestartKeeps DEF TftpTimeout
<1>3. ASSUME NEW c \in Clients, Proceed(c) PROVE ServerInv'
  BY <1>2, <1>3, StartDhcpKeeps, OnOfferKeeps, OnDhcpAckKeeps, OnDataKeeps, OnErrorKeeps,
     OnTimeKeeps, TodTimeoutKeeps DEF Proceed
<1>4. ASSUME NEW c \in Clients, Lose(c) PROVE ServerInv'
  BY <1>4, LoseKeeps
<1>5. ASSUME NEW m \in Modems, NEW deaf \in BOOLEAN, Reset(m, deaf) PROVE ServerInv'
  <2>1. resets' \in 0 .. MaxResets
    BY <1>5, InvParts, ServerAssumption DEF Reset
  <2>2. QED
    BY <1>5, <2>1, RestartKeeps DEF Reset
<1>6. CASE UNCHANGED vars
  BY <1>6 DEF vars, ServerInv, ServerOK, ClientOK, PoolFor
<1>7. QED
  BY <1>1, <1>3, <1>4, <1>5, <1>6 DEF Next

(* What every client has and what is under way to it agree with the         *)
(* server's leases and with its files.                                      *)
THEOREM ServerInvCorrect == Spec => []ServerInv
<1>1. QED
  BY InitInv, ServerInductive, PTL DEF Spec

(* Whatever attempts, repetitions and losses came before, no two clients    *)
(* have the same address, and each has the one the server leased to it: an  *)
(* answer carries the lease of the client it goes to, and a lease is for    *)
(* ever (server.py:_allocate, cm.py and cpe.py taking a late answer).       *)
THEOREM LeasesSoundCorrect == Spec => []LeasesSound
<1>1. ServerInv => TypeOK
  <2> SUFFICES ASSUME ServerInv PROVE TypeOK
    OBVIOUS
  <2>1. \A c \in Clients : client[c] \in ClientRecords
    BY InvParts DEF ClientOK
  <2>2. QED
    BY <2>1 DEF ServerInv, ServerOK, TypeOK, ClientRecords
<1>2. ServerInv => AddressesUnique
  <2> SUFFICES ASSUME ServerInv PROVE AddressesUnique
    OBVIOUS
  <2>1. \A c \in Clients : client[c].host # NoHost => client[c].host = leases[PoolFor(c)][c]
    BY InvParts DEF ClientOK
  <2>2. ASSUME NEW c \in Clients, NEW d \in Clients, c # d, PoolFor(c) = PoolFor(d),
               client[c].host # NoHost, client[c].host = client[d].host
        PROVE  FALSE
    <3>1. PoolFor(c) \in Pools
      BY DEF PoolFor, Pools
    <3>2. leases[PoolFor(c)][c] = leases[PoolFor(c)][d] /\ leases[PoolFor(c)][c] # NoHost
      BY <2>1, <2>2
    <3>3. QED
      BY <2>2, <3>1, <3>2, InvParts DEF ServerOK
  <2>3. QED
    BY <2>1, <2>2 DEF AddressesUnique
<1>3. ServerInv => LeasesSound
  BY <1>1, <1>2 DEF LeasesSound
<1>4. QED
  BY <1>3, ServerInvCorrect, PTL

(* A modem goes on only with the whole file, block by block as the server   *)
(* has it, although frames of an earlier transfer to the same port may      *)
(* arrive in the middle of a new one: a block is taken only when it is the  *)
(* next, and every DATA frame carries what the file has at its number.      *)
THEOREM FileWholeCorrect == Spec => []FileWhole
<1>1. ServerInv => FileWhole
  <2> SUFFICES ASSUME ServerInv, NEW m \in Modems, client[m].phase = "done"
               PROVE  client[m].got =
                          [i \in 1 .. BlocksOf(m) |->
                              <<(i - 1) * BlockSize,
                                Smaller(BlockSize, file[m].size - (i - 1) * BlockSize)>>]
    BY DEF FileWhole
  <2>1. client[m] \in ClientRecords /\ GotRight(client[m], file[m].size)
    BY InvParts DEF ClientOK
  <2>2. client[m].got \in Seq(Int \X Int)
    BY <2>1 DEF ClientRecords
  <2>3. /\ Len(client[m].got) = BlocksOf(m) /\ client[m].block = BlocksOf(m)
        /\ \A i \in 1 .. BlocksOf(m) : client[m].got[i] = Piece(file[m].size, i)
    BY <2>1 DEF GotRight, BlocksOf
  <2>4. client[m].got = [i \in 1 .. BlocksOf(m) |-> client[m].got[i]]
    BY <2>2, <2>3, LenProperties
  <2>5. QED
    BY <2>3, <2>4 DEF Piece
<1>2. QED
  BY <1>1, ServerInvCorrect, PTL

=============================================================================
