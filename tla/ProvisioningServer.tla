-------------------------- MODULE ProvisioningServer --------------------------
(***************************************************************************)
(* The provisioning server (provisioning/server.py) and its clients: the   *)
(* DHCP pools with the clients of cm.py and cpe.py, time of day, and the   *)
(* TFTP transfer with the modem's side of it.  A client's frames and the   *)
(* server's arrive in order, if at all.                                    *)
(*                                                                         *)
(* A client's state is what it waits for.  A modem that starts again does  *)
(* so with frames of its earlier attempt under way: those of its DHCP      *)
(* exchange are of another xid, those of its transfer may be of its port.  *)
(***************************************************************************)
EXTENDS Integers, Sequences, FiniteSets

CONSTANTS
    Modems,             \* cable modems: DHCP, time of day, TFTP
    Cpes,               \* hosts behind them: DHCP only
    Hosts,              \* addresses of each pool, in the order they are tried
    Files,              \* configuration files: size, served, intact
    BlockSize,          \* of a TFTP block
    Ports,              \* client ports a modem may choose
    MaxLosses,          \* bound: frames lost
    MaxResets           \* bound: modems re-initialised from outside

Clients == Modems \union Cpes

ASSUME ServerAssumption ==
    /\ Modems \intersect Cpes = {}
    /\ Hosts \in Nat
    /\ Files \subseteq [size : Nat, served : BOOLEAN, intact : BOOLEAN]
    /\ BlockSize \in Nat \ {0}
    /\ {MaxLosses, MaxResets} \subseteq Nat

VARIABLES
    file,               \* the file each modem is to get
    leases,             \* of each pool: who has which address
    transfers,          \* the block each transfer is at, 0 if there is none
    client,             \* what each client waits for and has
    up, down,           \* frames on their way, of each client
    losses, resets      \* how many there were

vars == <<file, leases, transfers, client, up, down, losses, resets>>

Pools == {"cm", "cpe"}
NoHost == 0
NoPort == "none"
Phases == {"off", "dhcp", "time-of-day", "tftp-config", "done"}

(* The CMTS relays with an address that tells modems from their hosts.      *)
PoolFor(c) == IF c \in Modems THEN "cm" ELSE "cpe"

Smaller(a, b) == IF a < b THEN a ELSE b
BlocksOf(m) == (file[m].size \div BlockSize) + 1

Init ==
    /\ file \in [Modems -> Files]
    /\ leases = [p \in Pools |-> [c \in Clients |-> NoHost]]
    /\ transfers = [m \in Modems |-> [p \in Ports |-> 0]]
    /\ client = [c \in Clients |->
           [phase |-> "off", host |-> NoHost, port |-> NoPort, block |-> 0, got |-> <<>>]]
    /\ up = [c \in Clients |-> <<>>]
    /\ down = [c \in Clients |-> <<>>]
    /\ losses = 0
    /\ resets = 0

-----------------------------------------------------------------------------
(* Frames: a kind and what the receiver tells apart.                        *)
Dhcp(kind, host) == [kind |-> kind, current |-> TRUE, host |-> host]
Tftp(kind, port, block) == [kind |-> kind, port |-> port, block |-> block]
Data(port, block, start, length) ==
    [kind |-> "DATA", port |-> port, block |-> block, start |-> start, length |-> length]

IsDhcp(frame) == frame.kind \in {"DISCOVER", "OFFER", "REQUEST", "DHCPACK"}

(* Frames of the earlier attempt have another xid once a new one starts.    *)
Outdated(frames) ==
    [i \in DOMAIN frames |->
        IF IsDhcp(frames[i]) THEN [frames[i] EXCEPT !.current = FALSE] ELSE frames[i]]

Send(c, frames) == up' = [up EXCEPT ![c] = @ \o frames]
Reply(c, frames) == down' = [down EXCEPT ![c] = @ \o frames]

-----------------------------------------------------------------------------
(* The server.                                                              *)

\* Mutant of Free: the addresses in use as well.
FreeAll(p) == 1 .. Hosts

(* A client keeps the address it has; a new one gets the first that is free. *)
Free(p) == {h \in 1 .. Hosts : \A c \in Clients : leases[p][c] # h}
Lowest(hosts) == CHOOSE h \in hosts : \A other \in hosts : h <= other

Allocate(p, c) ==
    IF leases[p][c] # NoHost THEN leases[p][c]
    ELSE IF Free(p) = {} THEN NoHost ELSE Lowest(Free(p))

Take(c) == up' = [up EXCEPT ![c] = Tail(@)]

Answering(request, frame) == [frame EXCEPT !.current = request.current]

(* DISCOVER and REQUEST both allocate; with no address left nothing is sent. *)
OnDhcp(c) ==
    /\ up[c] # <<>> /\ Head(up[c]).kind \in {"DISCOVER", "REQUEST"}
    /\ LET request == Head(up[c])
           host == Allocate(PoolFor(c), c)
           kind == IF request.kind = "DISCOVER" THEN "OFFER" ELSE "DHCPACK"
       IN  /\ leases' = [leases EXCEPT ![PoolFor(c)][c] = host]
           /\ Reply(c, IF host = NoHost THEN <<>>
                       ELSE <<Answering(request, Dhcp(kind, host))>>)
    /\ Take(c)
    /\ UNCHANGED <<file, transfers, client, losses, resets>>

OnTod(c) ==
    /\ up[c] # <<>> /\ Head(up[c]).kind = "TOD"
    /\ Reply(c, <<[kind |-> "TIME"]>>)
    /\ Take(c)
    /\ UNCHANGED <<file, leases, transfers, client, losses, resets>>

Block(m, port, block) ==
    LET start == (block - 1) * BlockSize
    IN  Data(port, block, start, Smaller(BlockSize, file[m].size - start))

(* A read request starts a transfer, also one that is under way.            *)
OnReadRequest(m) ==
    /\ up[m] # <<>> /\ Head(up[m]).kind = "RRQ"
    /\ LET port == Head(up[m]).port
       IN  IF ~file[m].served
           THEN /\ Reply(m, <<Tftp("ERROR", port, 0)>>)
                /\ UNCHANGED transfers
           ELSE /\ transfers' = [transfers EXCEPT ![m][port] = 1]
                /\ Reply(m, <<Block(m, port, 1)>>)
    /\ Take(m)
    /\ UNCHANGED <<file, leases, client, losses, resets>>

(* Only an acknowledgement of the block that was sent last moves a transfer *)
(* on; nothing is ever sent twice.                                          *)
OnAck(m) ==
    /\ up[m] # <<>> /\ Head(up[m]).kind = "ACK"
    /\ LET port == Head(up[m]).port
           block == transfers[m][port]
           last == block * BlockSize >= file[m].size
       IN  IF block = 0 \/ Head(up[m]).block # block
           THEN UNCHANGED <<transfers, down>>
           ELSE /\ transfers' = [transfers EXCEPT ![m][port] = IF last THEN 0 ELSE block + 1]
                /\ Reply(m, IF last THEN <<>> ELSE <<Block(m, port, block + 1)>>)
    /\ Take(m)
    /\ UNCHANGED <<file, leases, client, losses, resets>>

-----------------------------------------------------------------------------
(* The clients.                                                             *)
StartDhcp(c) ==
    /\ client[c].phase = "off"
    /\ client' = [client EXCEPT ![c].phase = "dhcp"]
    /\ up' = [up EXCEPT ![c] = Append(Outdated(@), Dhcp("DISCOVER", NoHost))]
    /\ down' = [down EXCEPT ![c] = Outdated(@)]
    /\ UNCHANGED <<file, leases, transfers, losses, resets>>

Receive(c) == down' = [down EXCEPT ![c] = Tail(@)]
Receiving(c, kinds) == down[c] # <<>> /\ Head(down[c]).kind \in kinds

(* An OFFER is answered and an ACK taken whatever the client's state.       *)
OnOffer(c) ==
    /\ Receiving(c, {"OFFER"})
    /\ IF Head(down[c]).current
       THEN Send(c, <<Dhcp("REQUEST", Head(down[c]).host)>>) ELSE UNCHANGED up
    /\ Receive(c)
    /\ UNCHANGED <<file, leases, transfers, client, losses, resets>>

OnDhcpAck(c) ==
    /\ Receiving(c, {"DHCPACK"})
    /\ IF Head(down[c]).current
       THEN /\ client' = [client EXCEPT ![c].host = Head(down[c]).host,
                             ![c].phase = IF c \in Modems THEN "time-of-day" ELSE "done"]
            /\ Send(c, IF c \in Modems THEN <<[kind |-> "TOD"]>> ELSE <<>>)
       ELSE UNCHANGED <<client, up>>
    /\ Receive(c)
    /\ UNCHANGED <<file, leases, transfers, losses, resets>>

\* Mutant of StartTftp: what an earlier attempt received is kept.
StartTftpKeepsData(m, port) ==
    /\ client' = [client EXCEPT ![m] =
           [@ EXCEPT !.phase = "tftp-config", !.port = port, !.block = 0]]
    /\ Send(m, <<Tftp("RRQ", port, 0)>>)

(* A transfer starts on a port chosen at random, maybe the earlier one.     *)
StartTftp(m, port) ==
    /\ client' = [client EXCEPT ![m] =
           [@ EXCEPT !.phase = "tftp-config", !.port = port, !.block = 0, !.got = <<>>]]
    /\ Send(m, <<Tftp("RRQ", port, 0)>>)

OnTime(m, port) ==
    /\ Receiving(m, {"TIME"})
    /\ IF client[m].phase = "time-of-day" THEN StartTftp(m, port)
       ELSE UNCHANGED <<client, up>>
    /\ Receive(m)
    /\ UNCHANGED <<file, leases, transfers, losses, resets>>

TodTimeout(m, port) ==
    /\ client[m].phase = "time-of-day"
    /\ up[m] = <<>> /\ down[m] = <<>>
    /\ StartTftp(m, port)
    /\ UNCHANGED <<file, leases, transfers, down, losses, resets>>

Restarted(m) == [client[m] EXCEPT !.phase = "off", !.host = NoHost]

(* A block that is not the next one is answered with the last one that was; *)
(* a short one ends the file, which then passes its check or not.           *)
OnData(m) ==
    /\ Receiving(m, {"DATA"})
    /\ LET data == Head(down[m])
           c == client[m]
           next == data.block = c.block + 1
           got == [c EXCEPT !.block = data.block,
                            !.got = Append(@, <<data.start, data.length>>)]
       IN  /\ client' = [client EXCEPT ![m] =
                  IF ~next THEN c
                  ELSE IF data.length = BlockSize THEN got
                  ELSE IF ~file[m].intact THEN Restarted(m)
                  ELSE [got EXCEPT !.phase = "done"]]
           /\ Send(m, <<Tftp("ACK", c.port, IF next THEN data.block ELSE c.block)>>)
    /\ Receive(m)
    /\ UNCHANGED <<file, leases, transfers, losses, resets>>

OnError(m) ==
    /\ Receiving(m, {"ERROR"})
    /\ Receive(m)
    /\ UNCHANGED <<file, leases, transfers, client, up, losses, resets>>

\* Mutant of TftpTimeout: the first block stops the timer.
TftpTimeoutFirst(m) ==
    /\ client[m].phase = "tftp-config" /\ client[m].block = 0
    /\ up[m] = <<>> /\ down[m] = <<>>
    /\ client' = [client EXCEPT ![m] = Restarted(m)]
    /\ UNCHANGED <<file, leases, transfers, up, down, losses, resets>>

(* Nothing comes any more: the transfer timer re-initialises the modem.     *)
TftpTimeout(m) ==
    /\ client[m].phase = "tftp-config"
    /\ up[m] = <<>> /\ down[m] = <<>>
    /\ client' = [client EXCEPT ![m] = Restarted(m)]
    /\ UNCHANGED <<file, leases, transfers, up, down, losses, resets>>

(* The operator, T4 or a timer of an earlier attempt re-initialises it, and *)
(* the scan that follows is deaf to what arrives meanwhile.                 *)
Reset(m, deaf) ==
    /\ client[m].phase # "off"
    /\ resets < MaxResets
    /\ client' = [client EXCEPT ![m] = Restarted(m)]
    /\ down' = IF deaf THEN [down EXCEPT ![m] = <<>>] ELSE down
    /\ resets' = resets + 1
    /\ UNCHANGED <<file, leases, transfers, up, losses>>

Lose(c) ==
    /\ losses < MaxLosses
    /\ losses' = losses + 1
    /\ \/ up[c] # <<>> /\ Take(c) /\ UNCHANGED down
       \/ down[c] # <<>> /\ Receive(c) /\ UNCHANGED up
    /\ UNCHANGED <<file, leases, transfers, client, resets>>

-----------------------------------------------------------------------------
Serve(c) ==
    OnDhcp(c) \/ OnTod(c) \/ (c \in Modems /\ (OnReadRequest(c) \/ OnAck(c)))

Proceed(c) ==
    \/ StartDhcp(c) \/ OnOffer(c) \/ OnDhcpAck(c)
    \/ /\ c \in Modems
       /\ \/ OnData(c) \/ OnError(c) \/ TftpTimeout(c)
          \/ \E port \in Ports : OnTime(c, port) \/ TodTimeout(c, port)

Next ==
    \/ \E c \in Clients : Serve(c) \/ Proceed(c) \/ Lose(c)
    \/ \E m \in Modems, deaf \in BOOLEAN : Reset(m, deaf)

Spec == Init /\ [][Next]_vars
FairSpec == Spec /\ \A c \in Clients : WF_vars(Serve(c)) /\ WF_vars(Proceed(c))
-----------------------------------------------------------------------------
(* Leases, transfers and clients keep their types.                          *)
TypeOK ==
    /\ file \in [Modems -> Files]
    /\ leases \in [Pools -> [Clients -> 0 .. Hosts]]
    /\ transfers \in [Modems -> [Ports -> Nat]]
    /\ \A c \in Clients :
           /\ client[c].phase \in Phases
           /\ client[c].host \in 0 .. Hosts
           /\ client[c].port \in Ports \union {NoPort}
           /\ client[c].block \in Nat
    /\ losses \in 0 .. MaxLosses
    /\ resets \in 0 .. MaxResets

(* No address is used by two clients, and each uses the one the server has  *)
(* leased to it, whatever attempts and answers came before.                 *)
AddressesUnique ==
    /\ \A c \in Clients :
           client[c].host # NoHost => client[c].host = leases[PoolFor(c)][c]
    /\ \A c, d \in Clients :
           c # d /\ PoolFor(c) = PoolFor(d) /\ client[c].host # NoHost
               => client[c].host # client[d].host

(* The leases are sound, and so is what the clients made of them.           *)
LeasesSound == TypeOK /\ AddressesUnique

(* The file a modem goes on with is the server's, whole and in order:       *)
(* nothing that was lost, came twice or belonged to an earlier transfer     *)
(* leaves a hole or a repetition.                                           *)
FileWhole ==
    \A m \in Modems :
        client[m].phase = "done"
            => client[m].got =
                   [i \in 1 .. BlocksOf(m) |->
                       <<(i - 1) * BlockSize,
                         Smaller(BlockSize, file[m].size - (i - 1) * BlockSize)>>]

(* DHCP is served unless a frame is lost (nobody repeats one) or the pool   *)
(* is empty.                                                                *)
AddressObtained ==
    \A c \in Clients :
        client[c].phase = "dhcp"
            ~> \/ client[c].phase # "dhcp"
               \/ losses > 0
               \/ leases[PoolFor(c)][c] = NoHost /\ Free(PoolFor(c)) = {}

(* A modem whose file is good gets it in the end, however frames are lost   *)
(* on the way, because the transfer timer makes it start again -- unless    *)
(* the file is a whole number of blocks (the server sends no empty last     *)
(* block), or a DHCP frame of the new start is lost.                        *)
FileArrives ==
    \A m \in Modems :
        file[m].served /\ file[m].intact /\ file[m].size % BlockSize # 0
            => (client[m].phase = "tftp-config"
                    ~> client[m].phase = "done"
                       \/ (client[m].phase = "dhcp" /\ losses > 0))

(* Provisioning comes to an end for every client, but for the cases named.  *)
ProvisioningEnds == AddressObtained /\ FileArrives
=============================================================================
