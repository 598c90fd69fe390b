# A TLA+ model of the virtual CMTS laboratory

The program simulates a DOCSIS cable plant: a CMTS, cable modems with hosts
behind them, the HFC plant between them and the provisioning server behind the
CMTS, all in one process on a virtual clock. This directory holds TLA+ modules
of its control logic, TLC configurations that check them on small instances, and
theorems that TLAPS proves for every value of the constants. Paths are relative
to `src/docsislab/`.

Contents: the parts of the system; the modules; the runs; the bounds and the
fairness; the proofs; where the code and its words disagree; what is not
modelled; the plan.

## The parts of the system

| Part | State it keeps | Operations | What makes it correct |
| --- | --- | --- | --- |
| Simulation kernel, `lab/sim.py` | clock, event heap, pollers | `at`, `after`, `every`, `cancel`, `run`, `drain`, `stop` | events run in order of time, then of scheduling; the clock never goes back; a cancelled timer never fires |
| Upstream scheduler, `cmts/scheduler.py` | pending requests, due times of station maintenance, SIDs still ranging, next mini-slot | `add_request`, `track_modem`, `untrack_modem`, `ranging_complete`, `build` | MAPs tile the mini-slots, come in time, never hand a mini-slot out twice; every request is answered, every poll is on time |
| CMTS, `cmts/cmts.py`, `cmts/modemdb.py` | one record and SID per MAC address, CPE owners, the region owners of the MAPs sent | handlers of RNG-REQ, REG-REQ, REG-ACK, Request, data PDU; SYNC, UCD and MAP timers; DHCP relay, routing | a SID belongs to one modem, a modem is polled on one channel, service is given and taken away only by registration |
| Cable modem, `cm/cm.py` | state, SID, UCD, timebase, upstream queue, outstanding request, nine timers, configuration | handlers of SYNC, UCD, MAP, RNG-RSP, UCC-REQ, REG-RSP, DHCP, ToD, TFTP, of each timer and of frames from the LAN | comes into service or is rejected, waits for nothing in vain, leaves no frame in the queue |
| HFC plant, `phy/plant.py` | bursts in flight, noise windows, loss probabilities, downstream busy time | `send_downstream`, `transmit_upstream`, `inject_noise` | bursts that overlap at the CMTS destroy each other, others do not |
| Provisioning server, `provisioning/server.py` | leases, TFTP transfers, files | DHCP, ToD and TFTP handlers | one address per client, a transfer ends with the whole file |
| IP stack, `net/stack.py` | ARP cache, packets waiting for it | `send_ip`, `receive` | every packet goes to the right MAC address or waits |
| CPE, `cm/cpe.py` | address, pings under way | DHCP, ping | a ping is answered or given up, once, and by what it asked |
| Timebase, `util/clock.py` with `cm.py`, `cmts.py` | the CMTS's clock, the modem's offset from it, the region table | SYNC, MAP and ranging on both sides | a burst lands in the region it was granted |
| Upstream profiles, `phy/channel.py` | - | bytes to mini-slots and back, the modem's request, the CMTS's choice of profile | a grant holds what was asked for, and a burst does not outlast its grant |
| Configuration files, `docsis/cfgfile.py`, `util/tlv.py` | - | `build`, `encode`, `decode`, `verify`, both digests | what the author wrote is what the CMTS admits; a changed file is refused |
| Control socket, `lab/control.py` | request queue, client threads | `_client`, `pump` | each client gets the answer to its request |
| CLI, runner, dashboard, log, capture, message codecs | display, wiring, encodings | - | - |

**How they interact.** There is one event queue. The plant turns a transmission
into two events: the modem's burst arrives at the CMTS after the propagation
delay (`_on_upstream_burst`), a downstream frame at every modem after its
serialisation and propagation (`_on_downstream_frame`). CMTS and server exchange
Ethernet frames with a delay of 50 microseconds. The CMTS's MAP timer calls
`UpstreamScheduler.build`; the MAP tells the modems when to send, and the modem
schedules `_transmit` for the mini-slot. The CMTS finds out who sent a burst by
comparing its arrival with the regions of the MAPs it sent. The only threads are
the control socket's; they hand requests to the simulation's poll.

**What is hard.** A handler is atomic, so there are no data races; the
difficulty is in the order of handlers. Frames and bursts are lost (loss
probability, noise, collisions); a modem may be re-initialised or moved at any
moment, with its transmissions scheduled and its answers under way; timers that
are not cancelled fire in states their author did not have in mind; the CMTS and
the modem keep two views of one modem that only messages reconcile; mini-slot
arithmetic rounds. `PROJECT.json` lists each such place at its line, with the
properties about it.

## The modules

| Module | What it models |
| --- | --- |
| `UpstreamScheduler` | `UpstreamScheduler` with its timer: requests, polls, grants, MAPs, on an integer clock |
| `ModemHandlers` | the modem as a record and each handler of `cm/cm.py` as an operator from modems to modems (or to the set of modems that may result) |
| `CableModem` | one modem run by those handlers, against a CMTS that answers what it heard, on a network that loses frames |
| `UpstreamMedium` | `transmit_upstream`: propagation, collisions, noise, loss, and what the CMTS is told of each burst |
| `Cmts` | the modem database, and which scheduler polls which SID: one operator per handler |
| `ModemService` | the abstract specification of a modem: the stages of its life and what it was configured for |
| `Bringup` | several modems coming up against `Cmts`: ranging, DHCP, ToD, TFTP, registration, with frames in flight both ways, losses, re-initialisations and moves |
| `SimScheduler` | the event queue, repeating timers, `run` and `drain`, pollers and the pacing of virtual time |
| `ControlSocket` | client threads with their time-outs, on the loop of `SimScheduler` |
| `ProvisioningServer` | the server's DHCP pools, time of day and TFTP, with the clients' side of each |
| `Timebase` | SYNC, the downstream it queues for, the modem's clock, MAPs turned into transmit times, ranging |
| `IpStack` | an interface's ARP cache and waiting packets: what it makes of each frame |
| `Forwarding` | hosts, modems, CMTS and server joined by `IpStack`s: bridging, learning, filtering, routing, pings |
| `BurstSizing` | queue, request, grant and burst of one modem, with the arithmetic of the profiles |
| `Registration` | the configuration file from its compiler to the service flows the CMTS admits |
| `UpstreamScheduler_proofs` | the theorems about `UpstreamScheduler` and `BurstSizing` |
| `Bringup_proofs` | those about `Cmts`, `UpstreamMedium` and `Bringup` |
| `CableModem_proofs`, `ControlSocket_proofs`, `ProvisioningServer_proofs`, `Forwarding_proofs`, `Registration_proofs`, `Timebase_proofs` | those about the module of the same name |
| `MC...` | the instances that need more than a `.cfg` can say |

**UpstreamScheduler.** A dictionary is a total function and a set of keys:
`tracked` has the keys of `station_maint_due`, `maintDue` the values, and
`pending[s] = 0` is a SID without a request. `Build` is the whole of `build()`:
the start of the MAP (`AllocStart`), the Initial Maintenance region
(`InitialLength`), the polls in SID order until one does not fit (`Polled`), the
grants, and the Request region. The grants of a MAP depend on each other in SID
order; `Places` states what the data loop computes, an offset for each waiting
SID, without the loop, and `NoRoom`, `NothingToGrant` and `Grantees` are the SIDs
that take each of the three ways through its body, with the IE each appends. Times are integers in a unit that divides
the mini-slot and the intervals.

**ModemHandlers, CableModem.** `modem` is the attributes of `CableModem` that
decide what it does next; `timers` is the set of armed timers. A handler with
several outcomes that depend on data left out (does the head of the queue fit
the grant?) returns the set of results. `CableModem` adds what the modem does
not know: the answers it is owed, the channel the CMTS polls it on and the one
it holds a request on. A `"lost-T6"` timer is one whose handle was overwritten
while it ran.

**ModemService** says of a modem what others rely on: the stages come in their
order, service follows configuration, and what a modem was configured for lasts
until it starts over. `CableModem` maps its thirteen states to six stages (`Stage`)
and `registered` to `configured`; `ImplementsService` is the refinement. The
abstract `Move` leaves service only, since both runs let the operator move a modem
in service only (`UccOnlyOnline`).

**UpstreamMedium.** `bursts` is the history of bursts and `inflight` the list
the code compares a new burst with; the two are apart because the code prunes
the second. `verdict` is what `_on_upstream_burst` saw. The names of this module and
of `BurstSizing` that others have too start with `Medium` and `Sizing`
(`MediumInit`, `SizingSpec`), so that one module of proofs can extend two.

**Cmts.** `sid`, `bySid`, `nextSid` are `ModemDatabase`; `channel`, `state`,
`access` the fields of a record; `tracked`, `ranging` the scheduler of each
channel. The guard of a REG-REQ's admission is its input (`verdict`), and
`usable` says whether a ranging burst landed where it should. A REG-ACK always
carries the code OKAY, the only one the modem sends.

**Bringup** EXTENDS `Cmts`, and each modem is the step it is at, the channel it
is on, the SID it believes in and its queue: coarser than `CableModem`, so that
two of them and everything in flight between them can be explored. Losses
happen to bursts, to messages and inside the server's exchange; `Reset` is a
re-initialisation from outside; `TestUcc` the operator's move. A frame waits in
the queue for its grant (`Transmit`); requests and MAPs are left to
`UpstreamScheduler` and `CableModem`. Ranging exchanges are not queued in the
code either.

**SimScheduler, ControlSocket.** The queue is a set of events with a time, an age
and what they run; `stage` is where the loop is, so that a client thread acts
between any two steps of it. `EventRuns` is one event with whatever its callback
does: schedule, cancel, call `stop`. Wall time passes only while somebody sleeps
or waits. `ControlSocket` EXTENDS the loop: a request is put into `inbox`, `Pump`
executes it from the poll, and the client waits on a reply queue of the request's
own. `pump()` drains its queue until it is empty; the bound on the requests of a
client bounds that.

**ProvisioningServer.** Frames of a client and of the server to it stay in order.
A client's state is what it waits for; a modem that starts again does so with the
frames of its earlier attempt under way, which its DHCP `xid` and TFTP port tell
apart, or do not (a port may be chosen again). A lease is taken at DISCOVER.

**Timebase.** Time is a number of clock counts, and the modulus of the timestamp a
constant, so that it wraps in a small instance. `busy` is when the downstream has
sent what was queued: a SYNC's timestamp is latched when it is queued and leaves
at `busy`. `clock` is what the modem adds to its own time; ranging trims it. The
scheduler is the one of `UpstreamScheduler` reduced to ranging regions. A frame in
flight carries when it was queued and when it arrives, next to its message.

**IpStack, Forwarding.** `IpStack` has operators from a stack and a frame to a
stack and the frames it sends. `Forwarding` gives one to each interface (both of
the CMTS's), and joins them by what modem and CMTS do with a frame: bridge, learn,
drop, route. A `Hop` is one event of the plant or the wire.

**BurstSizing.** A frame is its length; `BytesPerMinislot`, `FecEncodedSize`,
`MinislotsFor` and `PayloadCapacity` are the code's, over integers. One modem's
request is heard or lost, granted under the profile `IucFor` picks, in one piece
or several, and `UseDataGrant` fills the grant. `owed` is the CMTS's `pending`.
`PayloadCapacity` is the binary search of the code, step for step.

**Registration.** A file is a sequence of settings, a digest what went into it, so
two digests are equal exactly when that is. `Given` is the field a number is compiled
into, of a width: what is beyond it is cut off. The operator compiles files and
serves damaged ones: cut short, a setting lost, shortened or exchanged with its
neighbour. The CMTS digests the same settings in another order and with its
secret, after the modem has added its capabilities.

## The runs

| Run | Question | Properties |
| --- | --- | --- |
| `maps` | is every MAP well formed, on time and fair to what is pending? | `RegionsDisjoint`, `DataShare`, `PollsOnTime`, `MapsInTurn`, `EveryRequestAnswered` |
| `modem` | is a modem on one channel always on its way somewhere? | `Attended`, `QueueAsksForBandwidth`, `ImplementsService` (refinement) |
| `modem_moves` | what does a move between channels disturb? | `Attended`, `StaysOnUpstream`, `WaitsKept`, `ImplementsService` |
| `medium` | are exactly the overlapping bursts destroyed? | `CollideAsOverlap`, `VerdictStands` |
| `bringup` | does a modem come up, and do CMTS and modem agree? | `SidsAgree`, `ForwardsAsConfigured`, `InServiceTogether`, `BringupEnds` (liveness) |
| `bringup_two` | do modems that come up together get in each other's way? | `SidsOwned`, `PolledOnItsChannel` |
| `kernel` | do events run in turn, timers stay cancelled, and clients get their answers, at any speed? | `LoopSound`, `RequestsRight`, `KeepsTime`, `GoesOn` (liveness) |
| `server` | does every client get its own address and its whole file? | `LeasesSound`, `FileWhole`, `ProvisioningEnds` (liveness) |
| `timebase` | does a burst land where it was granted? | `BurstsLand`, `ClockSteady`, `OffsetAgreed` |
| `forwarding` | do frames reach whom they should, and nobody else? | `DeliveredRight`, `KeptOut`, `AnswerArrives` (liveness) |
| `sizing` | do requests, grants and bursts fit each other? | `GrantsFit`, `BurstFits`, `DrainsUnlessShort` (liveness) |
| `registration` | is what is admitted what was written, and only that? | `VerdictsRight`, `ServedAsRead`, `FlowsIdentified`, `Settles` (liveness) |

All of them pass. Some properties conjoin what belongs together, each part with a
comment of its own in its module:

- `DataShare`: `ContentionReserved` and `WaitOnlyWhenFull`; `MapsInTurn`: `MapsTile`
  and `MapsAhead`; `CollideAsOverlap`: `OverlappingCollide` and `CollisionHasCause`;
- `Attended`: `CableModem`'s `TypeOK`, `Watched`, `TimedWaits`, `PollsCome` and
  `SidBeforeData`;
- `SidsAgree`: `Bringup`'s `TypeOK` and `SidKept`;
- `LoopSound`: `TypeOK` and `SeriesArmed`; `RequestsRight`: `AnswersOwn` and
  `ExecutedOnceInOrder`; `KeepsTime`: `TimeForward`, `RunsInTurn` and `SleepsShort`;
  `GoesOn`: `EveryRequestAnswered` and `TimePasses`;
- `LeasesSound`: `TypeOK` and `AddressesUnique`; `ProvisioningEnds`:
  `AddressObtained` and `FileArrives`;
- `BurstsLand`: `TypeOK`, `SyncsTimely`, `ClockLags`, `LandsInRegion`, `OwnersKept`
  and `NeverMissed`;
- `DeliveredRight`: `TypeOK`, `CountedOnce`, `AnswersOwn` and `CachesRight`;
- `GrantsFit`: `SizingTypeOK`, `CapacityExact` and `WastesOne`;
- `VerdictsRight`: `RequestsRead`, `AdmittedAsBuilt` and `RefusedForCause`;
  `FlowsIdentified`: `TypeOK` and `SfidsUnique`.

The type invariants of `UpstreamScheduler`, `UpstreamMedium` and `Cmts`, and
`NoiseDestroys` and `LeavesServiceRefused`, are proved for every instance and not
checked again by a run.

**Bounds.** `maps`: two SIDs, four mini-slots to a MAP, so that the polls (two
mini-slots each), an Initial Maintenance region, a grant and the Request region do
not all fit and each of the competitions happens: SID 1 always gets its poll, SID 2
is starved whenever Initial Maintenance and SID 1 come first; three MAP intervals, so that both cadences
(4 and 20 units) come due, or do not. Requests of one and three mini-slots are
below and above what is free. `modem`: one queued host frame, one scheduled
transmission ahead of a MAP, two ranging retries instead of sixteen (the counter
is compared with the limit only). `modem_moves`: two channels are all a modem
tells apart. `medium`: three bursts are one more than a pair, so that a burst
may be pruned before a third one comes; the delays differ by more than a burst
lasts, so arrivals overtake. `bringup`: one loss *or* failed exchange, and one
re-initialisation or move, anywhere; two channels; every kind of configuration
file. (With two re-initialisations or moves, 1.5 million states and longer than
a routine run, the same properties hold.) `bringup_two`: as many SIDs as modems,
so the allocator wraps; the losses are left to `bringup`.

`kernel`: a repeating timer (interval 3), polls every 2, two single shots with
delays that may be negative, four units of time, one client with two requests, so
that the second is sent while the first, given up, is still queued; scales that
are unpaced or real time. `server`: three clients, the two hosts compete for one
address; a block is two bytes, and there is a file of each kind (short last
block, whole blocks, absent, changed); one loss and one re-initialisation, with
two ports so that the new transfer takes the old port or another. `timebase`: the
timestamp wraps every 121 counts, so a behaviour of 400 sees it wrap three times
while the modem holds the timebase; one modem in reach and one beyond it (12 and
30 counts, engineered for 12); one frame of other traffic at a time in the
downstream's queue, up to two in all, a loss and a re-initialisation. That frame is
longer than a mini-slot (14 counts and 10), so what a SYNC waits for it is more
than the slack of the receiver, and bursts do leave their regions; the advance (70)
is enough for two such waits, as the code's own comment asks.
`forwarding`: two modems with a host each, one
denied access; a host pings through the CMTS, the CMTS itself and a modem; one
lost frame or re-initialised modem. `sizing`: lengths on both sides of every
threshold (74 and 300 bytes fit the short profile's longest grant, 390 do not, 400
is the limit of short, 1528 is the longest frame), two queued, two MAPs on their way, two faults, MAPs with no
room, ten mini-slots or all. `registration`: two modems, three files (admissible,
closed with two upstream flows, refused for its second flow), one edit of any
kind and one lost message or re-initialisation, the right and another secret. A
byte and a 16-bit field have their width, a 32-bit one holds a thousand numbers: one
file asks for 256 CPEs, a priority of 257 and a rate of 1002, beyond the limit as it
stands and within it once cut off.
Every bound is a constant named as one.

`CHECK_DEADLOCK FALSE` is there because these systems really may stop: at the
end of bounded time (`maps`, `medium`, `timebase`, `kernel`), for a modem that is
powered off or rejected (`modem`, `registration`), for a stranded modem
(`bringup`), for a client that lost its exchange (`server`), and when the pings
are done (`forwarding`). `sizing` always goes on.

**Fairness.** What is enabled in a model of this system is, with few exceptions,
a scheduled event or a repeating timer, and `run` executes every event before its
time passes: weak fairness of such steps is what the event queue guarantees, and
`SimScheduler` shows it of the queue itself. `Bringup`, `ProvisioningServer`,
`Forwarding` (`Hop`), `BurstSizing` and `Registration` ask for it of each step of
the modem, the CMTS, the server and the link, and of the expiry of timers. That a
queued frame gets a grant (`Transmit` of `Bringup`) is `EveryRequestAnswered` and,
for polls, `PollsOnTime`. `ControlSocket` asks it of the loop, of the wall clock
and of the waiting threads, which are the operating system's to schedule. No
fairness is asked of losses, resets, damages and the operator. A timer is
enabled only once what it waits for is no longer on its way: each of them (T3
200 ms, T6 3 s, ToD 3 s, TFTP 5 s) is far longer than the exchange it watches,
whose delays are milliseconds. (`Forwarding` and `CableModem` do without that:
there timers expire at any time.)

**Mutants.** Each property of a passing run is accompanied in `PROJECT.json` by
a plausible error in one definition which makes TLC refute it, so no property
holds by the shape of the model alone.

## The proofs

TLAPS checks every theorem to the last leaf; all are safety. A proof by induction
over a sequence takes the least place at which a set fails to hold (`UpTo`,
`InductionUpTo`), since the library's induction theorems take a predicate.

*UpstreamScheduler_proofs*: `TypeOK`, `RegionsDisjoint`, `MapsTile`,
`MapsAhead`, `EveryRequestAnswered`, `DataShare` and `PollsOnTime`, for any set of
SIDs, any mini-slot and any interval. `TypeOK` is inductive; the invariant for
`MapsTile` adds that `nextMinislot` is never before the end of the last MAP; those
for `RegionsDisjoint` and `DataShare` say where each region of a MAP lies, which is
a fact about `Build` alone (the places of the grants are defined in SID order
without a recursion, so a least SID that violates the bound is the way in).
`PollsOnTime` compares a due time with the clock and is not inductive: `OnTimeInv`
compares it with the MAP timer instead, which is never late; what it promises is for
the SIDs whose poll fits a MAP together with those of all lower SIDs (`RoomUpTo`),
the others may starve. `EveryRequestAnswered` rests on the loop's three ways being
all there are (`LoopAnswers`), and on no MAP being like the one before it
(`MapEndInv` again). Assumptions: SIDs and
sizes are naturals, a mini-slot is not empty, and the first MAP is built within an
interval (`cmts/cmts.py:168-170`).

*UpstreamScheduler_proofs*, second part, about `BurstSizing`, for every channel,
every profile of the advanced PHY and every length of frame. `SizingTypeCorrect`:
requests and grants stay within the eight bits of a Request frame.
`BurstFitsCorrect`: whatever leaves in a grant fits it, with concatenation header,
parity and preamble. It rests on the search of `payload_capacity`: halving the range
keeps the answer (`LargestStep`), so the recursive function exists and is the table of
the answers (`Largest`); and `MinislotsFor` grows with the payload (`MinislotsGrow`),
so that what is no longer than the capacity fits too. `CapacityExactCorrect`: one byte more would
not fit, if a mini-slot of every profile is a whole number of bytes (`WholeBytes`).
A channel with a multiple of eight symbols to a mini-slot is of that kind (64 and
128 in the shipped topologies). Others need not be: the search ends at
`minislots * bytes_per_minislot + 1`, and with 4 bits to a mini-slot (a 200 kHz
channel, mini-slots of one tick) that is 1 whatever the grant holds.

*Bringup_proofs*, of `Cmts` alone: `CmtsTypeOK`, `SidsOwned`, `PolledOnItsChannel` and
`LeavesServiceRefused`, for any number of modems, channels and SIDs. The
argument: `allocate_sid` does not look whether a SID is free, but SIDs are handed
out in order and records are never removed, so the SIDs in use are the first
ones, as many as there are records (`SidsInOrder`); the allocator reaches a used
one only when every modem has one. `TrackedOwned` (no scheduler polls a SID
without a record) is needed for `PolledOnItsChannel`, since a new SID must not
be polled anywhere yet. Assumption `EnoughSids`: no more modems range than there
are SIDs (8191); nothing in the code ensures it, and with more the theorem is
false.

*Bringup_proofs*, of the plant: `ImplementsCmts`, that the composed plant implements
`CmtsSpec`: every step of the modems, the network and the operator is one
handler's step or leaves the CMTS alone. The invariant `Sent` says that a burst
on its way names a channel of the plant and a file is one of the files, so the
handlers are called with arguments they accept. The three properties of
`Cmts` follow for the plant (`PlantSidsOwned`,
`PlantPolledOnItsChannel`, `PlantLeavesServiceRefused`).

Then come `SidsAgree`, `ForwardsAsConfigured` and
`InServiceTogether`, for any number of modems, losses, resets and moves. None of
them is inductive, since they relate the modem to a record that only messages
change; `BringupInv` says, of every modem, what those messages may be (`Life`):
whatever it has yet to hear is `Truthful`, a REG-ACK it has queued or in the air
means that its file was admitted, and a modem that scans has an empty queue and
hears nothing, so that a REG-ACK left in the air by its last life does not reach
into the next. TLC checked `BringupInv` on both instances first. Assumption:
`EnoughSids`, as above.

*Bringup_proofs*, of `UpstreamMedium`: all its properties, for any number of modems
at any distance. The invariant `MediumInv` adds that the list of bursts in flight
holds every burst that has not arrived (`Remembers`, `Arrived`):
`OverlappingCollide` alone is not inductive, since a burst pruned too early could
not be hit by a later one.

*CableModem_proofs*: what holds of a modem is shown of each handler of
`ModemHandlers` first, then of the steps that run them. `ModemInv` (types, the
timers of each state, and that requests and data are sent under a SID) is
inductive for every plant and gives `Watched` without a hypothesis. The other
theorems have one each, because the code breaks the property without it:

- `QueueAsksForBandwidth` if the operator moves no modem: a moved one may queue an
  answer to a host while it has no upstream, and nothing asks for bandwidth when it
  is back in service, until the next frame is queued.
- `Attended`, `ImplementsService` and `StaysOnUpstream` if the operator moves only
  modems in service, as in the runs; for any number of channels, late MAPs, losses
  and resets. For `Attended` the invariant adds which timer runs in each wait that
  has one (`Waits`), and which channel polls a modem that ranges (`PollsInv`). It does
  not say that every wait ends, since the code has waits that nothing ends: DHCP, a
  registration whose REG-ACK is gone, ranging on a channel taken unranged. What it
  does say is how far they go: `TimedWaits` lists the waits with a timer, and
  `PollsCome` names the stranded modem as the only one that waits for a poll that
  nobody sends. `WaitsKept`, checked by TLC only, says that nothing but a lost frame
  or a grant that came too late takes away what DHCP or registration waits for.
- All three rest on `DialogueInv`: provisioning is a dialogue, and of
  the frames that carry it on (`DISCOVER`, `REQUEST`, `RRQ`, `ACK`, `REG-REQ`,
  `REG-ACK`) and the answers to them at most one is queued, in the air or owed, and
  it belongs to the state the modem is in. With it, a modem that is registered is
  operational or ranges, every state but the early ones and ranging-wait has an
  upstream, and a UCC-RSP that names a channel is held by a registered modem only
  (`Orderly`). Each handler is shown to idle (`Idles`), to continue its place in
  the dialogue (`Continues`) or to go on to a stage `ModemService` allows
  (`Proceeds`). The command itself takes any modem the CMTS knows: a modem ordered
  to move while it registers may send its REG-ACK and its UCC-RSP in one burst, is
  registered and leaves its upstream at once, and goes from provisioning to ranging
  as a registered modem, a step the abstract modem does not have, and so does it
  leave a channel that polled it.

*ControlSocket_proofs*: `LoopSound`, `RequestsRight` and the three parts of
`KeepsTime`, for any repeating timers, delays, clients and speeds. `LoopInv` says
that every live series has one event in the queue, not before its time, and every
event an age of its own, so the order of the queue is total. `RequestsInv` says
that what was executed comes before what is in the inbox, client by client, and
that an answer is the one of its request. `TimeForward` and `RunsInTurn` have no
hypothesis. The third part, `SleepsShort`, is proved as `KeepsTimeCorrect` under
two: nobody makes the simulation slower while it runs (the divergence below), and
a lab slower than the wall clock has something in its queue, since the idle sleep
is not scaled; `KeepsTimeAtWallClockSpeed` is the case in which neither can fail.
Assumption: the idle step is no longer than the poll interval.

*ProvisioningServer_proofs*: `LeasesSound` and `FileWhole`, for any number of
clients, addresses and ports, any files, losses and resets. `ServerInv` says what
may be on its way: an address only if it is leased to the client the frame goes
to, a TFTP block only as the file has it at that place, and a block only if the
one before it did not reach the end. So a DATA frame of an earlier transfer on the
same port, which the modem cannot tell from a current one, does no harm: it
carries the same piece.

*Forwarding_proofs*: `DeliveredRight` and `KeptOut`, for any number of modems and
hosts. `ForwardingInv` says of each stack, and of each frame under way, that a
packet is a ping its host sent or the answer to one, that whoever gets it answers
by the way it came, that a cache has the next hop or nothing, and that no stack
beyond the modems knows a host whose modem has no network access. Assumption
(`TopologyAssumption`): the next hops lead there and back, as the code's routes
do.

*Registration_proofs*: `FlowsIdentified` and `ServedAsRead`, for any modems,
specifications of files, edits, secrets and losses.

- `RegistrationInv`: at most one message is on its way between a modem and the CMTS
  (`OneMessage`), and every SFID in a record has been handed out (`SfidsIssued`).
  What admission does to a list of flows is a lemma (`Admitted`): they get the next
  SFIDs in turn, a flow too many refuses all of them, and the SFIDs it used up are
  not given again.
- `VerdictInv` (`Right`, for each modem): an "OK" or a REG-ACK on its way stands for
  a record that holds what was read in the last REG-REQ, whose digests verified and
  whose flows were all admitted (`Good`), and a modem that is about to ask again was
  put back to `init(rc)` before, so that no verdict on an earlier file is left.
  Without the second half, a REG-ACK would take a refused modem into service. It
  needs no hypothesis. `ServedAsRead` is about the record and the file that was
  read: in service as read, or refused for a cause, and then with the access, the
  CPEs and the privacy of the refused file. What the digests and filters make of a
  file's settings is left as it is computed, and is `VerdictsRight`'s to check.

*Timebase_proofs*: `TypeOK`, `OffsetAgreed`, `ClockLags` and `ClockSteady`, for any
delay, lengths, intervals and width of the timestamp. `TimebaseInv` says that frames
arrive in the order they were queued, each after its time on the wire, that a SYNC
carries the time it was queued at, and that a modem which has never started over
hears no answer before it has asked (`Fresh`: a scanning modem drops what it hears,
corrections too). `OffsetAgreed` then needs only what a frame that joins or leaves
the line adds to the sum of the corrections (`Corrections`).

`ClockLagsCorrect` and `ClockSteadyCorrect` say that the modem's clock is late by its
distance and what a SYNC waited, up to whole turns of the timestamp, and that no
SYNC moves it further than that, over any number of wraps. Both have the hypothesis
`[]SyncsTimely`: no SYNC waits longer than `WaitBound` for the downstream. The code
does not ensure it, since nothing limits what the CMTS queues; with
`WaitAssumption`, that such a wait is less than half a turn (209 s), it is all the
argument needs. `SyncsTimely` is a conjunct of `BurstsLand`, so the run checks it.

Only model-checked:

- liveness (`BringupEnds`, `GoesOn`, `ProvisioningEnds`, `AnswerArrives`,
  `DrainsUnlessShort`, `Settles`), which this prover does not handle under fairness;
- of `BurstsLand`: `SyncsTimely`, `LandsInRegion`, `OwnersKept` and `NeverMissed`.
  They hold because of the numbers: how long a ranging exchange takes against the
  cadence of polls, how many MAPs the table of regions covers, how long the CMTS's
  own messages are against their intervals;
- of `GrantsFit`: `WastesOne`, for the same reason. It is false on other channels
  (see `_sizing_iuc` below);
- `VerdictsRight`, which is about what `SelectSeq` and the two digests make of every
  file: induction over data. Proved is the half of it in which the file is what the
  CMTS reads (`ServedAsRead`);
- `WaitsKept` of `CableModem`.

## Where the code and its words disagree

Each of these was met while modelling. TLC refuted the property in question on
the model, and where a run covers the place its property now says what does hold,
with the exception named in it.

*MAPs and timing*

- `span` rounds the MAP interval to whole mini-slots (`cmts/scheduler.py:126`).
  When it rounds up, every MAP is further ahead of the clock than the last: with
  `map_interval=0.00412`, half a second after 100000 MAPs.
- The SYNC timestamp is latched when the frame is queued (`cmts/cmts.py:198`),
  against the comment above it that it "must reflect the moment of transmission,
  not the moment of scheduling". A frame of 1500 bytes ahead
  of it shifts the modem's clock by up to 926 microseconds, and bursts leave their
  regions. `LandsInRegion` says by how much: the longest wait of a SYNC the modem has
  heard (`waited`, a history) and its jitter, less the mini-slot of slack; in the
  run the excess does occur.
- The timestamp wraps after 419.43 s and mini-slot numbers do not: a modem that
  acquires its clock after that sends whole turns too late and never comes up. One
  that holds the timebase follows it (`ClockSteady`).
- The CMTS adds every correction to a modem's `timing_offset` and does not begin
  again when the modem does: after a re-initialisation the record shows twice the
  offset (`OffsetAgreed` excepts it).
- The pace is computed with the speed of the moment from the start of `run`
  (`lab/sim.py:170`): half a second at speed 0 and then 1.0 makes the loop sleep
  for 440 s, polls and control socket included. `SleepsShort` holds at one speed.
- With an empty queue the loop sleeps 2 ms and moves the clock by 2 ms, whatever
  the speed (`lab/sim.py:136-143`): an idle laboratory that is slower than the wall
  clock runs ahead and sleeps longer later. `KeepsTimeCorrect` has to ask that such
  a laboratory is never idle.

*The modem*

- A modem told to wait for a grant waits for ever when the MAP with that grant is
  lost (`cm/cm.py:554`).
- The UCD of the target may arrive before the UCC-RSP is granted, which then
  leaves on the new channel (`cm/cm.py:823`).
- A modem that is moved while it registers loses the handle of its T6, which
  re-initialises it in service.
- A UCD heard before the first SYNC is taken and, being unchanged, dropped ever
  after, so T1 re-initialises the modem.
- A lower-numbered UCD moves any modem that is not yet OPERATIONAL; one that
  hears it after its first RNG-RSP and before its first poll stays in
  `ranging-station` for ever, no timer running (`Stranded`).
- `_sizing_iuc` says that sizing "against the *least* efficient profile it might
  be handed" is "always sufficient" (`cm/cm.py:905`). A queue of at most 400
  bytes is sized under the short profile, whose `max_burst` caps the request at
  twelve mini-slots, which hold 300 bytes under IUC 5: a modem of version 1.x with
  one frame whose bytes in the queue come to 301 to 400 asks for the same twelve
  for ever; `DrainsUnlessShort` excepts it by name (`TooLongFor`), and TLC refutes
  the same without the exception (`QueueDrains`).
- The modem calls a queue of more than 400 bytes long, the CMTS a request of more
  than twelve mini-slots (`cm/cm.py:918`, `cmts/scheduler.py:228`). On a channel of
  128 symbols to a mini-slot, as the shipped 6.4 MHz one, 471 to 490 bytes are nine
  mini-slots under IUC 6 and are granted nine under IUC 5, which hold 470. Since IUC 5
  is none the modem may be granted for a long queue, the next request is for the same
  nine: until the CMTS knows the modem for DOCSIS 2.0, the frame stays. TLC finds it
  with `SymbolsPerSlot = 128` and a length of 480; with 64 symbols, as in the run, a
  queue of more than 400 bytes is more than twelve mini-slots.
- A re-initialised modem keeps `grant_pending` and its request slot, and if the
  grant of its earlier life is not coming, waits for it before it asks again.
- T2 is stopped by the first Initial Maintenance region a modem lets pass: from
  then on only the regions the CMTS repeats end `ranging-wait`. A T3 that expires
  after a refusal takes the modem from REJECTED back there.
- A late MAP takes the REG-ACK off the queue and sends nothing, T6 already
  stopped: the modem stays in REGISTERING until T4 (`WaitsKept` names the late
  grant). Without a boot file a modem stays in time-of-day
  with no timer (`TimedWaits` asks for one with a boot file only).

*Provisioning and registration*

- DHCP is never retransmitted (`AddressObtained` and `BringupEnds` except a lost
  message).
- A configuration file of a whole number of 512-byte blocks never ends
  (`FileArrives` excepts it).
- A modem stuck in DHCP falls back from `init(d)` to `init(rc)` with each poll, so
  the state does not say where it is stuck.
- A lost REG-ACK leaves the modem OPERATIONAL and its record not
  (`InServiceTogether` holds without a loss only); a modem that re-initialises
  stays online in its record until it registers again.
- A REG-REQ that is refused for its class of service has already changed
  `network_access`, `max_cpe` and privacy in the record, and used up SFIDs
  (`ServedAsRead` says so of the record).
- A number that does not fit its field is cut off (`util/tlv.py:63-72`): a
  `max_cpe` of 256 becomes 0 and no host is admitted, a rate of 2^32 and more
  becomes a small one and passes under the limit. `VerdictsRight` is about what the
  specification says in those fields, not about what its author meant by it.

*Elsewhere*

- A noise window opened while a burst is in flight spares it, against
  `cmts/cli.py:671`.
- Two hosts on one subnet cannot resolve each other: the CMTS sends no broadcast
  of one modem to the others and answers for its own addresses only.
- The runner means to start modems one after another, by the number that is
  online; that number is zero while it starts them.
- `sh ca mo`, given as an abbreviation, is ambiguous: the CLI does not try the
  later words.

## What is not modelled

Powers, frequencies, equaliser and modulation arithmetic (closed formulas,
nothing depends on their history); the byte layouts of messages and TLVs, and
MD5 (pure functions; a digest is what went into it); the CLI, dashboard, log and
capture (display; the commands that change something are actions: `TestUcc`,
`Reset`, noise, `scale`); topologies, scenarios and the runner (they build the
parts; their values are the instances here); the host tunnel (operating-system
I/O); the tools beside the program. S-CDMA profiles, `configure`d modulation
profiles and fragmentation are left out of `BurstSizing`. In `Bringup` a message
overtakes no other on its way: bursts of one modem leave one after the other and
the downstream is a queue. A modem that scans is deaf and what was in flight is
gone when it locks: the scan takes 20 ms in the shipped topologies, an answer
less. `Bringup` takes ToD, DHCP and TFTP as one exchange each, of which
`ProvisioningServer` is the detail, and a file as its verdict, of which
`Registration` is. Removal of a record (`ModemDatabase.remove`), `power_off` and
DHCPNAK are in the code, but nothing calls or sends them.

## The plan

Done: every part that decides something, the runs the plan asked of them, and the
safety of all of them proved as far as the last list of the proofs says. What could
follow:

1. `Timebase`: the spacing of a modem's bursts and what may queue before a SYNC, from
   which `SyncsTimely`, then `LandsInRegion`, under assumptions on the intervals.
2. `BurstSizing`: the relation between `SymbolsPerSlot` and the two limits (400 bytes,
   twelve mini-slots) under which `WastesOne` holds.
3. `Registration`: `RequestsRead`, for settings in any order.
4. `CableModem`: `WaitsKept`, for which `DialogueInv` would have to say that the
   dialogue has a next frame, not only that it has at most one.
