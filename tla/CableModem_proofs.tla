------------------------- MODULE CableModem_proofs -------------------------
(***************************************************************************)
(* Proofs about one cable modem, for every plant, every set of SIDs and    *)
(* every number of retries.  What holds of the modem is first shown of     *)
(* each handler of ModemHandlers, then of the steps that run them.         *)
(***************************************************************************)
EXTENDS CableModem, SequenceTheorems, WellFoundedInduction, TLAPS

(* What a handler may leave as it was: who the modem is, and what it holds  *)
(* for the upstream.                                                        *)
SameBasics(m, n) ==
    /\ n.synced = m.synced /\ n.ucd = m.ucd /\ n.uccTarget = m.uccTarget
    /\ n.registered = m.registered /\ n.sid = m.sid /\ n.address = m.address
    /\ n.retries = m.retries /\ n.loaded = m.loaded

SameUpstream(m, n) ==
    /\ n.queue = m.queue /\ n.outstanding = m.outstanding /\ n.requestSlot = m.requestSlot
    /\ n.grantPending = m.grantPending /\ n.bursts = m.bursts

(* The kinds of frames that take a modem from ranging into service, and the *)
(* frames that do not, that name no channel, and that are anything.         *)
Provisioning == Answered \union {"REG-ACK"}
Quiet == (FrameKinds \ Provisioning) \X (Channels \union {NoChannel})
Stay == FrameKinds \X {NoChannel}

(* Requests and data are sent under a SID.                                  *)
BurstsOf(F) ==
    {b \in [kind : {"RNG-REQ", "REQ", "DATA"}, sid : Sids \union {NoSid}, frames : Seq(F)] :
        b.kind # "RNG-REQ" => b.sid # NoSid}
Carries(m, F) == m.queue \in Seq(F) /\ m.bursts \in Seq(BurstsOf(F))

-----------------------------------------------------------------------------
(* Every set of natural numbers that is not empty has a least element.      *)
LEMMA LeastElement ==
    ASSUME NEW T \in SUBSET Nat, T # {}
    PROVE  \E x \in T : \A y \in T : x <= y
<1>1. PICK x \in T : \A y \in T : ~ (<<y, x>> \in OpToRel(<, Nat))
  BY WFMin, NatLessThanWellFounded, Zenon
<1>2. ASSUME NEW y \in T PROVE ~ (y < x)
  BY <1>1, Zenon DEF OpToRel
<1>3. QED
  BY <1>2

(* Sequences.                                                               *)
LEMMA SequencesOf ==
    ASSUME NEW S, NEW s \in Seq(S)
    PROVE  /\ \A x \in S : Append(s, x) \in Seq(S) /\ Append(s, x) # <<>>
           /\ s # <<>> => Head(s) \in S /\ Tail(s) \in Seq(S)
           /\ \A n \in Nat : SubSeq(s, n + 1, Len(s)) \in Seq(S)
           /\ \A n \in 1 .. Len(s) : SubSeq(s, 1, n) \in Seq(S)
<1>1. \A x \in S : Append(s, x) \in Seq(S) /\ Append(s, x) # <<>>
  BY AppendProperties
<1>2. s # <<>> => Head(s) \in S /\ Tail(s) \in Seq(S)
  BY HeadTailProperties
<1>3. ASSUME NEW n \in Nat PROVE SubSeq(s, n + 1, Len(s)) \in Seq(S)
  OBVIOUS
<1>4. ASSUME NEW n \in 1 .. Len(s) PROVE SubSeq(s, 1, n) \in Seq(S)
  OBVIOUS
<1>5. QED
  BY <1>1, <1>2, <1>3, <1>4

LEMMA FrameSets ==
    /\ Quiet \subseteq Frames /\ Stay \subseteq Frames
    /\ \A kind \in FrameKinds : <<kind, NoChannel>> \in Frames /\ <<kind, NoChannel>> \in Stay
    /\ \A kind \in FrameKinds \ Provisioning : <<kind, NoChannel>> \in Quiet
    /\ <<"STACK", NoChannel>> \in Quiet
BY DEF Quiet, Stay, Frames, FrameKinds, Provisioning, Answered

-----------------------------------------------------------------------------
(* What the operations that handlers are made of do to the modem's fields.  *)
LEMMA ArmFields ==
    ASSUME NEW m \in Modems, NEW timer \in Timers, NEW n, n = Arm(m, timer)
    PROVE  /\ n \in Modems /\ n.timers = m.timers \union {timer} /\ n.state = m.state
           /\ SameBasics(m, n) /\ SameUpstream(m, n)
BY DEF Arm, Modems, SameBasics, SameUpstream

LEMMA DisarmFields ==
    ASSUME NEW m \in Modems, NEW timer \in Timers, NEW n, n = Disarm(m, timer)
    PROVE  /\ n \in Modems /\ n.timers = m.timers \ {timer} /\ n.state = m.state
           /\ SameBasics(m, n) /\ SameUpstream(m, n)
BY DEF Disarm, Modems, SameBasics, SameUpstream

LEMMA StateFields ==
    ASSUME NEW m \in Modems, NEW state \in States, NEW n, n = [m EXCEPT !.state = state]
    PROVE  /\ n \in Modems /\ n.timers = m.timers /\ n.state = state
           /\ SameBasics(m, n) /\ SameUpstream(m, n)
BY DEF Modems, SameBasics, SameUpstream

LEMMA MaybeRequestFields ==
    ASSUME NEW m \in Modems, NEW n, n = MaybeRequest(m)
    PROVE  /\ n \in Modems /\ n.timers = m.timers /\ n.state = m.state
           /\ SameBasics(m, n)
           /\ n.queue = m.queue /\ n.requestSlot = m.requestSlot
           /\ n.grantPending = m.grantPending /\ n.bursts = m.bursts
           /\ n.outstanding = m.outstanding \/ (n.outstanding /\ m.sid # NoSid)
           /\ m.queue # <<>> /\ m.ucd # NoUcd /\ m.sid # NoSid => n.outstanding \/ n.grantPending
BY DEF MaybeRequest, Modems, SameBasics

LEMMA QueuedFields ==
    ASSUME NEW m \in Modems, NEW frame \in Frames, NEW n, n = Queued(m, frame)
    PROVE  /\ n \in Modems /\ n.timers = m.timers /\ n.state = m.state
           /\ SameBasics(m, n)
           /\ n.queue = Append(m.queue, frame) /\ n.requestSlot = m.requestSlot
           /\ n.grantPending = m.grantPending /\ n.bursts = m.bursts
           /\ n.outstanding = m.outstanding \/ (n.outstanding /\ m.sid # NoSid)
           /\ m.ucd # NoUcd /\ m.sid # NoSid => n.outstanding \/ n.grantPending
<1>1. PICK q : q = [m EXCEPT !.queue = Append(@, frame)]
  OBVIOUS
<1>2. Append(m.queue, frame) \in Seq(Frames) /\ Append(m.queue, frame) # <<>>
  <2>1. m.queue \in Seq(Frames)
    BY DEF Modems
  <2>2. QED
    BY <2>1, SequencesOf
<1>3. /\ q \in Modems /\ q.timers = m.timers /\ q.state = m.state
      /\ SameBasics(m, q) /\ q.queue = Append(m.queue, frame)
      /\ q.requestSlot = m.requestSlot /\ q.outstanding = m.outstanding
      /\ q.grantPending = m.grantPending /\ q.bursts = m.bursts
  BY <1>1, <1>2 DEF Modems, SameBasics
<1>4. n = MaybeRequest(q)
  BY <1>1 DEF Queued
<1>5. /\ n \in Modems /\ n.timers = q.timers /\ n.state = q.state
      /\ SameBasics(q, n)
      /\ n.queue = q.queue /\ n.requestSlot = q.requestSlot
      /\ n.grantPending = q.grantPending /\ n.bursts = q.bursts
      /\ n.outstanding = q.outstanding \/ (n.outstanding /\ q.sid # NoSid)
      /\ q.queue # <<>> /\ q.ucd # NoUcd /\ q.sid # NoSid => n.outstanding \/ n.grantPending
  BY <1>3, <1>4, MaybeRequestFields
<1>6. QED
  BY <1>2, <1>3, <1>5 DEF SameBasics

LEMMA EnqueueFields ==
    ASSUME NEW m \in Modems, NEW kind \in FrameKinds, NEW n, n = Enqueue(m, kind)
    PROVE  /\ n \in Modems /\ n.timers = m.timers /\ n.state = m.state
           /\ SameBasics(m, n)
           /\ n.queue = Append(m.queue, <<kind, NoChannel>>) /\ n.requestSlot = m.requestSlot
           /\ n.grantPending = m.grantPending /\ n.bursts = m.bursts
           /\ n.outstanding = m.outstanding \/ (n.outstanding /\ m.sid # NoSid)
           /\ m.ucd # NoUcd /\ m.sid # NoSid => n.outstanding \/ n.grantPending
<1>1. PICK frame : frame = <<kind, NoChannel>>
  OBVIOUS
<1>2. frame \in Frames
  BY <1>1, FrameSets
<1>3. n = Queued(m, frame)
  BY <1>1 DEF Enqueue
<1>4. QED
  BY <1>1, <1>2, <1>3, QueuedFields

LEMMA ReinitializeFields ==
    ASSUME NEW m \in Modems, NEW n, n = Reinitialize(m)
    PROVE  /\ n \in Modems /\ n.state = "ds-scan"
           /\ n.timers = (m.timers \ MacTimers) \union {"ds-scan"}
           /\ ~n.synced /\ n.ucd = NoUcd /\ n.uccTarget = NoChannel /\ ~n.registered
           /\ n.sid = NoSid /\ ~n.address /\ n.retries = 0 /\ n.loaded = m.loaded
           /\ n.queue = <<>> /\ ~n.outstanding /\ n.requestSlot = m.requestSlot
           /\ n.grantPending = m.grantPending /\ n.bursts = m.bursts
<1>1. "ds-scan" \in States /\ (m.timers \ MacTimers) \union {"ds-scan"} \in SUBSET Timers
  BY DEF Modems, States, Timers, MacTimers
<1>2. 0 \in 0 .. (MaxRetries - 1)
  BY ModemAssumption
<1>3. QED
  BY <1>1, <1>2, EmptySeq DEF Reinitialize, Modems

LEMMA ScheduleFields ==
    ASSUME NEW m \in Modems, NEW kind \in {"RNG-REQ", "REQ", "DATA"},
           NEW sid \in Sids \union {NoSid}, NEW frames \in Seq(Frames),
           NEW n, n = Schedule(m, kind, sid, frames)
    PROVE  /\ n \in Modems /\ n.timers = m.timers /\ n.state = m.state
           /\ SameBasics(m, n)
           /\ n.queue = m.queue /\ n.requestSlot = m.requestSlot
           /\ n.grantPending = m.grantPending /\ n.outstanding = m.outstanding
           /\ n.bursts = Append(m.bursts, [kind |-> kind, sid |-> sid, frames |-> frames])
<1>1. PICK b : b = [kind |-> kind, sid |-> sid, frames |-> frames]
  OBVIOUS
<1>2. b \in Bursts /\ m.bursts \in Seq(Bursts)
  BY <1>1 DEF Bursts, Modems
<1>3. Append(m.bursts, b) \in Seq(Bursts)
  BY <1>2, SequencesOf
<1>4. n = [m EXCEPT !.bursts = Append(@, b)]
  BY <1>1 DEF Schedule
<1>5. QED
  BY <1>1, <1>3, <1>4 DEF Modems, SameBasics

-----------------------------------------------------------------------------
(* The modem by itself.  Until the first station maintenance region for its *)
(* SID it holds nothing that could put it into service; from then on T4     *)
(* runs, and only a re-initialisation stops it.                             *)
Off == {"offline", "ds-scan"}
Early == {"sync-wait", "ucd-wait"}

Reached(m) == m.sid # NoSid /\ "T4" \in m.timers
Unserved(m) == m.state \notin InService /\ ~m.address /\ Carries(m, Quiet)

GoodModem(m) ==
    /\ m \in Modems
    /\ m.bursts \in Seq(BurstsOf(Frames))
    /\ m.outstanding => m.sid # NoSid
    /\ ~Listening(m) => /\ m.queue = <<>> /\ ~m.address /\ m.sid = NoSid
                        /\ m.ucd = NoUcd /\ m.uccTarget = NoChannel
    /\ Listening(m) => "lost-sync" \in m.timers /\ (Reached(m) \/ Unserved(m))
    /\ "T3" \in m.timers => m.state \notin Off \union Early
    /\ m.state \in Early => m.bursts = <<>> /\ m.sid = NoSid

(* A modem that nobody moves has an upstream once it found one, and asks    *)
(* for bandwidth as soon as it holds a frame.                               *)
StayModem(m) ==
    /\ Carries(m, Stay)
    /\ m.state \in Off \union Early
           => m.queue = <<>> /\ m.sid = NoSid /\ ~m.address
    /\ m.state \notin Off \union Early => m.ucd # NoUcd
    /\ m.queue # <<>> => m.sid # NoSid /\ (m.outstanding \/ m.grantPending)

(* What a handler may do to it; quietly, if it takes it nowhere near        *)
(* service.                                                                 *)
Keeps(m, n) ==
    /\ GoodModem(n)
    /\ StayModem(m) => StayModem(n)
    /\ Listening(n) => /\ Listening(m)
                       /\ Reached(m) => Reached(n)
                       /\ n.state \in Early => m.state \in Early

(* It stays where it is, with all the timers it had.                        *)
Calm(m, n) == n.state = m.state /\ m.timers \subseteq n.timers

(* The waits of initialisation that have a timer to end them.               *)
Waits(m) ==
    /\ m.state = "ucd-wait" => "T1" \in m.timers
    /\ m.state = "ranging-initial" => "T3" \in m.timers
    /\ m.state = "time-of-day" /\ BootFile => "tod" \in m.timers
    /\ m.state = "tftp-config" => "tftp" \in m.timers

Quietly(m, n) == Keeps(m, n) /\ (Unserved(m) /\ Listening(n) => Unserved(n))

LEMMA KeepsTransitive ==
    ASSUME NEW l, NEW m, NEW n, Keeps(m, n)
    PROVE  /\ Keeps(l, m) => Keeps(l, n)
           /\ Quietly(l, m) /\ Quietly(m, n) => Quietly(l, n)
BY DEF Keeps, Quietly

LEMMA CalmTransitive ==
    ASSUME NEW l, NEW m, NEW n, Calm(m, n)
    PROVE  /\ Calm(l, m) => Calm(l, n)
           /\ Waits(m) => Waits(n)
BY DEF Calm, Waits

LEMMA ReinitializeGood ==
    ASSUME NEW m, GoodModem(m), NEW n, n = Reinitialize(m)
    PROVE  Quietly(m, n) /\ ~Listening(n)
<1>1. /\ n \in Modems /\ n.state = "ds-scan"
      /\ n.timers = (m.timers \ MacTimers) \union {"ds-scan"}
      /\ n.ucd = NoUcd /\ n.uccTarget = NoChannel /\ n.sid = NoSid /\ ~n.address
      /\ n.queue = <<>> /\ ~n.outstanding /\ n.bursts = m.bursts
  BY ReinitializeFields DEF GoodModem
<1>2. GoodModem(n) /\ ~Listening(n)
  BY <1>1 DEF GoodModem, Listening, MacTimers, Early
<1>3. StayModem(m) => StayModem(n)
  BY <1>1, EmptySeq DEF StayModem, Carries, Off, Early, MacTimers
<1>4. QED
  BY <1>2, <1>3 DEF Quietly, Keeps

LEMMA ArmGood ==
    ASSUME NEW m, GoodModem(m), NEW timer \in Timers,
           timer # "T3" \/ m.state \notin Off \union Early,
           NEW n, n = Arm(m, timer)
    PROVE  Quietly(m, n) /\ n.state = m.state /\ Calm(m, n)
<1>1. /\ n \in Modems /\ n.timers = m.timers \union {timer} /\ n.state = m.state
      /\ SameBasics(m, n) /\ SameUpstream(m, n)
  BY ArmFields DEF GoodModem
<1>2. /\ Listening(n) = Listening(m) /\ Unserved(n) = Unserved(m)
      /\ Reached(m) => Reached(n)
  BY <1>1 DEF Listening, Unserved, Carries, Reached, SameBasics, SameUpstream
<1>3. GoodModem(n)
  BY <1>1, <1>2 DEF GoodModem, SameBasics, SameUpstream
<1>4. StayModem(m) => StayModem(n)
  BY <1>1 DEF StayModem, Carries, SameBasics, SameUpstream
<1>5. Calm(m, n)
  BY <1>1 DEF Calm
<1>6. QED
  BY <1>1, <1>2, <1>3, <1>4, <1>5 DEF Quietly, Keeps, SameBasics

LEMMA DisarmGood ==
    ASSUME NEW m, GoodModem(m), NEW timer \in Timers \ {"lost-sync", "T4"},
           NEW n, n = Disarm(m, timer)
    PROVE  Quietly(m, n) /\ n.state = m.state
<1>1. /\ n \in Modems /\ n.timers = m.timers \ {timer} /\ n.state = m.state
      /\ SameBasics(m, n) /\ SameUpstream(m, n)
  BY DisarmFields DEF GoodModem
<1>2. /\ Listening(n) = Listening(m) /\ Unserved(n) = Unserved(m)
      /\ Reached(m) => Reached(n)
  BY <1>1 DEF Listening, Unserved, Carries, Reached, SameBasics, SameUpstream
<1>3. GoodModem(n)
  BY <1>1, <1>2 DEF GoodModem, SameBasics, SameUpstream
<1>4. StayModem(m) => StayModem(n)
  BY <1>1 DEF StayModem, Carries, SameBasics, SameUpstream
<1>5. QED
  BY <1>1, <1>2, <1>3, <1>4 DEF Quietly, Keeps, SameBasics

(* A timer that nothing waits for may be stopped.                           *)
LEMMA DisarmWaits ==
    ASSUME NEW m \in Modems, Waits(m), NEW timer \in Timers,
           timer = "T1" => m.state # "ucd-wait",
           timer = "T3" => m.state # "ranging-initial",
           timer = "tod" => m.state # "time-of-day" \/ ~BootFile,
           timer = "tftp" => m.state # "tftp-config",
           NEW n, n = Disarm(m, timer)
    PROVE  Waits(n)
<1>1. n.timers = m.timers \ {timer} /\ n.state = m.state
  BY DisarmFields
<1>2. QED
  BY <1>1 DEF Waits

LEMMA OffWaits == ASSUME NEW n, ~Listening(n) PROVE Waits(n)
BY DEF Waits, Listening

(* A state past the search for an upstream; one in service only with T4.    *)
LEMMA StateGood ==
    ASSUME NEW m, GoodModem(m), Listening(m), m.state \notin Early \/ Reached(m),
           NEW state \in States \ (Off \union Early), state \in InService => Reached(m),
           NEW n, n = [m EXCEPT !.state = state]
    PROVE  /\ Keeps(m, n) /\ (state \notin InService => Quietly(m, n))
           /\ Listening(n) /\ n.state = state
<1>1. /\ n \in Modems /\ n.timers = m.timers /\ n.state = state
      /\ SameBasics(m, n) /\ SameUpstream(m, n)
  BY StateFields DEF GoodModem
<1>2. Listening(n) /\ Reached(n) = Reached(m)
  BY <1>1 DEF Listening, Reached, SameBasics, Off
<1>3. state \notin InService /\ Unserved(m) => Unserved(n)
  BY <1>1 DEF Unserved, Carries, SameBasics, SameUpstream
<1>4. GoodModem(n)
  BY <1>1, <1>2, <1>3 DEF GoodModem, SameBasics, SameUpstream
<1>5. StayModem(m) => StayModem(n)
  BY <1>1 DEF StayModem, Carries, SameBasics, SameUpstream, Listening, Off, Early, Reached
<1>6. QED
  BY <1>1, <1>2, <1>3, <1>4, <1>5 DEF Quietly, Keeps, SameBasics, Early

LEMMA EnqueueGood ==
    ASSUME NEW m, GoodModem(m), Listening(m), Reached(m), NEW kind \in FrameKinds,
           NEW n, n = Enqueue(m, kind)
    PROVE  /\ Keeps(m, n) /\ (kind \notin Provisioning => Quietly(m, n))
           /\ Listening(n) /\ Reached(n) /\ Calm(m, n)
<1>1. /\ n \in Modems /\ n.timers = m.timers /\ n.state = m.state
      /\ SameBasics(m, n)
      /\ n.queue = Append(m.queue, <<kind, NoChannel>>) /\ n.bursts = m.bursts
      /\ n.outstanding => m.outstanding \/ m.sid # NoSid
      /\ m.ucd # NoUcd /\ m.sid # NoSid => n.outstanding \/ n.grantPending
  BY EnqueueFields DEF GoodModem
<1>2. Listening(n) /\ Reached(n)
  BY <1>1 DEF Listening, Reached, SameBasics
<1>3. kind \notin Provisioning /\ Unserved(m) => Unserved(n)
  <2> SUFFICES ASSUME kind \notin Provisioning, Unserved(m) PROVE Unserved(n)
    OBVIOUS
  <2>1. <<kind, NoChannel>> \in Quiet
    BY FrameSets
  <2>2. Append(m.queue, <<kind, NoChannel>>) \in Seq(Quiet)
    BY <2>1, SequencesOf DEF Unserved, Carries
  <2>3. QED
    BY <1>1, <2>2 DEF Unserved, Carries, SameBasics
<1>4. GoodModem(n)
  BY <1>1, <1>2 DEF GoodModem, SameBasics
<1>5. StayModem(m) => StayModem(n)
  <2> SUFFICES ASSUME StayModem(m) PROVE StayModem(n)
    OBVIOUS
  <2>1. <<kind, NoChannel>> \in Stay
    BY FrameSets
  <2>2. Append(m.queue, <<kind, NoChannel>>) \in Seq(Stay)
    BY <2>1, SequencesOf DEF StayModem, Carries
  <2>3. m.state \notin Off \union Early /\ m.sid # NoSid /\ m.ucd # NoUcd
    BY DEF StayModem, Reached
  <2>4. QED
    BY <1>1, <2>2, <2>3 DEF StayModem, Carries, SameBasics, Early
<1>6. Calm(m, n)
  BY <1>1 DEF Calm
<1>7. QED
  BY <1>1, <1>2, <1>3, <1>4, <1>5, <1>6 DEF Quietly, Keeps, SameBasics

LEMMA GoodCarries == \A m : GoodModem(m) => Carries(m, Frames)
BY DEF GoodModem, Modems, Carries

LEMMA ScheduleGood ==
    ASSUME NEW m, GoodModem(m), Listening(m), m.state \notin Early,
           NEW kind \in {"RNG-REQ", "REQ", "DATA"}, NEW sid \in Sids \union {NoSid},
           kind # "RNG-REQ" => sid # NoSid, NEW n, n = Schedule(m, kind, sid, <<>>)
    PROVE  Quietly(m, n) /\ n.state = m.state /\ Calm(m, n)
<1>1. m \in Modems /\ <<>> \in Seq(Frames)
  BY EmptySeq DEF GoodModem
<1>2. PICK b : b = [kind |-> kind, sid |-> sid, frames |-> <<>>]
  OBVIOUS
<1>3. /\ n \in Modems /\ n.timers = m.timers /\ n.state = m.state
      /\ SameBasics(m, n) /\ n.queue = m.queue
      /\ n.grantPending = m.grantPending /\ n.outstanding = m.outstanding
      /\ n.bursts = Append(m.bursts, b)
  <2>1. PICK none : none = <<>>
    OBVIOUS
  <2>2. none \in Seq(Frames) /\ n = Schedule(m, kind, sid, none)
    BY <1>1, <2>1
  <2>3. /\ n \in Modems /\ n.timers = m.timers /\ n.state = m.state
        /\ SameBasics(m, n)
        /\ n.queue = m.queue /\ n.requestSlot = m.requestSlot
        /\ n.grantPending = m.grantPending /\ n.outstanding = m.outstanding
        /\ n.bursts = Append(m.bursts, [kind |-> kind, sid |-> sid, frames |-> none])
    BY SMTT(20), ZenonT(30), <1>1, <2>2, ScheduleFields
  <2>4. b = [kind |-> kind, sid |-> sid, frames |-> none]
    BY <1>2, <2>1
  <2>5. QED
    BY <2>3, <2>4
<1>4. ASSUME NEW F, Carries(m, F) PROVE Carries(n, F)
  <2>1. b \in BurstsOf(F)
    BY <1>2, EmptySeq DEF BurstsOf
  <2>2. Append(m.bursts, b) \in Seq(BurstsOf(F))
    BY <1>4, <2>1, SequencesOf DEF Carries
  <2>3. QED
    BY <1>3, <1>4, <2>2 DEF Carries
<1>5. Listening(n) = Listening(m) /\ Reached(n) = Reached(m) /\ (Unserved(m) => Unserved(n))
  BY <1>3, <1>4 DEF Listening, Reached, Unserved, SameBasics
<1>6. GoodModem(n)
  <2>1. Carries(n, Frames)
    BY <1>4, GoodCarries
  <2>2. QED
    BY <1>3, <1>5, <2>1 DEF GoodModem, Carries, SameBasics
<1>7. StayModem(m) => StayModem(n)
  BY <1>3, <1>4 DEF StayModem, SameBasics
<1>8. Calm(m, n)
  BY <1>3 DEF Calm
<1>9. QED
  BY <1>3, <1>5, <1>6, <1>7, <1>8 DEF Quietly, Keeps

(* What leaves the queue leaves nothing behind that does not ask for        *)
(* bandwidth.                                                               *)
LEMMA AskedGood ==
    ASSUME NEW m, GoodModem(m), Listening(m), NEW x \in Modems,
           x.timers = m.timers, x.state = m.state, SameBasics(m, x),
           x.outstanding => m.sid # NoSid,
           m.queue = <<>> => x.queue = <<>>,
           \A F : Carries(m, F) => Carries(x, F),
           m.state \in Early => x.bursts = <<>>,
           NEW n, n = MaybeRequest(x) \/ (n = x /\ x.queue = <<>>)
    PROVE  /\ Quietly(m, n) /\ Listening(n)
           /\ n.state = m.state /\ n.timers = m.timers
           /\ n.queue = x.queue /\ n.bursts = x.bursts
<1>1. /\ n \in Modems /\ n.timers = m.timers /\ n.state = m.state
      /\ SameBasics(m, n) /\ n.queue = x.queue /\ n.bursts = x.bursts
      /\ n.outstanding => m.sid # NoSid
      /\ x.queue # <<>> /\ m.ucd # NoUcd /\ m.sid # NoSid => n.outstanding \/ n.grantPending
  <2>1. CASE n = MaybeRequest(x)
    <3>1. /\ n \in Modems /\ n.timers = x.timers /\ n.state = x.state
          /\ SameBasics(x, n) /\ n.queue = x.queue /\ n.bursts = x.bursts
          /\ n.outstanding = x.outstanding \/ (n.outstanding /\ x.sid # NoSid)
          /\ x.queue # <<>> /\ x.ucd # NoUcd /\ x.sid # NoSid => n.outstanding \/ n.grantPending
      BY <2>1, MaybeRequestFields
    <3>2. QED
      BY <3>1 DEF SameBasics
  <2>2. CASE n = x /\ x.queue = <<>>
    BY <2>2
  <2>3. QED
    BY <2>1, <2>2
<1>2. \A F : Carries(m, F) => Carries(n, F)
  BY <1>1 DEF Carries
<1>3. Listening(n) = Listening(m) /\ Reached(n) = Reached(m) /\ (Unserved(m) => Unserved(n))
  BY <1>1, <1>2 DEF Listening, Reached, Unserved, SameBasics
<1>4. GoodModem(n)
  <2>1. Carries(n, Frames)
    BY <1>2, GoodCarries
  <2>2. QED
    BY <1>1, <1>3, <2>1 DEF GoodModem, Carries, SameBasics
<1>5. StayModem(m) => StayModem(n)
  <2> SUFFICES ASSUME StayModem(m) PROVE StayModem(n)
    OBVIOUS
  <2>1. n.queue # <<>> => m.sid # NoSid /\ m.ucd # NoUcd
    BY <1>1 DEF StayModem
  <2>2. Carries(n, Stay)
    BY <1>2 DEF StayModem
  <2>3. QED
    BY <1>1, <2>1, <2>2 DEF StayModem, SameBasics, Early
<1>6. QED
  BY <1>1, <1>3, <1>4, <1>5 DEF Quietly, Keeps, SameBasics

-----------------------------------------------------------------------------
(* The regions of a MAP.                                                    *)
LEMMA OfferInitialMaintenanceGood ==
    ASSUME NEW m, GoodModem(m), Listening(m), NEW map \in Maps,
           NEW n \in OfferInitialMaintenance(m, map)
    PROVE  /\ Quietly(m, n) /\ Listening(n) /\ (Waits(m) => Waits(n))
           /\ n.state = m.state \/ n.state = "ranging-initial"
<1>1. CASE n = m
  BY <1>1 DEF Quietly, Keeps
<1>2. CASE map.initial /\ m.state = "ranging-wait" /\ n # m
  <2>1. PICK deferred : deferred = Disarm(m, "T2")
    OBVIOUS
  <2>2. Quietly(m, deferred)
    BY <2>1, DisarmGood DEF Timers, MacTimers
  <2>3. deferred.state = "ranging-wait"
    BY <1>2, <2>1, DisarmFields DEF GoodModem, Timers, MacTimers
  <2>4. CASE n = deferred
    BY <1>2, <2>2, <2>3, <2>4 DEF Listening, Waits
  <2>5. CASE n # deferred
    <3>1. PICK ranging : ranging = [deferred EXCEPT !.state = "ranging-initial"]
      OBVIOUS
    <3>2. PICK sent : sent = Schedule(ranging, "RNG-REQ", NoSid, <<>>)
      OBVIOUS
    <3>3. n = Arm(sent, "T3")
      BY <1>2, <2>1, <2>5, <3>1, <3>2 DEF OfferInitialMaintenance
    <3>4. Quietly(deferred, ranging) /\ ranging.state = "ranging-initial"
      <4>1. GoodModem(deferred) /\ Listening(deferred) /\ deferred.state \notin Early
        BY <2>2, <2>3 DEF Quietly, Keeps, Listening, Early
      <4>2. "ranging-initial" \in States \ (Off \union Early) /\ "ranging-initial" \notin InService
        BY DEF States, Off, Early, InService
      <4>3. Quietly(deferred, ranging)
        BY <3>1, <4>1, <4>2, StateGood
      <4>4. QED
        BY <3>1, <4>1, <4>2, <4>3, StateFields DEF GoodModem
    <3>5. Quietly(ranging, sent) /\ sent.state = "ranging-initial"
      <4>1. GoodModem(ranging) /\ Listening(ranging) /\ ranging.state \notin Early
        BY <3>4 DEF Quietly, Keeps, Listening, Early
      <4>2. NoSid \in Sids \union {NoSid}
        OBVIOUS
      <4>3. QED
        BY <3>2, <3>4, <4>1, <4>2, ScheduleGood
    <3>6. Quietly(sent, n) /\ Listening(n) /\ Waits(n) /\ n.state = "ranging-initial"
      <4>1. GoodModem(sent) /\ sent.state \notin Off \union Early /\ "T3" \in Timers
        BY <3>5 DEF Quietly, Keeps, Off, Early, Timers, MacTimers
      <4>2. n.state = sent.state /\ "T3" \in n.timers
        BY <3>3, <4>1, ArmFields DEF GoodModem
      <4>3. QED
        BY <3>3, <3>5, <4>1, <4>2, ArmGood DEF Listening, Waits
    <3>7. QED
      BY <2>2, <2>3, <3>4, <3>5, <3>6, KeepsTransitive DEF Quietly
  <2>6. QED
    BY <2>4, <2>5
<1>3. QED
  BY <1>1, <1>2 DEF OfferInitialMaintenance

LEMMA OfferStationMaintenanceGood ==
    ASSUME NEW m, GoodModem(m), Listening(m), NEW map \in Maps
    PROVE  LET n == OfferStationMaintenance(m, map) IN
           /\ Quietly(m, n) /\ Listening(n) /\ (Waits(m) => Waits(n))
           /\ n.state = m.state \/ Reached(n)
<1> DEFINE n == OfferStationMaintenance(m, map)
<1>1. CASE ~ (map.station /\ m.sid # NoSid)
  BY <1>1 DEF OfferStationMaintenance, Quietly, Keeps
<1>2. CASE map.station /\ m.sid # NoSid
  <2>1. PICK heard : heard = Arm(m, "T4")
    OBVIOUS
  <2>2. /\ Quietly(m, heard) /\ heard.state = m.state /\ heard.sid = m.sid
        /\ Reached(heard) /\ Listening(heard) /\ GoodModem(heard) /\ Calm(m, heard)
    <3>1. Quietly(m, heard) /\ Calm(m, heard)
      BY <2>1, ArmGood DEF Timers, MacTimers
    <3>2. heard.timers = m.timers \union {"T4"} /\ heard.state = m.state /\ heard.sid = m.sid
      BY <2>1, ArmFields DEF GoodModem, Timers, MacTimers, SameBasics
    <3>3. QED
      BY <1>2, <3>1, <3>2 DEF Reached, Listening, Quietly, Keeps
  <2>3. CASE n = heard
    BY <2>2, <2>3, CalmTransitive
  <2>4. CASE (Ranging(m) \/ m.state \in InService) /\ n # heard
    <3>1. PICK sent : sent = Schedule(heard, "RNG-REQ", m.sid, <<>>)
      OBVIOUS
    <3>2. PICK armed : armed = Arm(sent, "T3")
      OBVIOUS
    <3>3. n = [armed EXCEPT !.state = IF Ranging(m) THEN "ranging-station" ELSE @]
      BY <1>2, <2>1, <2>4, <3>1, <3>2 DEF OfferStationMaintenance
    <3>4. m.state \notin Off \union Early /\ m.sid \in Sids \union {NoSid} /\ m.state \in States
      BY <2>4 DEF Ranging, InService, Off, Early, GoodModem, Modems
    <3>5. Quietly(heard, sent) /\ sent.state = m.state /\ Calm(heard, sent)
      <4>1. heard.state \notin Early
        BY <2>2, <3>4
      <4>2. PICK sid : sid = m.sid
        OBVIOUS
      <4>3. sid \in Sids \union {NoSid} /\ sent = Schedule(heard, "RNG-REQ", sid, <<>>)
        BY <3>1, <3>4, <4>2
      <4>4. QED
        BY <2>2, <4>1, <4>3, ScheduleGood
    <3>6. Quietly(sent, armed) /\ armed.state = m.state /\ Calm(sent, armed)
      <4>1. GoodModem(sent) /\ "T3" \in Timers
        BY <3>5 DEF Quietly, Keeps, Timers, MacTimers
      <4>2. QED
        BY <3>2, <3>4, <3>5, <4>1, ArmGood, ArmFields DEF GoodModem
    <3>7. PICK state : state = IF Ranging(m) THEN "ranging-station" ELSE m.state
      OBVIOUS
    <3>8. n = [armed EXCEPT !.state = state]
      BY <3>3, <3>6, <3>7
    <3>9. GoodModem(armed) /\ Listening(armed) /\ Reached(armed) /\ armed.state \notin Early
      BY <2>2, <3>4, <3>5, <3>6 DEF Quietly, Keeps, Listening, Off
    <3>10. state \in States \ (Off \union Early)
      BY <3>4, <3>7 DEF States, Off, Early
    <3>11. Keeps(armed, n) /\ (state \notin InService => Quietly(armed, n))
      BY <3>8, <3>9, <3>10, StateGood
    <3>12. state \in InService => armed.state \in InService
      BY <3>6, <3>7 DEF InService
    <3>13. Quietly(armed, n) /\ Listening(n) /\ Reached(n)
      <4>1. n.state = state
        BY <3>8, <3>9, <3>10, StateFields DEF GoodModem
      <4>2. QED
        BY <3>9, <3>10, <3>11, <3>12, <4>1 DEF Quietly, Keeps, Unserved, Listening, Off
    <3>14. Quietly(m, sent)
      BY <2>2, <3>5, KeepsTransitive DEF Quietly
    <3>15. Quietly(m, armed)
      BY <3>14, <3>6, KeepsTransitive DEF Quietly
    <3>16. Calm(m, armed)
      <4>1. Calm(m, sent)
        BY <2>2, <3>5, CalmTransitive
      <4>2. QED
        BY <3>6, <4>1, CalmTransitive
    <3>17. n.state = state /\ n.timers = armed.timers
      BY <3>8, <3>9, <3>10, StateFields DEF GoodModem
    <3>18. Waits(m) => Waits(n)
      <4>1. CASE Ranging(m)
        BY <3>7, <3>17, <4>1 DEF Waits
      <4>2. CASE ~Ranging(m)
        <5>1. Calm(m, n)
          BY <3>6, <3>7, <3>16, <3>17, <4>2 DEF Calm
        <5>2. QED
          BY <5>1, CalmTransitive
      <4>3. QED
        BY <4>1, <4>2
    <3>19. QED
      BY <3>13, <3>15, <3>18, KeepsTransitive DEF Quietly
  <2>5. QED
    BY <1>2, <2>1, <2>3, <2>4 DEF OfferStationMaintenance
<1>3. QED
  BY <1>1, <1>2

LEMMA UseDataGrantGood ==
    ASSUME NEW m, GoodModem(m), Listening(m), m.sid # NoSid, NEW map \in Maps,
           NEW n \in UseDataGrant(m, map)
    PROVE  Quietly(m, n) /\ Listening(n) /\ Calm(m, n)
<1>1. PICK granted : granted = [m EXCEPT !.grantPending = FALSE, !.requestSlot = FALSE,
                                         !.outstanding = FALSE]
  OBVIOUS
<1>2. /\ granted \in Modems /\ granted.timers = m.timers /\ granted.state = m.state
      /\ SameBasics(m, granted) /\ granted.queue = m.queue /\ granted.bursts = m.bursts
      /\ granted.grantPending = FALSE /\ granted.outstanding = FALSE
  BY <1>1 DEF GoodModem, Modems, SameBasics
<1>3. CASE n = MaybeRequest(granted) \/ (n = granted /\ granted.queue = <<>>)
  <2>1. \A F : Carries(m, F) => Carries(granted, F)
    BY <1>2 DEF Carries
  <2>2. m.state \in Early => granted.bursts = <<>>
    BY <1>2 DEF GoodModem
  <2>3. /\ Quietly(m, n) /\ Listening(n)
        /\ n.state = m.state /\ n.timers = m.timers
        /\ n.queue = granted.queue /\ n.bursts = granted.bursts
    BY <1>2, <1>3, <2>1, <2>2, AskedGood
  <2>4. QED
    BY <1>2, <2>3 DEF Calm
<1>4. CASE m.queue # <<>> /\ n # MaybeRequest(granted)
  <2>1. PICK k \in 1 .. Len(m.queue) :
            LET popped == [granted EXCEPT !.queue = SubSeq(@, k + 1, Len(@))]
            IN  n = MaybeRequest(
                    IF InTime(m, map, 3)
                    THEN Schedule(popped, "DATA", m.sid, SubSeq(m.queue, 1, k))
                    ELSE popped)
    <3>1. m.queue \in Seq(Frames)
      BY DEF GoodModem, Modems
    <3>2. Len(m.queue) \in Nat \ {0}
      BY <1>4, <3>1, EmptySeq, LenProperties
    <3>3. (1 .. IF Concatenation THEN Len(m.queue) ELSE 1) \subseteq 1 .. Len(m.queue)
      BY <3>2
    <3>4. PICK k \in 1 .. (IF Concatenation THEN Len(m.queue) ELSE 1) :
              LET popped == [granted EXCEPT !.queue = SubSeq(@, k + 1, Len(@))]
              IN  n = MaybeRequest(
                      IF InTime(m, map, 3)
                      THEN Schedule(popped, "DATA", m.sid, SubSeq(m.queue, 1, k))
                      ELSE popped)
      BY <1>1, <1>4, Zenon DEF UseDataGrant
    <3>5. QED
      BY <3>3, <3>4
  <2>2. PICK rest : rest = SubSeq(m.queue, k + 1, Len(m.queue))
    OBVIOUS
  <2>3. PICK taken : taken = SubSeq(m.queue, 1, k)
    OBVIOUS
  <2>4. ASSUME NEW F, m.queue \in Seq(F) PROVE rest \in Seq(F) /\ taken \in Seq(F)
    BY <2>2, <2>3, <2>4, SequencesOf
  <2>5. rest \in Seq(Frames) /\ taken \in Seq(Frames)
    BY <2>4 DEF GoodModem, Modems
  <2>6. PICK popped : popped = [granted EXCEPT !.queue = rest]
    OBVIOUS
  <2>7. /\ popped \in Modems /\ popped.timers = m.timers /\ popped.state = m.state
        /\ SameBasics(m, popped) /\ popped.queue = rest /\ popped.bursts = m.bursts
        /\ popped.grantPending = FALSE /\ popped.outstanding = FALSE
    BY <1>2, <2>5, <2>6 DEF Modems, SameBasics
  <2>8. PICK x : x = IF InTime(m, map, 3) THEN Schedule(popped, "DATA", m.sid, taken)
                     ELSE popped
    OBVIOUS
  <2>9. n = MaybeRequest(x)
    BY <1>2, <2>1, <2>2, <2>3, <2>6, <2>8
  <2>10. PICK b : b = [kind |-> "DATA", sid |-> m.sid, frames |-> taken]
    OBVIOUS
  <2>11. /\ x \in Modems /\ x.timers = m.timers /\ x.state = m.state
         /\ SameBasics(m, x) /\ x.queue = rest /\ x.outstanding = FALSE
         /\ x.bursts = m.bursts \/ x.bursts = Append(m.bursts, b)
    <3>1. CASE ~InTime(m, map, 3)
      BY <2>7, <2>8, <3>1
    <3>2. CASE InTime(m, map, 3)
      <4>1. PICK sid : sid = m.sid
        OBVIOUS
      <4>2. sid \in Sids \union {NoSid} /\ x = Schedule(popped, "DATA", sid, taken)
        BY <2>8, <3>2, <4>1 DEF GoodModem, Modems
      <4>3. /\ x \in Modems /\ x.timers = popped.timers /\ x.state = popped.state
            /\ SameBasics(popped, x) /\ x.queue = popped.queue
            /\ x.outstanding = popped.outstanding
            /\ x.bursts = Append(popped.bursts,
                                 [kind |-> "DATA", sid |-> sid, frames |-> taken])
        BY SMTT(20), ZenonT(30), <2>5, <2>7, <4>2, ScheduleFields
      <4>4. b = [kind |-> "DATA", sid |-> sid, frames |-> taken]
        BY <2>10, <4>1
      <4>5. QED
        BY <2>7, <4>3, <4>4 DEF SameBasics
    <3>3. QED
      BY <3>1, <3>2
  <2>12. ASSUME NEW F, Carries(m, F) PROVE Carries(x, F)
    <3>1. rest \in Seq(F) /\ taken \in Seq(F)
      BY <2>4, <2>12 DEF Carries
    <3>2. m.sid \in Sids \union {NoSid}
      BY DEF GoodModem, Modems
    <3>3. b \in BurstsOf(F)
      BY <2>10, <3>1, <3>2 DEF BurstsOf
    <3>4. Append(m.bursts, b) \in Seq(BurstsOf(F))
      BY <2>12, <3>3, SequencesOf DEF Carries
    <3>5. QED
      BY <2>11, <2>12, <3>1, <3>4 DEF Carries
  <2>13. m.state \notin Early
    BY DEF GoodModem
  <2>14. /\ Quietly(m, n) /\ Listening(n)
         /\ n.state = m.state /\ n.timers = m.timers
         /\ n.queue = rest /\ n.bursts = x.bursts
    BY <1>4, <2>9, <2>11, <2>12, <2>13, AskedGood
  <2>15. QED
    BY <2>14 DEF Calm
<1>5. QED
  BY <1>1, <1>2, <1>3, <1>4 DEF UseDataGrant

LEMMA OfferDataGrantGood ==
    ASSUME NEW m, GoodModem(m), Listening(m), NEW map \in Maps,
           NEW n \in OfferDataGrant(m, map)
    PROVE  Quietly(m, n) /\ Listening(n) /\ Calm(m, n)
<1>1. CASE n = m
  BY <1>1 DEF Quietly, Keeps, Calm
<1>2. CASE m.sid # NoSid /\ map.grant = "zero" /\ n # m
  <2>1. n = [m EXCEPT !.grantPending = TRUE]
    BY <1>2 DEF OfferDataGrant
  <2>2. /\ n \in Modems /\ n.timers = m.timers /\ n.state = m.state
        /\ SameBasics(m, n) /\ n.queue = m.queue /\ n.bursts = m.bursts
        /\ n.grantPending = TRUE /\ n.outstanding = m.outstanding
    BY <2>1 DEF GoodModem, Modems, SameBasics
  <2>3. n = MaybeRequest(n)
    BY <2>2 DEF MaybeRequest
  <2>4. \A F : Carries(m, F) => Carries(n, F)
    BY <2>2 DEF Carries
  <2>5. m.state \in Early => n.bursts = <<>>
    BY <2>2 DEF GoodModem
  <2>6. n.outstanding => m.sid # NoSid
    BY <1>2
  <2>7. m.queue = <<>> => n.queue = <<>>
    BY <2>2
  <2>8. Quietly(m, n) /\ Listening(n)
    BY <2>2, <2>3, <2>4, <2>5, <2>6, <2>7, AskedGood
  <2>9. QED
    BY <2>2, <2>8 DEF Calm
<1>3. CASE m.sid # NoSid /\ map.grant = "sized" /\ n # m
  <2>1. n \in UseDataGrant(m, map)
    BY <1>3 DEF OfferDataGrant
  <2>2. QED
    BY <1>3, <2>1, UseDataGrantGood
<1>4. map.grant \in {"none", "zero", "sized"}
  BY DEF Maps
<1>5. QED
  BY <1>1, <1>2, <1>3, <1>4 DEF OfferDataGrant

LEMMA OfferRequestRegionGood ==
    ASSUME NEW m, GoodModem(m), Listening(m), NEW map \in Maps,
           NEW n \in OfferRequestRegion(m, map)
    PROVE  Quietly(m, n) /\ Listening(n) /\ Calm(m, n)
<1>1. CASE n = m
  BY <1>1 DEF Quietly, Keeps, Calm
<1>2. CASE n # m
  <2>1. PICK x : x = [m EXCEPT !.requestSlot = TRUE]
    OBVIOUS
  <2>2. m.outstanding /\ n = Schedule(x, "REQ", m.sid, <<>>)
    BY <1>2, <2>1 DEF OfferRequestRegion
  <2>3. m.sid # NoSid /\ m.state \notin Early
    BY <2>2 DEF GoodModem
  <2>4. /\ x \in Modems /\ x.timers = m.timers /\ x.state = m.state
        /\ SameBasics(m, x) /\ x.queue = m.queue /\ x.bursts = m.bursts
        /\ x.outstanding = m.outstanding /\ x.grantPending = m.grantPending
    BY <2>1 DEF GoodModem, Modems, SameBasics
  <2>5. x = MaybeRequest(x)
    BY <2>2, <2>4 DEF MaybeRequest
  <2>6. \A F : Carries(m, F) => Carries(x, F)
    BY <2>4 DEF Carries
  <2>7. Quietly(m, x) /\ Listening(x)
    BY <2>3, <2>4, <2>5, <2>6, AskedGood
  <2>8. x.state \notin Early
    BY <2>3, <2>4
  <2>9. PICK sid : sid = m.sid
    OBVIOUS
  <2>10. sid \in Sids \union {NoSid} /\ sid # NoSid /\ n = Schedule(x, "REQ", sid, <<>>)
    BY <2>2, <2>3, <2>9 DEF GoodModem, Modems
  <2>11. Quietly(x, n) /\ n.state = x.state /\ Calm(x, n)
    BY <2>7, <2>8, <2>10, ScheduleGood DEF Quietly, Keeps
  <2>12. Calm(m, x)
    BY <2>4 DEF Calm
  <2>13. QED
    BY <2>7, <2>11, <2>12, KeepsTransitive, CalmTransitive DEF Quietly, Listening
<1>3. QED
  BY <1>1, <1>2

LEMMA CheckAcknowledgedGood ==
    ASSUME NEW m, GoodModem(m), Listening(m), NEW before, NEW map \in Maps,
           NEW n, n = CheckAcknowledged(before, m, map)
    PROVE  Quietly(m, n) /\ Listening(n) /\ Calm(m, n)
<1>1. CASE n = m
  BY <1>1 DEF Quietly, Keeps, Calm
<1>2. CASE n # m
  <2>1. PICK x : x = [m EXCEPT !.requestSlot = FALSE, !.outstanding = FALSE]
    OBVIOUS
  <2>2. n = MaybeRequest(x)
    BY <1>2, <2>1 DEF CheckAcknowledged
  <2>3. /\ x \in Modems /\ x.timers = m.timers /\ x.state = m.state
        /\ SameBasics(m, x) /\ x.queue = m.queue /\ x.bursts = m.bursts
        /\ x.outstanding = FALSE
    BY <2>1 DEF GoodModem, Modems, SameBasics
  <2>4. \A F : Carries(m, F) => Carries(x, F)
    BY <2>3 DEF Carries
  <2>5. m.state \in Early => x.bursts = <<>>
    BY <2>3 DEF GoodModem
  <2>6. /\ Quietly(m, n) /\ Listening(n)
        /\ n.state = m.state /\ n.timers = m.timers
        /\ n.queue = x.queue /\ n.bursts = x.bursts
    BY <2>2, <2>3, <2>4, <2>5, AskedGood
  <2>7. QED
    BY <2>3, <2>6 DEF Calm
<1>3. QED
  BY <1>1, <1>2

LEMMA OnMapGood ==
    ASSUME NEW m, GoodModem(m), Listening(m), NEW map \in Maps, NEW n \in OnMap(m, map)
    PROVE  /\ Quietly(m, n) /\ Listening(n)
           /\ Waits(m) => Waits(n)
           /\ n.state = "ranging-station" => m.state = "ranging-station" \/ Reached(n)
<1>1. CASE n = m
  BY <1>1 DEF Quietly, Keeps
<1>2. CASE n # m
  <2>1. PICK a \in OfferInitialMaintenance(m, map) :
        \E b \in OfferDataGrant(OfferStationMaintenance(a, map), map) :
        \E c \in OfferRequestRegion(b, map) : n = CheckAcknowledged(m, c, map)
    BY <1>2 DEF OnMap
  <2>2. PICK polled : polled = OfferStationMaintenance(a, map)
    OBVIOUS
  <2>3. PICK b \in OfferDataGrant(polled, map) :
        \E c \in OfferRequestRegion(b, map) : n = CheckAcknowledged(m, c, map)
    BY <2>1, <2>2
  <2>4. PICK c \in OfferRequestRegion(b, map) : n = CheckAcknowledged(m, c, map)
    BY <2>3
  <2>5. /\ Quietly(m, a) /\ Listening(a) /\ (Waits(m) => Waits(a))
        /\ a.state = m.state \/ a.state = "ranging-initial"
    BY OfferInitialMaintenanceGood
  <2>6. /\ Quietly(a, polled) /\ Listening(polled) /\ (Waits(a) => Waits(polled))
        /\ polled.state = a.state \/ Reached(polled)
    BY <2>2, <2>5, OfferStationMaintenanceGood DEF Quietly, Keeps
  <2>7. Quietly(polled, b) /\ Listening(b) /\ Calm(polled, b)
    BY <2>6, OfferDataGrantGood DEF Quietly, Keeps
  <2>8. Quietly(b, c) /\ Listening(c) /\ Calm(b, c)
    BY <2>7, OfferRequestRegionGood DEF Quietly, Keeps
  <2>9. Quietly(c, n) /\ Listening(n) /\ Calm(c, n)
    BY <2>4, <2>8, CheckAcknowledgedGood DEF Quietly, Keeps
  <2>10. Quietly(m, polled)
    BY <2>5, <2>6, KeepsTransitive DEF Quietly
  <2>11. Quietly(m, b)
    BY <2>7, <2>10, KeepsTransitive DEF Quietly
  <2>12. Quietly(m, c)
    BY <2>8, <2>11, KeepsTransitive DEF Quietly
  <2>13. Waits(m) => Waits(n)
    <3> SUFFICES ASSUME Waits(m) PROVE Waits(n)
      OBVIOUS
    <3>1. Waits(polled)
      BY <2>5, <2>6
    <3>2. Waits(b)
      BY <2>7, <3>1, CalmTransitive
    <3>3. Waits(c)
      BY <2>8, <3>2, CalmTransitive
    <3>4. QED
      BY <2>9, <3>3, CalmTransitive
  <2>14. n.state = polled.state /\ (Reached(polled) => Reached(n))
    BY <2>7, <2>8, <2>9 DEF Calm, Quietly, Keeps
  <2>15. n.state = "ranging-station" => m.state = "ranging-station" \/ Reached(n)
    BY <2>5, <2>6, <2>14
  <2>16. QED
    BY <2>9, <2>12, <2>13, <2>15, KeepsTransitive DEF Quietly
<1>3. QED
  BY <1>1, <1>2

-----------------------------------------------------------------------------
(* The downstream: SYNC, UCDs, and the carrier itself.                      *)
LEMMA OnSyncGood ==
    ASSUME NEW m, GoodModem(m), Listening(m), NEW n, n = OnSync(m)
    PROVE  Quietly(m, n) /\ Listening(n) /\ (Waits(m) => Waits(n))
<1>1. PICK heard : heard = [m EXCEPT !.synced = TRUE]
  OBVIOUS
<1>2. /\ heard \in Modems /\ heard.timers = m.timers /\ heard.state = m.state
      /\ SameUpstream(m, heard)
      /\ heard.sid = m.sid /\ heard.address = m.address /\ heard.ucd = m.ucd
      /\ heard.uccTarget = m.uccTarget
  BY <1>1 DEF GoodModem, Modems, SameUpstream
<1>3. Quietly(m, heard) /\ Listening(heard)
  <2>1. Listening(heard) /\ Reached(heard) = Reached(m) /\ Unserved(heard) = Unserved(m)
    BY <1>2 DEF Listening, Reached, Unserved, Carries, SameUpstream
  <2>2. GoodModem(heard)
    BY <1>2, <2>1 DEF GoodModem, SameUpstream
  <2>3. StayModem(m) => StayModem(heard)
    BY <1>2 DEF StayModem, Carries, SameUpstream
  <2>4. QED
    BY <1>2, <2>1, <2>2, <2>3 DEF Quietly, Keeps
<1>4. PICK locked : locked = Arm(heard, "lost-sync")
  OBVIOUS
<1>5. /\ Quietly(heard, locked) /\ locked.state = m.state /\ Calm(heard, locked)
  <2>1. "lost-sync" \in Timers
    BY DEF Timers, MacTimers
  <2>2. locked.state = heard.state /\ SameBasics(heard, locked)
    BY <1>2, <1>4, <2>1, ArmFields
  <2>3. QED
    BY <1>2, <1>3, <1>4, <2>1, <2>2, ArmGood DEF Quietly, Keeps, SameBasics
<1>6. Quietly(m, locked) /\ Listening(locked)
  BY <1>3, <1>5, KeepsTransitive DEF Quietly, Listening
<1>7. CASE m.state # "sync-wait"
  <2>1. n = locked
    BY <1>1, <1>4, <1>7 DEF OnSync
  <2>2. Waits(m) => Waits(heard)
    BY <1>2 DEF Waits
  <2>3. QED
    BY <2>1, <2>2, <1>5, <1>6, CalmTransitive
<1>8. CASE m.state = "sync-wait"
  <2>1. PICK waiting : waiting = [locked EXCEPT !.state = "ucd-wait"]
    OBVIOUS
  <2>2. n = Arm(waiting, "T1")
    BY <1>1, <1>4, <1>8, <2>1 DEF OnSync
  <2>3. /\ waiting \in Modems /\ waiting.timers = locked.timers /\ waiting.state = "ucd-wait"
        /\ SameBasics(locked, waiting) /\ SameUpstream(locked, waiting)
    <3>1. "ucd-wait" \in States
      BY DEF States
    <3>2. QED
      BY <2>1, <3>1, <1>5, StateFields DEF Quietly, Keeps, GoodModem
  <2>4. Quietly(locked, waiting) /\ Listening(waiting)
    <3>1. /\ Listening(waiting) /\ Reached(waiting) = Reached(locked)
          /\ Unserved(locked) => Unserved(waiting)
      BY <2>3 DEF Listening, Reached, Unserved, Carries, SameUpstream, SameBasics, InService
    <3>2. ~(Reached(locked) /\ locked.state \in InService)
      BY <1>5, <1>8 DEF InService
    <3>3. GoodModem(waiting)
      BY <2>3, <3>1, <1>5, <1>6, <1>8
         DEF Quietly, Keeps, GoodModem, SameUpstream, SameBasics, Off, Early
    <3>4. StayModem(locked) => StayModem(waiting)
      BY <2>3, <1>5, <1>8 DEF StayModem, Carries, SameUpstream, SameBasics, Off, Early
    <3>5. QED
      BY <2>3, <3>1, <3>3, <3>4, <1>5, <1>6, <1>8 DEF Quietly, Keeps, Early
  <2>5. Quietly(waiting, n) /\ Listening(n) /\ Waits(n)
    <3>1. "T1" \in Timers /\ GoodModem(waiting)
      BY <2>4 DEF Timers, MacTimers, Quietly, Keeps
    <3>2. n.state = waiting.state /\ "T1" \in n.timers
      BY <2>2, <2>3, <3>1, ArmFields
    <3>3. QED
      BY <2>2, <2>3, <2>4, <3>1, <3>2, ArmGood DEF Listening, Waits
  <2>6. Quietly(m, waiting)
    BY <1>6, <2>4, KeepsTransitive DEF Quietly
  <2>7. QED
    BY <2>5, <2>6, KeepsTransitive DEF Quietly
<1>9. QED
  BY <1>7, <1>8

LEMMA OnUcdGood ==
    ASSUME NEW m, GoodModem(m), Listening(m), NEW u \in Ucds, NEW n, n = OnUcd(m, u)
    PROVE  Quietly(m, n) /\ Listening(n) /\ (Waits(m) => Waits(n))
<1>1. CASE n = m
  BY <1>1 DEF Quietly, Keeps
<1>2. CASE n # m
  <2>1. PICK taken : taken = [m EXCEPT !.ucd = u, !.uccTarget = NoChannel]
    OBVIOUS
  <2>2. PICK held : held = Disarm(taken, "T1")
    OBVIOUS
  <2>3. n = IF m.state = "ucd-wait" THEN Arm([held EXCEPT !.state = "ranging-wait"], "T2")
            ELSE held
    BY <1>2, <2>1, <2>2 DEF OnUcd
  <2>4. /\ taken \in Modems /\ taken.timers = m.timers /\ taken.state = m.state
        /\ taken.ucd # NoUcd /\ SameUpstream(m, taken)
        /\ taken.sid = m.sid /\ taken.address = m.address
    <3>1. u # NoUcd
      <4>1. u.ch # NoChannel
        BY ModemAssumption DEF Ucds
      <4>2. NoUcd.ch = NoChannel
        BY DEF NoUcd
      <4>3. QED
        BY <4>1, <4>2
    <3>2. QED
      BY <2>1, <3>1 DEF GoodModem, Modems, SameUpstream
  <2>5. Quietly(m, taken) /\ Listening(taken)
    <3>1. Listening(taken) /\ Reached(taken) = Reached(m) /\ Unserved(taken) = Unserved(m)
      BY <2>4 DEF Listening, Reached, Unserved, Carries, SameUpstream
    <3>2. GoodModem(taken)
      BY <2>4, <3>1 DEF GoodModem, SameUpstream
    <3>3. StayModem(m) => StayModem(taken)
      BY <2>4 DEF StayModem, Carries, SameUpstream
    <3>4. QED
      BY <2>4, <3>1, <3>2, <3>3 DEF Quietly, Keeps
  <2>6. Quietly(taken, held) /\ held.state = m.state /\ held.ucd # NoUcd
    <3>1. "T1" \in Timers \ {"lost-sync", "T4"} /\ "T1" \in Timers
      BY DEF Timers, MacTimers
    <3>2. held.state = taken.state /\ SameBasics(taken, held)
      BY <2>2, <2>4, <3>1, DisarmFields
    <3>3. QED
      BY <2>2, <2>4, <2>5, <3>1, <3>2, DisarmGood DEF Quietly, Keeps, SameBasics
  <2>7. Quietly(m, held) /\ Listening(held)
    BY <2>5, <2>6, KeepsTransitive DEF Quietly, Listening
  <2>8. CASE m.state # "ucd-wait"
    <3>1. Waits(m) => Waits(taken)
      BY <2>4 DEF Waits
    <3>2. "T1" \in Timers /\ taken.state # "ucd-wait"
      BY <2>4, <2>8 DEF Timers, MacTimers
    <3>3. Waits(taken) => Waits(held)
      BY <2>2, <2>4, <3>2, DisarmWaits
    <3>4. QED
      BY <2>3, <2>7, <2>8, <3>1, <3>3
  <2>9. CASE m.state = "ucd-wait"
    <3>1. PICK waiting : waiting = [held EXCEPT !.state = "ranging-wait"]
      OBVIOUS
    <3>2. n = Arm(waiting, "T2")
      BY <2>3, <2>9, <3>1
    <3>3. /\ waiting \in Modems /\ waiting.timers = held.timers
          /\ waiting.state = "ranging-wait"
          /\ SameBasics(held, waiting) /\ SameUpstream(held, waiting)
      <4>1. "ranging-wait" \in States
        BY DEF States
      <4>2. QED
        BY <3>1, <4>1, <2>6, StateFields DEF Quietly, Keeps, GoodModem
    <3>4. Quietly(held, waiting) /\ Listening(waiting)
      <4>1. /\ Listening(waiting) /\ Reached(waiting) = Reached(held)
            /\ Unserved(held) => Unserved(waiting)
        BY <3>3 DEF Listening, Reached, Unserved, Carries, SameUpstream, SameBasics, InService
      <4>2. GoodModem(waiting)
        BY <3>3, <4>1, <2>6, <2>7
           DEF Quietly, Keeps, GoodModem, SameUpstream, SameBasics, Off, Early
      <4>3. StayModem(held) => StayModem(waiting)
        BY <3>3, <2>6, <2>9 DEF StayModem, Carries, SameUpstream, SameBasics, Off, Early
      <4>4. QED
        BY <3>3, <4>1, <4>2, <4>3, <2>6, <2>7, <2>9 DEF Quietly, Keeps, Early
    <3>5. Quietly(waiting, n) /\ Listening(n) /\ Waits(n)
      <4>1. "T2" \in Timers /\ GoodModem(waiting)
        BY <3>4 DEF Timers, MacTimers, Quietly, Keeps
      <4>2. n.state = waiting.state /\ Waits(n)
        BY <3>2, <3>3, <4>1, ArmFields DEF Waits
      <4>3. QED
        BY <3>2, <3>4, <4>1, <4>2, ArmGood DEF Listening
    <3>6. Quietly(m, waiting)
      BY <2>7, <3>4, KeepsTransitive DEF Quietly
    <3>7. QED
      BY <3>5, <3>6, KeepsTransitive DEF Quietly
  <2>10. QED
    BY <2>8, <2>9
<1>3. QED
  BY <1>1, <1>2

(* The scan begins with nothing scheduled, so the search holds nothing.     *)
LEMMA LockDownstreamGood ==
    ASSUME NEW m, GoodModem(m), m.bursts = <<>>, NEW n, n = LockDownstream(m)
    PROVE  /\ GoodModem(n) /\ (StayModem(m) => StayModem(n)) /\ (Waits(m) => Waits(n))
           /\ m.state # "ds-scan" => Quietly(m, n)
           /\ m.state = "ds-scan" => Unserved(n) /\ ~Reached(n) /\ n.state = "sync-wait"
<1>1. {"ds-scan", "lost-sync"} \subseteq Timers /\ "ds-scan" \in Timers \ {"lost-sync", "T4"}
  BY DEF Timers, MacTimers
<1>2. CASE m.state # "ds-scan"
  <2>1. n = Disarm(m, "ds-scan")
    BY <1>2 DEF LockDownstream
  <2>2. Waits(m) => Waits(n)
    BY <1>1, <2>1, DisarmWaits DEF GoodModem
  <2>3. QED
    BY <1>1, <1>2, <2>1, <2>2, DisarmGood DEF Quietly, Keeps
<1>3. CASE m.state = "ds-scan"
  <2>1. PICK waiting : waiting = [m EXCEPT !.state = "sync-wait"]
    OBVIOUS
  <2>2. PICK found : found = Disarm(waiting, "ds-scan")
    OBVIOUS
  <2>3. n = Arm(found, "lost-sync")
    BY <1>3, <2>1, <2>2 DEF LockDownstream
  <2>4. /\ waiting \in Modems /\ waiting.timers = m.timers /\ waiting.state = "sync-wait"
        /\ SameBasics(m, waiting) /\ SameUpstream(m, waiting)
    <3>1. "sync-wait" \in States /\ m \in Modems
      BY DEF States, GoodModem
    <3>2. QED
      BY <2>1, <3>1, StateFields
  <2>5. /\ found \in Modems /\ found.timers = waiting.timers \ {"ds-scan"}
        /\ found.state = "sync-wait"
        /\ SameBasics(waiting, found) /\ SameUpstream(waiting, found)
    BY <1>1, <2>2, <2>4, DisarmFields
  <2>6. /\ n \in Modems /\ n.timers = found.timers \union {"lost-sync"}
        /\ n.state = "sync-wait"
        /\ SameBasics(found, n) /\ SameUpstream(found, n)
    BY <1>1, <2>3, <2>5, ArmFields
  <2>7. /\ n.timers = (m.timers \ {"ds-scan"}) \union {"lost-sync"}
        /\ n.sid = NoSid /\ n.ucd = NoUcd /\ ~n.address /\ n.queue = <<>> /\ n.bursts = <<>>
        /\ n.outstanding = m.outstanding
    BY <1>3, <2>4, <2>5, <2>6 DEF SameBasics, SameUpstream, GoodModem, Listening
  <2>8. Unserved(n) /\ ~Reached(n)
    BY <2>6, <2>7, EmptySeq DEF Unserved, Reached, Carries, InService
  <2>9. GoodModem(n)
    <3>1. n.bursts \in Seq(BurstsOf(Frames))
      BY <2>7, EmptySeq
    <3>2. "T3" \notin m.timers /\ ~m.outstanding
      BY <1>3 DEF GoodModem, Off, Listening
    <3>3. QED
      BY <2>6, <2>7, <2>8, <3>1, <3>2 DEF GoodModem, Listening
  <2>10. StayModem(n)
    BY <2>6, <2>7, EmptySeq DEF StayModem, Carries, Off, Early
  <2>11. QED
    BY <1>3, <2>6, <2>8, <2>9, <2>10 DEF Waits
<1>4. QED
  BY <1>2, <1>3

LEMMA PowerOnGood ==
    ASSUME NEW m, GoodModem(m), m.state = "offline", NEW n, n = PowerOn(m)
    PROVE  Quietly(m, n) /\ ~Listening(n)
<1>1. PICK scanning : scanning = [m EXCEPT !.state = "ds-scan"]
  OBVIOUS
<1>2. n = Arm(scanning, "ds-scan")
  BY <1>1 DEF PowerOn
<1>3. /\ scanning \in Modems /\ scanning.timers = m.timers /\ scanning.state = "ds-scan"
      /\ SameBasics(m, scanning) /\ SameUpstream(m, scanning)
  <2>1. "ds-scan" \in States /\ m \in Modems
    BY DEF States, GoodModem
  <2>2. QED
    BY <1>1, <2>1, StateFields
<1>4. GoodModem(scanning) /\ (StayModem(m) => StayModem(scanning)) /\ ~Listening(scanning)
  BY <1>3 DEF GoodModem, StayModem, Carries, SameBasics, SameUpstream, Listening, Off, Early
<1>5. "ds-scan" \in Timers
  BY DEF Timers
<1>6. n.state = "ds-scan"
  BY <1>2, <1>3, <1>5, ArmFields
<1>7. Quietly(scanning, n)
  BY <1>2, <1>4, <1>5, ArmGood
<1>8. QED
  BY <1>4, <1>6, <1>7 DEF Quietly, Keeps, Listening

-----------------------------------------------------------------------------
(* Bursts that leave.                                                       *)
LEMMA AllSentSteps ==
    ASSUME NEW S, NEW m \in S, NEW F, NEW frames \in Seq(F),
           \A a \in S : \A f \in F : OnSent(a, f) \in S
    PROVE  \E after :
               /\ AllSent(m, frames) = after[Len(frames)]
               /\ \A k \in 0 .. Len(frames) : after[k] \in S
               /\ \A k \in 1 .. Len(frames) : after[k] = OnSent(after[k - 1], frames[k])
<1> DEFINE D == 0 .. Len(frames)
           Of(g, k) == \A n \in 0 .. k :
                           g[n] = IF n = 0 THEN m ELSE OnSent(g[n - 1], frames[n])
           Without == {k \in D : \A g : ~Of(g, k)}
<1>1. Len(frames) \in Nat /\ \A n \in 1 .. Len(frames) : frames[n] \in F
  BY LenProperties, ElementOfSeq
<1>2. Without = {}
  <2> SUFFICES ASSUME Without # {} PROVE FALSE
    OBVIOUS
  <2>1. Without \subseteq Nat
    BY <1>1
  <2> HIDE DEF Without
  <2>2. PICK k \in Without : \A j \in Without : k <= j
    BY <2>1, LeastElement
  <2> USE DEF Without
  <2>3. CASE k = 0
    <3>1. Of([n \in {0} |-> m], 0)
      OBVIOUS
    <3>2. QED
      BY <2>3, <3>1
  <2>4. CASE k # 0
    <3>1. k \in D /\ k - 1 \in D /\ k \in Nat /\ k - 1 \in Nat /\ k - 1 \notin Without
      <4>1. k \in D /\ k - 1 \in D /\ k \in Nat /\ k - 1 \in Nat /\ ~(k <= k - 1)
        BY <1>1, <2>2, <2>4
      <4> HIDE DEF Without
      <4>2. k - 1 \notin Without
        BY <2>2, <4>1
      <4>3. QED
        BY <4>1, <4>2
    <3>2. PICK g : Of(g, k - 1)
      BY <3>1
    <3>3. PICK h : h = [n \in 0 .. k |-> IF n = k THEN OnSent(g[k - 1], frames[k]) ELSE g[n]]
      OBVIOUS
    <3>4. ASSUME NEW n \in 0 .. k
          PROVE  h[n] = IF n = 0 THEN m ELSE OnSent(h[n - 1], frames[n])
      <4>1. CASE n = k
        BY <2>4, <3>1, <3>3, <4>1
      <4>2. CASE n # k
        <5>1. n \in 0 .. (k - 1) /\ h[n] = g[n]
          BY <3>1, <3>3, <4>2
        <5>2. n # 0 => h[n - 1] = g[n - 1]
          BY <3>1, <3>3, <4>2
        <5>3. QED
          BY <3>2, <5>1, <5>2
      <4>3. QED
        BY <4>1, <4>2
    <3>5. QED
      BY <2>2, <3>4
  <2>5. QED
    BY <2>3, <2>4
<1> DEFINE Recursive(g) == g = [n \in D |-> IF n = 0 THEN m ELSE OnSent(g[n - 1], frames[n])]
           after == CHOOSE g : Recursive(g)
<1>3. Recursive(after)
  <2>1. PICK g : Of(g, Len(frames))
    BY <1>1, <1>2
  <2>2. PICK h : h = [n \in D |-> g[n]]
    OBVIOUS
  <2>3. ASSUME NEW n \in D
        PROVE  h[n] = IF n = 0 THEN m ELSE OnSent(h[n - 1], frames[n])
    <3>1. n # 0 => n - 1 \in D
      BY <1>1
    <3>2. QED
      BY <2>1, <2>2, <2>3, <3>1
  <2>4. h = [n \in D |-> IF n = 0 THEN m ELSE OnSent(h[n - 1], frames[n])]
    BY <2>2, <2>3
  <2>5. QED
    BY <2>4
<1>4. AllSent(m, frames) = after[Len(frames)]
  BY DEF AllSent
<1> HIDE DEF after
<1> DEFINE Outside == {n \in D : after[n] \notin S}
<1>5. Outside = {}
  <2> SUFFICES ASSUME Outside # {} PROVE FALSE
    OBVIOUS
  <2>1. Outside \subseteq Nat
    BY <1>1
  <2> HIDE DEF Outside
  <2>2. PICK k \in Outside : \A j \in Outside : k <= j
    BY <2>1, LeastElement
  <2> USE DEF Outside
  <2>3. k \in D /\ after[k] \notin S
    BY <2>2
  <2>4. after[k] = IF k = 0 THEN m ELSE OnSent(after[k - 1], frames[k])
    BY <1>3, <2>3
  <2>5. k # 0
    BY <2>3, <2>4
  <2>6. k - 1 \in D /\ k - 1 < k /\ frames[k] \in F
    BY <1>1, <2>3, <2>5
  <2>7. after[k - 1] \in S
    BY <1>1, <2>2, <2>6
  <2>8. QED
    BY <2>3, <2>4, <2>5, <2>6, <2>7
<1>6. \A k \in 0 .. Len(frames) : after[k] \in S
  BY <1>5
<1> HIDE DEF Outside
<1>7. ASSUME NEW k \in 1 .. Len(frames) PROVE after[k] = OnSent(after[k - 1], frames[k])
  <2>1. k \in D /\ k # 0
    BY <1>1
  <2>2. after[k] = IF k = 0 THEN m ELSE OnSent(after[k - 1], frames[k])
    <3> HIDE DEF D
    <3> QED BY <1>3, <2>1, Zenon
  <2>3. QED
    BY <2>1, <2>2, Zenon
<1>8. \A k \in 1 .. Len(frames) : after[k] = OnSent(after[k - 1], frames[k])
  BY <1>7
<1>9. QED
  BY <1>4, <1>6, <1>8

LEMMA AllSentIn ==
    ASSUME NEW S, NEW m \in S, NEW F, NEW frames \in Seq(F),
           \A a \in S : \A f \in F : OnSent(a, f) \in S
    PROVE  AllSent(m, frames) \in S
<1>1. Len(frames) \in 0 .. Len(frames)
  BY LenProperties
<1>2. QED
  BY <1>1, AllSentSteps

LEMMA OnSentGood ==
    ASSUME NEW m, GoodModem(m), Listening(m), NEW frame \in Frames,
           Reached(m) \/ frame \in Quiet, NEW n, n = OnSent(m, frame)
    PROVE  /\ GoodModem(n) /\ Listening(n)
           /\ Reached(m) => Reached(n)
           /\ Unserved(m) /\ frame \in Quiet => Unserved(n)
           /\ n.state \in Early => m.state \in Early
           /\ Waits(m) => Waits(n)
<1>1. CASE n = m
  BY <1>1
<1>2. CASE frame[1] = "REG-ACK" /\ n # m
  <2>1. n = [m EXCEPT !.registered = TRUE, !.state = "operational"]
    BY <1>2 DEF OnSent, RegistrationComplete
  <2>2. /\ n \in Modems /\ n.timers = m.timers /\ n.state = "operational"
        /\ SameUpstream(m, n) /\ n.sid = m.sid
    <3>1. "operational" \in States
      BY DEF States
    <3>2. QED
      BY <2>1, <3>1 DEF GoodModem, Modems, SameUpstream
  <2>3. frame \notin Quiet
    BY <1>2 DEF Quiet, Provisioning
  <2>4. Listening(n) /\ Reached(n)
    BY <2>2, <2>3 DEF Listening, Reached
  <2>5. QED
    BY <2>2, <2>3, <2>4 DEF GoodModem, SameUpstream, Off, Early, Waits
<1>3. CASE frame[1] # "REG-ACK" /\ n # m
  <2>1. n = [m EXCEPT !.ucd = NoUcd, !.queue = <<>>, !.outstanding = FALSE,
                      !.requestSlot = FALSE, !.grantPending = FALSE, !.retries = 0,
                      !.state = "ranging-wait"]
    BY <1>3 DEF OnSent, LeaveUpstream
  <2>2. /\ n \in Modems /\ n.timers = m.timers /\ n.state = "ranging-wait"
        /\ n.sid = m.sid /\ n.address = m.address /\ n.bursts = m.bursts /\ n.queue = <<>>
        /\ n.outstanding = FALSE
    <3>1. "ranging-wait" \in States /\ 0 \in 0 .. (MaxRetries - 1)
      BY ModemAssumption DEF States
    <3>2. m \in Modems /\ <<>> \in Seq(Frames)
      BY EmptySeq DEF GoodModem
    <3>3. PICK k : k = [m EXCEPT !.ucd = NoUcd, !.queue = <<>>, !.outstanding = FALSE]
      OBVIOUS
    <3>4. /\ k \in Modems /\ k.timers = m.timers /\ k.queue = <<>> /\ k.outstanding = FALSE
          /\ k.sid = m.sid /\ k.address = m.address /\ k.bursts = m.bursts
      BY <3>2, <3>3 DEF Modems
    <3>5. n = [k EXCEPT !.requestSlot = FALSE, !.grantPending = FALSE, !.retries = 0,
                        !.state = "ranging-wait"]
      BY <2>1, <3>3
    <3>6. QED
      BY <3>1, <3>4, <3>5 DEF Modems
  <2>3. Listening(n) /\ Reached(n) = Reached(m) /\ (Unserved(m) => Unserved(n))
    BY <2>2, EmptySeq DEF Listening, Reached, Unserved, Carries, InService
  <2>4. GoodModem(n)
    <3>1. /\ m.bursts \in Seq(BurstsOf(Frames)) /\ "lost-sync" \in m.timers
          /\ Reached(m) \/ Unserved(m)
      BY DEF GoodModem
    <3>2. "ranging-wait" \notin Off \union Early
      BY DEF Off, Early
    <3>3. QED
      BY <2>2, <2>3, <3>1, <3>2, Zenon DEF GoodModem
  <2>5. n.state \notin Early /\ (Waits(m) => Waits(n))
    BY <2>2 DEF Early, Waits
  <2>6. QED
    BY <2>3, <2>4, <2>5
<1>4. QED
  BY <1>1, <1>2, <1>3

LEMMA OnSentStays ==
    ASSUME NEW m \in Modems, StayModem(m), m.state \notin Off \union Early,
           NEW frame \in Stay, NEW n, n = OnSent(m, frame)
    PROVE  n \in Modems /\ StayModem(n) /\ n.state \notin Off \union Early
<1>1. CASE n = m
  BY <1>1
<1>2. CASE n # m
  <2>1. frame[2] = NoChannel
    BY DEF Stay
  <2>2. n = [m EXCEPT !.registered = TRUE, !.state = "operational"]
    BY <1>2, <2>1 DEF OnSent, RegistrationComplete
  <2>3. /\ n \in Modems /\ n.state = "operational"
        /\ SameUpstream(m, n) /\ n.sid = m.sid /\ n.ucd = m.ucd
    <3>1. "operational" \in States
      BY DEF States
    <3>2. QED
      BY <2>2, <3>1 DEF Modems, SameUpstream
  <2>4. QED
    BY <2>3 DEF StayModem, Carries, SameUpstream, Off, Early
<1>3. QED
  BY <1>1, <1>2

LEMMA TransmitGood ==
    ASSUME NEW m, GoodModem(m), m.bursts # <<>>, NEW n, n = Transmit(m)
    PROVE  Quietly(m, n) /\ (Listening(n) = Listening(m)) /\ (Waits(m) => Waits(n))
<1>1. PICK sent : sent = [m EXCEPT !.bursts = Tail(@)]
  OBVIOUS
<1>2. /\ m.bursts \in Seq(Bursts) /\ Tail(m.bursts) \in Seq(Bursts)
      /\ Head(m.bursts) \in BurstsOf(Frames)
  BY SequencesOf DEF GoodModem, Modems
<1>3. /\ sent \in Modems /\ sent.timers = m.timers /\ sent.state = m.state
      /\ SameBasics(m, sent) /\ sent.queue = m.queue /\ sent.bursts = Tail(m.bursts)
      /\ sent.outstanding = m.outstanding /\ sent.grantPending = m.grantPending
  BY <1>1, <1>2 DEF GoodModem, Modems, SameBasics
<1>4. ASSUME NEW F, Carries(m, F)
      PROVE  Carries(sent, F) /\ Head(m.bursts).frames \in Seq(F)
  <2>1. Tail(m.bursts) \in Seq(BurstsOf(F)) /\ Head(m.bursts) \in BurstsOf(F)
    BY <1>4, SequencesOf DEF Carries
  <2>2. QED
    BY <1>3, <1>4, <2>1 DEF Carries, BurstsOf
<1>5. Listening(sent) = Listening(m) /\ Reached(sent) = Reached(m) /\ (Unserved(m) => Unserved(sent))
  BY <1>3, <1>4 DEF Listening, Reached, Unserved, SameBasics
<1>6. GoodModem(sent)
  <2>1. Carries(sent, Frames)
    BY <1>4, GoodCarries
  <2>2. QED
    BY <1>3, <1>5, <2>1 DEF GoodModem, Carries, SameBasics
<1>7. (StayModem(m) => StayModem(sent)) /\ m.state \notin Early
  BY <1>3, <1>4 DEF StayModem, SameBasics, GoodModem
<1>8. CASE m.ucd = NoUcd
  <2>1. n = sent
    BY <1>1, <1>8 DEF Transmit
  <2>2. QED
    BY <2>1, <1>3, <1>5, <1>6, <1>7, <1>8
       DEF Quietly, Keeps, StayModem, Waits, Off, Early
<1>9. CASE m.ucd # NoUcd
  <2>1. PICK frames : frames = Head(m.bursts).frames
    OBVIOUS
  <2>2. n = AllSent(sent, frames) /\ Listening(m)
    BY <1>1, <1>9, <2>1 DEF Transmit, GoodModem
  <2>3. PICK F : F = IF Unserved(m) THEN Quiet ELSE Frames
    OBVIOUS
  <2>4. frames \in Seq(F)
    <3>1. Carries(m, F)
      BY <2>3, GoodCarries DEF Unserved
    <3>2. QED
      BY <1>4, <2>1, <3>1
  <2> DEFINE Kept == {a \in Modems :
                         /\ GoodModem(a) /\ Listening(a)
                         /\ Reached(m) => Reached(a)
                         /\ Unserved(m) => Unserved(a)
                         /\ a.state \in Early => m.state \in Early
                         /\ Waits(m) => Waits(a)}
  <2>5. n \in Kept
    <3>1. sent \in Kept
      BY <1>3, <1>5, <1>6, <2>2 DEF Waits
    <3>2. ASSUME NEW a \in Kept, NEW frame \in F PROVE OnSent(a, frame) \in Kept
      <4>1. PICK b : b = OnSent(a, frame)
        OBVIOUS
      <4>2. frame \in Frames /\ (Unserved(m) => frame \in Quiet)
        BY <2>3, FrameSets
      <4>3. GoodModem(a) /\ Listening(a) /\ (Reached(a) \/ frame \in Quiet)
        BY <2>2, <4>2 DEF GoodModem
      <4>4. /\ GoodModem(b) /\ Listening(b)
            /\ Reached(a) => Reached(b)
            /\ Unserved(a) /\ frame \in Quiet => Unserved(b)
            /\ b.state \in Early => a.state \in Early
            /\ Waits(a) => Waits(b)
        BY <4>1, <4>2, <4>3, OnSentGood
      <4>5. QED
        BY <4>1, <4>2, <4>4 DEF GoodModem
    <3> HIDE DEF Kept
    <3>3. QED
      BY <2>2, <2>4, <3>1, <3>2, AllSentIn
  <2>6. ASSUME StayModem(m) PROVE StayModem(n)
    <3> DEFINE Staying == {a \in Modems : StayModem(a) /\ a.state \notin Off \union Early}
    <3>1. sent \in Staying
      BY <1>3, <1>7, <2>2, <2>6 DEF Listening, Off
    <3>2. frames \in Seq(Stay)
      BY <1>4, <2>1, <2>6 DEF StayModem
    <3>3. ASSUME NEW a \in Staying, NEW frame \in Stay PROVE OnSent(a, frame) \in Staying
      <4>1. PICK b : b = OnSent(a, frame)
        OBVIOUS
      <4>2. a \in Modems /\ StayModem(a) /\ a.state \notin Off \union Early
        OBVIOUS
      <4>3. b \in Modems /\ StayModem(b) /\ b.state \notin Off \union Early
        BY <4>1, <4>2, OnSentStays
      <4>4. QED
        BY <4>1, <4>3
    <3> HIDE DEF Staying
    <3>4. n \in Staying
      BY <2>2, <3>1, <3>2, <3>3, AllSentIn
    <3>5. QED
      BY <3>4 DEF Staying
  <2>7. QED
    BY <2>2, <2>5, <2>6 DEF Quietly, Keeps
<1>10. QED
  BY <1>8, <1>9

-----------------------------------------------------------------------------
(* Provisioning.                                                            *)
LEMMA SameGood ==
    ASSUME NEW m, GoodModem(m), NEW n \in Modems, n.timers = m.timers, n.state = m.state,
           SameUpstream(m, n), n.sid = m.sid, n.ucd = m.ucd,
           n.uccTarget = m.uccTarget \/ Listening(m),
           n.address = m.address \/ (Listening(m) /\ Reached(m))
    PROVE  Keeps(m, n) /\ (n.address = m.address => Quietly(m, n)) /\ Calm(m, n)
<1>1. /\ Listening(n) = Listening(m) /\ Reached(n) = Reached(m)
      /\ n.address = m.address => Unserved(n) = Unserved(m)
  BY DEF Listening, Reached, Unserved, Carries, SameUpstream
<1>2. GoodModem(n)
  BY <1>1 DEF GoodModem, SameUpstream
<1>3. StayModem(m) => StayModem(n)
  BY <1>1 DEF StayModem, Carries, SameUpstream, Reached, Listening, Off, Early
<1>4. QED
  BY <1>1, <1>2, <1>3 DEF Quietly, Keeps, Calm

LEMMA SupersededIn ==
    ASSUME NEW F, F \subseteq Frames, <<"STACK", NoChannel>> \in F, NEW frames \in Seq(F)
    PROVE  Superseded(frames) \in Seq(F) /\ (frames = <<>> <=> Superseded(frames) = <<>>)
<1>1. PICK stack : stack = <<"STACK", NoChannel>>
  OBVIOUS
<1>2. PICK n \in Nat : frames \in [1 .. n -> F] /\ DOMAIN frames = 1 .. n
  BY SeqDef
<1>3. Superseded(frames) \in [1 .. n -> F]
  BY <1>1, <1>2 DEF Superseded
<1>4. Superseded(frames) \in Seq(F)
  BY <1>2, <1>3, SeqDef
<1>5. Len(frames) = n /\ Len(Superseded(frames)) = n
  BY <1>2, <1>3, <1>4, LenProperties
<1>6. QED
  BY <1>4, <1>5, EmptySeq

(* A modem that starts over with DHCP: the frames of the old attempt count  *)
(* no more.                                                                 *)
LEMMA StartDhcpGood ==
    ASSUME NEW m, GoodModem(m), Listening(m), Reached(m), NEW n, n = StartDhcp(m)
    PROVE  Keeps(m, n) /\ Listening(n) /\ Reached(n) /\ Waits(n)
<1>1. PICK queue : queue = Superseded(m.queue)
  OBVIOUS
<1>2. PICK bursts : bursts = [i \in DOMAIN m.bursts |-> Withdrawn(m.bursts[i])]
  OBVIOUS
<1>3. PICK x : x = [m EXCEPT !.state = "dhcp", !.queue = queue, !.bursts = bursts]
  OBVIOUS
<1>4. n = Enqueue(x, "DISCOVER")
  BY <1>1, <1>2, <1>3 DEF StartDhcp
<1>5. ASSUME NEW F, F \subseteq Frames, <<"STACK", NoChannel>> \in F, Carries(m, F)
      PROVE  queue \in Seq(F) /\ bursts \in Seq(BurstsOf(F))
  <2>1. queue \in Seq(F)
    BY <1>1, <1>5, SupersededIn DEF Carries
  <2>2. PICK k \in Nat : m.bursts \in [1 .. k -> BurstsOf(F)] /\ DOMAIN m.bursts = 1 .. k
    BY <1>5, SeqDef DEF Carries
  <2>3. ASSUME NEW i \in 1 .. k PROVE Withdrawn(m.bursts[i]) \in BurstsOf(F)
    <3>1. PICK b : b = m.bursts[i]
      OBVIOUS
    <3>2. b \in BurstsOf(F)
      BY <2>2, <3>1
    <3>3. PICK frames : frames = Superseded(b.frames)
      OBVIOUS
    <3>4. frames \in Seq(F)
      BY <1>5, <3>2, <3>3, SupersededIn DEF BurstsOf
    <3>5. [b EXCEPT !.frames = frames] \in BurstsOf(F)
      BY <3>2, <3>4 DEF BurstsOf
    <3>6. QED
      BY <3>1, <3>3, <3>5 DEF Withdrawn
  <2>4. bursts \in [1 .. k -> BurstsOf(F)]
    BY <1>2, <2>2, <2>3
  <2>5. QED
    BY <2>1, <2>4, SeqDef
<1>6. queue \in Seq(Frames) /\ bursts \in Seq(BurstsOf(Frames)) /\ bursts \in Seq(Bursts)
  <2>1. queue \in Seq(Frames) /\ bursts \in Seq(BurstsOf(Frames))
    BY <1>5, GoodCarries, FrameSets
  <2>2. BurstsOf(Frames) \subseteq Bursts
    BY DEF BurstsOf, Bursts
  <2>3. QED
    BY <2>1, <2>2, SeqMonotonic
<1>7. /\ x \in Modems /\ x.timers = m.timers /\ x.state = "dhcp"
      /\ SameBasics(m, x) /\ x.queue = queue /\ x.bursts = bursts
      /\ x.outstanding = m.outstanding /\ x.grantPending = m.grantPending
  <2>1. "dhcp" \in States /\ m \in Modems
    BY DEF States, GoodModem
  <2>2. QED
    BY <1>3, <1>6, <2>1 DEF Modems, SameBasics
<1>8. Keeps(m, x) /\ Listening(x) /\ Reached(x)
  <2>1. Listening(x) /\ Reached(x)
    BY <1>7 DEF Listening, Reached, SameBasics
  <2>2. GoodModem(x)
    BY <1>6, <1>7, <2>1 DEF GoodModem, SameBasics, Off, Early
  <2>3. ASSUME StayModem(m) PROVE StayModem(x)
    <3>1. queue \in Seq(Stay) /\ bursts \in Seq(BurstsOf(Stay))
      <4>1. <<"STACK", NoChannel>> \in Stay
        BY FrameSets DEF FrameKinds
      <4>2. QED
        BY <1>5, <2>3, <4>1, FrameSets DEF StayModem
    <3>2. queue = <<>> <=> m.queue = <<>>
      BY <1>1, <2>3, <3>1, SupersededIn, FrameSets DEF StayModem, Carries, GoodModem, Modems
    <3>3. m.state \notin Off \union Early
      BY <2>3 DEF StayModem, Reached
    <3>4. QED
      BY <1>7, <2>3, <3>1, <3>2, <3>3 DEF StayModem, Carries, SameBasics, Off, Early
  <2>4. QED
    BY <1>7, <2>1, <2>2, <2>3 DEF Keeps, Early
<1>9. Keeps(x, n) /\ Listening(n) /\ Reached(n) /\ Waits(n)
  <2>1. "DISCOVER" \in FrameKinds
    BY DEF FrameKinds
  <2>2. Keeps(x, n) /\ Listening(n) /\ Reached(n) /\ Calm(x, n)
    BY <1>4, <1>8, <2>1, EnqueueGood DEF Keeps
  <2>3. QED
    BY <1>7, <2>2 DEF Calm, Waits
<1>10. QED
  BY <1>8, <1>9, KeepsTransitive

(* The next step of provisioning: a state, a frame and a timer.             *)
LEMMA NextStepGood ==
    ASSUME NEW m, GoodModem(m), Listening(m), Reached(m),
           NEW state \in InService, NEW kind \in FrameKinds, NEW timer \in Timers \ {"T3"},
           NEW n, n = Arm(Enqueue([m EXCEPT !.state = state], kind), timer)
    PROVE  /\ Keeps(m, n) /\ Listening(n) /\ Reached(n)
           /\ n.state = state /\ timer \in n.timers
<1>1. PICK turned : turned = [m EXCEPT !.state = state]
  OBVIOUS
<1>2. PICK asked : asked = Enqueue(turned, kind)
  OBVIOUS
<1>3. n = Arm(asked, timer)
  BY <1>1, <1>2
<1>4. Keeps(m, turned) /\ Listening(turned) /\ Reached(turned) /\ turned.state = state
  <2>1. state \in States \ (Off \union Early)
    BY DEF InService, States, Off, Early
  <2>2. Keeps(m, turned) /\ Listening(turned) /\ turned.state = state
    BY <1>1, <2>1, StateGood
  <2>3. QED
    BY <2>2 DEF Keeps
<1>5. Keeps(turned, asked) /\ Listening(asked) /\ Reached(asked) /\ asked.state = state
  BY <1>2, <1>4, EnqueueGood DEF Keeps, Calm
<1>6. Keeps(asked, n) /\ Listening(n) /\ n.state = state /\ timer \in n.timers
  <2>1. timer \in n.timers
    BY <1>3, <1>5, ArmFields DEF Keeps, GoodModem
  <2>2. QED
    BY <1>3, <1>5, <2>1, ArmGood DEF Quietly, Keeps, Listening
<1>7. Keeps(m, asked)
  BY <1>4, <1>5, KeepsTransitive
<1>8. QED
  BY <1>5, <1>6, <1>7, KeepsTransitive DEF Keeps

LEMMA StartTftpGood ==
    ASSUME NEW m, GoodModem(m), Listening(m), Reached(m), NEW n, n = StartTftp(m)
    PROVE  /\ Keeps(m, n) /\ Listening(n) /\ Reached(n)
           /\ Waits(m) \/ BootFile => Waits(n)
<1>1. CASE n = m /\ ~BootFile
  BY <1>1 DEF Keeps
<1>2. CASE BootFile
  <2>1. PICK x : x = [m EXCEPT !.loaded = FALSE]
    OBVIOUS
  <2>2. [m EXCEPT !.state = "tftp-config", !.loaded = FALSE] = [x EXCEPT !.state = "tftp-config"]
    BY <2>1 DEF GoodModem, Modems
  <2>3. n = Arm(Enqueue([x EXCEPT !.state = "tftp-config"], "RRQ"), "tftp")
    BY <1>2, <2>2 DEF StartTftp
  <2>4. Keeps(m, x) /\ Listening(x) /\ Reached(x)
    <3>1. /\ x \in Modems /\ x.timers = m.timers /\ x.state = m.state
          /\ SameUpstream(m, x) /\ x.sid = m.sid /\ x.ucd = m.ucd
          /\ x.address = m.address
      BY <2>1 DEF GoodModem, Modems, SameUpstream
    <3>2. Keeps(m, x)
      BY <3>1, SameGood
    <3>3. QED
      BY <3>1, <3>2 DEF Listening, Reached
  <2>5. "tftp-config" \in InService /\ "RRQ" \in FrameKinds /\ "tftp" \in Timers \ {"T3"}
    BY DEF InService, FrameKinds, Timers
  <2>6. /\ Keeps(x, n) /\ Listening(n) /\ Reached(n)
        /\ n.state = "tftp-config" /\ "tftp" \in n.timers
    BY <2>3, <2>4, <2>5, NextStepGood DEF Keeps
  <2>7. QED
    BY <2>4, <2>6, KeepsTransitive DEF Waits
<1>3. QED
  BY <1>1, <1>2 DEF StartTftp

LEMMA OnDhcpAckGood ==
    ASSUME NEW m, GoodModem(m), Listening(m), Reached(m), NEW n, n = OnDhcpAck(m)
    PROVE  Keeps(m, n) /\ Listening(n) /\ Reached(n) /\ (Waits(m) => Waits(n))
<1>1. PICK bound : bound = [m EXCEPT !.address = TRUE]
  OBVIOUS
<1>2. Keeps(m, bound) /\ Listening(bound) /\ Reached(bound) /\ Calm(m, bound)
  <2>1. /\ bound \in Modems /\ bound.timers = m.timers /\ bound.state = m.state
        /\ SameUpstream(m, bound) /\ bound.sid = m.sid /\ bound.ucd = m.ucd
    BY <1>1 DEF GoodModem, Modems, SameUpstream
  <2>2. Keeps(m, bound) /\ Calm(m, bound)
    BY <2>1, SameGood
  <2>3. QED
    BY <2>1, <2>2 DEF Listening, Reached
<1>3. Keeps(bound, n) /\ Listening(n) /\ Reached(n) /\ (Waits(bound) => Waits(n))
  <2>1. CASE n = StartTod(bound)
    <3>1. "time-of-day" \in InService /\ "TOD" \in FrameKinds /\ "tod" \in Timers \ {"T3"}
      BY DEF InService, FrameKinds, Timers
    <3>2. n = Arm(Enqueue([bound EXCEPT !.state = "time-of-day"], "TOD"), "tod")
      BY <2>1 DEF StartTod
    <3>3. QED
      BY <1>2, <3>1, <3>2, NextStepGood DEF Keeps, Waits
  <2>2. CASE n = StartTftp(bound)
    BY <1>2, <2>2, StartTftpGood DEF Keeps
  <2>3. QED
    BY <1>1, <2>1, <2>2 DEF OnDhcpAck
<1>4. QED
  BY <1>2, <1>3, KeepsTransitive, CalmTransitive

LEMMA OnTodGood ==
    ASSUME NEW m, GoodModem(m), Listening(m), Reached(m), NEW n, n = OnTod(m)
    PROVE  Keeps(m, n) /\ Listening(n) /\ Reached(n) /\ (Waits(m) => Waits(n))
<1>1. CASE n = m
  BY <1>1 DEF Keeps
<1>2. CASE n = StartTftp(m)
  BY <1>2, StartTftpGood
<1>3. QED
  BY <1>1, <1>2 DEF OnTod

LEMMA RegisterGood ==
    ASSUME NEW m, GoodModem(m), Listening(m), Reached(m), NEW n, n = Register(m)
    PROVE  Keeps(m, n) /\ Listening(n) /\ Reached(n) /\ Waits(n)
<1>1. PICK asked : asked = Arm(Enqueue([m EXCEPT !.state = "registering"], "REG-REQ"), "T6")
  OBVIOUS
<1>2. /\ Keeps(m, asked) /\ Listening(asked) /\ Reached(asked)
      /\ asked.state = "registering" /\ "T6" \in asked.timers
  <2>1. "registering" \in InService /\ "REG-REQ" \in FrameKinds /\ "T6" \in Timers \ {"T3"}
    BY DEF InService, FrameKinds, Timers, MacTimers
  <2>2. QED
    BY <1>1, <2>1, NextStepGood
<1>3. CASE n = asked
  BY <1>2, <1>3 DEF Waits
<1>4. CASE n = Arm(asked, "lost-T6")
  <2>1. "lost-T6" \in Timers
    BY DEF Timers
  <2>2. Keeps(asked, n) /\ Listening(n) /\ Calm(asked, n)
    BY <1>2, <1>4, <2>1, ArmGood DEF Quietly, Keeps, Listening
  <2>3. QED
    BY <1>2, <2>2, KeepsTransitive DEF Keeps, Calm, Waits
<1>5. QED
  BY <1>1, <1>3, <1>4 DEF Register

LEMMA OnTftpDataGood ==
    ASSUME NEW m, GoodModem(m), Listening(m), Reached(m), NEW block, NEW micOk \in BOOLEAN,
           NEW n, n = OnTftpData(m, block, micOk)
    PROVE  Keeps(m, n) /\ (Waits(m) => Waits(n))
<1>1. {"STACK", "ACK", "LAST-ACK"} \subseteq FrameKinds
  BY DEF FrameKinds
<1>2. CASE n = Enqueue(m, "STACK") \/ n = Enqueue(m, "ACK")
  BY <1>1, <1>2, EnqueueGood, CalmTransitive
<1>3. CASE ~(n = Enqueue(m, "STACK") \/ n = Enqueue(m, "ACK"))
  <2>1. PICK x : x = [m EXCEPT !.loaded = TRUE]
    OBVIOUS
  <2>2. PICK whole : whole = Enqueue(x, "LAST-ACK")
    OBVIOUS
  <2>3. n = Register(whole) \/ n = Reinitialize(whole)
    BY <1>3, <2>1, <2>2 DEF OnTftpData
  <2>4. Keeps(m, x) /\ Listening(x) /\ Reached(x)
    <3>1. /\ x \in Modems /\ x.timers = m.timers /\ x.state = m.state
          /\ SameUpstream(m, x) /\ x.sid = m.sid /\ x.ucd = m.ucd
          /\ x.address = m.address
      BY <2>1 DEF GoodModem, Modems, SameUpstream
    <3>2. Keeps(m, x)
      BY <3>1, SameGood
    <3>3. QED
      BY <3>1, <3>2 DEF Listening, Reached
  <2>5. Keeps(x, whole) /\ Listening(whole) /\ Reached(whole)
    BY <1>1, <2>2, <2>4, EnqueueGood DEF Keeps
  <2>6. Keeps(whole, n) /\ Waits(n)
    BY <2>3, <2>5, RegisterGood, ReinitializeGood, OffWaits DEF Keeps, Quietly
  <2>7. Keeps(m, whole)
    BY <2>4, <2>5, KeepsTransitive
  <2>8. QED
    BY <2>6, <2>7, KeepsTransitive
<1>4. QED
  BY <1>2, <1>3

LEMMA OnRegRspGood ==
    ASSUME NEW m, GoodModem(m), Listening(m), Reached(m), NEW ok \in BOOLEAN,
           NEW n, n = OnRegRsp(m, ok)
    PROVE  Keeps(m, n) /\ (Waits(m) => Waits(n))
<1>1. /\ "T6" \in Timers \ {"lost-sync", "T4"} /\ "REG-ACK" \in FrameKinds
      /\ "rejected" \in States \ (Off \union Early) /\ "rejected" \notin InService
  BY DEF Timers, MacTimers, FrameKinds, States, Off, Early, InService
<1>2. CASE ok
  <2>1. PICK told : told = Disarm(m, "T6")
    OBVIOUS
  <2>2. n = Enqueue(told, "REG-ACK")
    BY <1>2, <2>1 DEF OnRegRsp
  <2>3. /\ Keeps(m, told) /\ Listening(told) /\ Reached(told)
        /\ told.state = m.state /\ told.timers = m.timers \ {"T6"}
    <3>1. told.timers = m.timers \ {"T6"}
      BY <1>1, <2>1, DisarmFields DEF GoodModem
    <3>2. QED
      BY <1>1, <2>1, <3>1, DisarmGood DEF Quietly, Keeps, Listening
  <2>4. Keeps(told, n) /\ Calm(told, n)
    BY <1>1, <2>2, <2>3, EnqueueGood DEF Keeps
  <2>5. Waits(m) => Waits(n)
    BY <2>3, <2>4 DEF Waits, Calm
  <2>6. QED
    BY <2>3, <2>4, <2>5, KeepsTransitive
<1>3. CASE ~ok
  <2>1. PICK told : told = [m EXCEPT !.state = "rejected"]
    OBVIOUS
  <2>2. n = Disarm(told, "T6")
    BY <1>3, <2>1 DEF OnRegRsp
  <2>3. Keeps(m, told) /\ told.state = "rejected"
    BY <1>1, <2>1, StateGood
  <2>4. Keeps(told, n) /\ n.state = "rejected"
    BY <1>1, <2>2, <2>3, DisarmGood DEF Quietly, Keeps
  <2>5. QED
    BY <2>3, <2>4, KeepsTransitive DEF Waits
<1>4. QED
  BY <1>2, <1>3

-----------------------------------------------------------------------------
(* Ranging.                                                                 *)
LEMMA HearRngRspGood ==
    ASSUME NEW m, GoodModem(m), Listening(m), m.state \notin Early,
           NEW sid \in Sids, NEW n, n = HearRngRsp(m, sid)
    PROVE  /\ Quietly(m, n) /\ n.state = m.state /\ n.sid # NoSid
           /\ Waits(m) /\ m.state # "ranging-initial" => Waits(n)
<1>1. PICK named : named = [m EXCEPT !.sid = IF @ = NoSid THEN sid ELSE @]
  OBVIOUS
<1>2. n = Disarm(named, "T3")
  BY <1>1 DEF HearRngRsp
<1>3. sid # NoSid
  BY ModemAssumption
<1>4. /\ named \in Modems /\ named.timers = m.timers /\ named.state = m.state
      /\ SameUpstream(m, named) /\ named.ucd = m.ucd
      /\ named.address = m.address /\ named.sid # NoSid
      /\ m.sid # NoSid => named.sid = m.sid
  BY <1>1, <1>3 DEF GoodModem, Modems, SameUpstream
<1>5. Quietly(m, named)
  <2>1. /\ Listening(named) /\ (Reached(m) => Reached(named))
        /\ Unserved(m) => Unserved(named)
    BY <1>4 DEF Listening, Reached, Unserved, Carries, SameUpstream
  <2>2. GoodModem(named)
    BY <1>4, <2>1 DEF GoodModem, SameUpstream
  <2>3. StayModem(m) => StayModem(named)
    BY <1>4 DEF StayModem, Carries, SameUpstream, Listening, Off
  <2>4. QED
    BY <1>4, <2>1, <2>2, <2>3 DEF Quietly, Keeps
<1>6. Quietly(named, n) /\ n.state = named.state /\ n.sid = named.sid
  <2>1. "T3" \in Timers \ {"lost-sync", "T4"}
    BY DEF Timers, MacTimers
  <2>2. n.sid = named.sid
    BY <1>2, <1>4, <2>1, DisarmFields DEF SameBasics
  <2>3. QED
    BY <1>2, <1>5, <2>1, <2>2, DisarmGood DEF Quietly, Keeps
<1>7. Waits(m) /\ m.state # "ranging-initial" => Waits(n)
  <2>1. Waits(m) => Waits(named)
    BY <1>4 DEF Waits
  <2>2. "T3" \in Timers
    BY DEF Timers, MacTimers
  <2>3. QED
    BY <1>2, <1>4, <2>1, <2>2, DisarmWaits
<1>8. QED
  BY <1>4, <1>5, <1>6, <1>7, KeepsTransitive DEF Quietly

LEMMA RangingCompleteGood ==
    ASSUME NEW m, GoodModem(m), Listening(m), m.sid # NoSid,
           NEW n, n = RangingComplete(m)
    PROVE  Keeps(m, n) /\ Listening(n) /\ Reached(n) /\ Waits(n)
<1>1. PICK ranged : ranged = Arm(m, "T4")
  OBVIOUS
<1>2. Keeps(m, ranged) /\ Listening(ranged) /\ Reached(ranged)
  <2>1. "T4" \in Timers
    BY DEF Timers, MacTimers
  <2>2. Keeps(m, ranged) /\ ranged.state = m.state
    BY <1>1, <2>1, ArmGood DEF Quietly
  <2>3. ranged.timers = m.timers \union {"T4"} /\ ranged.sid = m.sid
    BY <1>1, <2>1, ArmFields DEF SameBasics, GoodModem
  <2>4. QED
    BY <2>2, <2>3 DEF Listening, Reached
<1>3. CASE n = [ranged EXCEPT !.state = "operational"]
  <2>1. "operational" \in States \ (Off \union Early)
    BY DEF States, Off, Early
  <2>2. Keeps(ranged, n) /\ Listening(n) /\ n.state = "operational"
    BY <1>2, <1>3, <2>1, StateGood DEF Keeps
  <2>3. QED
    BY <1>2, <2>2, KeepsTransitive DEF Keeps, Waits
<1>4. CASE n = StartDhcp(ranged)
  BY <1>2, <1>4, StartDhcpGood, KeepsTransitive DEF Keeps
<1>5. QED
  BY <1>1, <1>3, <1>4 DEF RangingComplete

LEMMA OnRngRspGood ==
    ASSUME NEW m, GoodModem(m), Listening(m), m.state \notin Early,
           NEW status \in {"continue", "success"}, NEW sid \in Sids,
           NEW n, n = OnRngRsp(m, status, sid)
    PROVE  /\ Keeps(m, n) /\ Listening(n) /\ (Waits(m) => Waits(n))
           /\ Unserved(m) => Unserved(n) \/ (status = "success" /\ Ranging(m) /\ Reached(n))
           /\ status = "success" /\ Ranging(m) => Reached(n)
<1>1. PICK heard : heard = HearRngRsp(m, sid)
  OBVIOUS
<1>2. /\ Quietly(m, heard) /\ heard.state = m.state /\ heard.sid # NoSid /\ Listening(heard)
      /\ Waits(m) /\ ~Ranging(m) => Waits(heard)
  BY <1>1, HearRngRspGood DEF Listening, Ranging
<1>3. CASE status = "continue"
  <2>1. n = KeepRanging(heard)
    BY <1>1, <1>3 DEF OnRngRsp
  <2>2. CASE Ranging(heard)
    <3>1. n = [heard EXCEPT !.state = "ranging-station"]
      BY <2>1, <2>2 DEF KeepRanging
    <3>2. /\ "ranging-station" \in States \ (Off \union Early)
          /\ "ranging-station" \notin InService /\ heard.state \notin Early
      BY <2>2 DEF States, Off, Early, InService, Ranging
    <3>3. Quietly(heard, n) /\ Listening(n) /\ n.state = "ranging-station"
      BY <1>2, <3>1, <3>2, StateGood DEF Quietly, Keeps
    <3>4. QED
      BY <1>2, <1>3, <3>3, KeepsTransitive DEF Quietly, Waits
  <2>3. CASE ~Ranging(heard)
    <3>1. n = heard
      BY <1>2, <2>1, <2>3 DEF KeepRanging, Quietly, Keeps, GoodModem, Modems
    <3>2. QED
      BY <1>2, <1>3, <2>3, <3>1 DEF Quietly, Ranging
  <2>4. QED
    BY <2>2, <2>3
<1>4. CASE status = "success"
  <2>1. PICK level : level = [heard EXCEPT !.retries = 0]
    OBVIOUS
  <2>2. n = IF Ranging(m) THEN RangingComplete(level) ELSE level
    BY <1>1, <1>4, <2>1 DEF OnRngRsp
  <2>3. Quietly(heard, level) /\ level.sid # NoSid /\ Listening(level) /\ Calm(heard, level)
    <3>1. 0 \in 0 .. (MaxRetries - 1) /\ heard \in Modems
      BY <1>2, ModemAssumption DEF Quietly, Keeps, GoodModem
    <3>2. /\ level \in Modems /\ level.timers = heard.timers /\ level.state = heard.state
          /\ SameUpstream(heard, level) /\ level.sid = heard.sid /\ level.ucd = heard.ucd
          /\ level.address = heard.address
      BY <2>1, <3>1 DEF Modems, SameUpstream
    <3>3. Quietly(heard, level) /\ Calm(heard, level)
      BY <1>2, <3>2, SameGood DEF Quietly, Keeps
    <3>4. QED
      BY <1>2, <3>2, <3>3 DEF Listening
  <2>4. Quietly(m, level)
    BY <1>2, <2>3, KeepsTransitive DEF Quietly
  <2>5. CASE ~Ranging(m)
    BY <1>2, <2>2, <2>3, <2>4, <2>5, CalmTransitive DEF Quietly
  <2>6. CASE Ranging(m)
    <3>1. Keeps(level, n) /\ Listening(n) /\ Reached(n) /\ Waits(n)
      BY <2>2, <2>3, <2>6, RangingCompleteGood DEF Quietly, Keeps
    <3>2. QED
      BY <1>4, <2>4, <2>6, <3>1, KeepsTransitive DEF Quietly
  <2>7. QED
    BY <2>5, <2>6
<1>5. QED
  BY <1>3, <1>4

(* A UCC-REQ may be answered at any time, with a frame that names a channel.*)
LEMMA OnUccReqGood ==
    ASSUME NEW m, GoodModem(m), Listening(m), NEW ch \in Channels, NEW n, n = OnUccReq(m, ch)
    PROVE  /\ GoodModem(n) /\ Listening(n) /\ (Reached(m) => Reached(n))
           /\ Unserved(m) => Unserved(n)
           /\ Calm(m, n)
<1>1. PICK frame : frame = <<"UCC-RSP", IF m.ucd.ch = ch THEN NoChannel ELSE ch>>
  OBVIOUS
<1>2. frame \in Quiet /\ frame \in Frames
  BY <1>1 DEF Quiet, Frames, FrameKinds, Provisioning, Answered
<1>3. PICK q : q = Queued(m, frame)
  OBVIOUS
<1>4. n = q \/ n = [q EXCEPT !.uccTarget = ch]
  BY <1>1, <1>3 DEF OnUccReq, Enqueue
<1>5. /\ q \in Modems /\ q.timers = m.timers /\ q.state = m.state
      /\ SameBasics(m, q)
      /\ q.queue = Append(m.queue, frame) /\ q.bursts = m.bursts
      /\ q.outstanding = m.outstanding \/ (q.outstanding /\ m.sid # NoSid)
  <2>1. m \in Modems
    BY DEF GoodModem
  <2>2. frame \in Frames
    BY <1>2
  <2>3. /\ q \in Modems /\ q.timers = m.timers /\ q.state = m.state
        /\ SameBasics(m, q)
        /\ q.queue = Append(m.queue, frame) /\ q.requestSlot = m.requestSlot
        /\ q.grantPending = m.grantPending /\ q.bursts = m.bursts
        /\ q.outstanding = m.outstanding \/ (q.outstanding /\ m.sid # NoSid)
        /\ m.ucd # NoUcd /\ m.sid # NoSid => q.outstanding \/ q.grantPending
    BY <1>3, <2>1, <2>2, QueuedFields
  <2>4. QED
    BY <2>3
<1>6. /\ n \in Modems /\ n.timers = m.timers /\ n.state = m.state
      /\ n.sid = m.sid /\ n.address = m.address /\ n.ucd = m.ucd
      /\ n.queue = Append(m.queue, frame) /\ n.bursts = m.bursts
      /\ n.outstanding => m.sid # NoSid
  <2>1. q.outstanding => m.sid # NoSid
    BY <1>5 DEF GoodModem
  <2>2. CASE n = q
    BY <1>5, <2>1, <2>2 DEF SameBasics
  <2>3. CASE n = [q EXCEPT !.uccTarget = ch]
    BY <1>5, <2>1, <2>3 DEF SameBasics, Modems
  <2>4. QED
    BY <1>4, <2>2, <2>3
<1>7. Listening(n) /\ Reached(n) = Reached(m)
  BY <1>6 DEF Listening, Reached
<1>8. Unserved(m) => Unserved(n)
  <2>1. Unserved(m) => Append(m.queue, frame) \in Seq(Quiet)
    BY <1>2, SequencesOf DEF Unserved, Carries
  <2>2. QED
    BY <1>6, <2>1 DEF Unserved, Carries
<1>9. GoodModem(n) /\ Calm(m, n)
  BY <1>6, <1>7, <1>8 DEF GoodModem, Calm
<1>10. QED
  BY <1>7, <1>8, <1>9

-----------------------------------------------------------------------------
(* Timers and frames of hosts.                                              *)
LEMMA T3ExpiredGood ==
    ASSUME NEW m, GoodModem(m), "T3" \in m.timers, NEW n, n = T3Expired(m)
    PROVE  Quietly(m, n) /\ (Waits(m) => Waits(n))
<1>1. "T3" \in Timers \ {"lost-sync", "T4"}
  BY DEF Timers, MacTimers
<1>2. PICK missed : missed = Disarm(m, "T3")
  OBVIOUS
<1>3. Quietly(m, missed) /\ missed.state = m.state
  BY <1>1, <1>2, DisarmGood
<1>4. CASE n = missed /\ m.state \in InService
  <2>1. Waits(m) => Waits(n)
    BY <1>1, <1>2, <1>4, DisarmWaits DEF GoodModem, InService
  <2>2. QED
    BY <1>3, <1>4, <2>1
<1>5. CASE n = Reinitialize(m)
  BY <1>5, ReinitializeGood, OffWaits
<1>6. CASE m.state \notin InService /\ m.retries + 1 < MaxRetries
  <2>1. n = [missed EXCEPT !.retries = @ + 1, !.state = "ranging-wait"]
    <3>1. ~(m.retries + 1 >= MaxRetries)
      BY <1>6, ModemAssumption DEF GoodModem, Modems
    <3>2. QED
      BY <1>2, <1>6, <3>1 DEF T3Expired
  <2>2. missed.retries = m.retries /\ missed \in Modems
    BY <1>1, <1>2, DisarmFields DEF SameBasics, GoodModem
  <2>3. m.retries + 1 \in 0 .. (MaxRetries - 1)
    BY <1>6, ModemAssumption DEF GoodModem, Modems
  <2>4. PICK counted : counted = [missed EXCEPT !.retries = m.retries + 1]
    OBVIOUS
  <2>5. n = [counted EXCEPT !.state = "ranging-wait"]
    BY <2>1, <2>2, <2>4 DEF Modems
  <2>6. /\ counted \in Modems /\ counted.timers = missed.timers
        /\ counted.state = missed.state /\ SameUpstream(missed, counted)
        /\ counted.sid = missed.sid /\ counted.ucd = missed.ucd
        /\ counted.uccTarget = missed.uccTarget /\ counted.address = missed.address
    BY <2>2, <2>3, <2>4 DEF Modems, SameUpstream
  <2>7. Quietly(missed, counted)
    BY <1>3, <2>6, SameGood DEF Quietly, Keeps
  <2>8. Quietly(m, counted) /\ counted.state = m.state
    BY <1>3, <2>6, <2>7, KeepsTransitive DEF Quietly
  <2>9. m.state \notin Off \union Early
    BY DEF GoodModem
  <2>10. /\ "ranging-wait" \in States \ (Off \union Early)
         /\ "ranging-wait" \notin InService
    BY DEF States, Off, Early, InService
  <2>11. Quietly(counted, n) /\ n.state = "ranging-wait"
    BY <2>5, <2>8, <2>9, <2>10, StateGood DEF Quietly, Keeps, Listening, Off, Early
  <2>12. QED
    BY <2>8, <2>11, KeepsTransitive DEF Quietly, Waits
<1>7. m.retries \in Int /\ MaxRetries \in Int
  BY ModemAssumption DEF GoodModem, Modems
<1>8. QED
  BY <1>2, <1>4, <1>5, <1>6, <1>7 DEF T3Expired

LEMMA ExpiredGood ==
    ASSUME NEW m, GoodModem(m), NEW timer \in m.timers, timer # "ds-scan",
           NEW n, n = Expired(m, timer)
    PROVE  Quietly(m, n) /\ (Waits(m) => Waits(n))
<1>1. timer \in Timers /\ {"tod", "tftp", "lost-T6"} \subseteq Timers \ {"lost-sync", "T4"}
  BY DEF GoodModem, Modems, Timers, MacTimers
<1>2. CASE timer = "T3"
  BY <1>2, T3ExpiredGood DEF Expired
<1>3. CASE timer = "tod"
  <2>1. PICK fired : fired = Disarm(m, "tod")
    OBVIOUS
  <2>2. Quietly(m, fired) /\ fired.state = m.state
    BY <1>1, <2>1, DisarmGood
  <2>3. CASE m.state # "time-of-day" /\ n = fired
    BY <1>1, <2>1, <2>2, <2>3, DisarmWaits DEF GoodModem
  <2>4. CASE m.state = "time-of-day" /\ n = StartTftp(fired)
    <3>1. ~Unserved(m) /\ Listening(fired) /\ Reached(fired)
      BY <2>2, <2>4 DEF Unserved, Listening, InService, GoodModem, Quietly, Keeps
    <3>2. Keeps(fired, n) /\ (Waits(fired) \/ BootFile => Waits(n))
      BY <2>2, <2>4, <3>1, StartTftpGood DEF Quietly, Keeps
    <3>3. ~BootFile /\ Waits(m) => Waits(fired)
      BY <1>1, <2>1, DisarmWaits DEF GoodModem
    <3>4. QED
      BY <2>2, <3>1, <3>2, <3>3, KeepsTransitive DEF Quietly
  <2>5. QED
    BY <1>3, <2>1, <2>2, <2>3, <2>4 DEF Expired, TodTimeout, MacTimers
<1>4. CASE timer = "tftp"
  <2>1. PICK fired : fired = Disarm(m, "tftp")
    OBVIOUS
  <2>2. Quietly(m, fired) /\ fired.state = m.state
    BY <1>1, <2>1, DisarmGood
  <2>3. CASE m.state # "tftp-config" /\ n = fired
    BY <1>1, <2>1, <2>2, <2>3, DisarmWaits DEF GoodModem
  <2>4. CASE n = Reinitialize(fired)
    BY <2>2, <2>4, ReinitializeGood, OffWaits, KeepsTransitive DEF Quietly, Keeps
  <2>5. QED
    BY <1>4, <2>1, <2>2, <2>3, <2>4 DEF Expired, TftpTimeout, MacTimers
<1>5. CASE timer = "lost-T6"
  <2>1. PICK fired : fired = Disarm(m, "lost-T6")
    OBVIOUS
  <2>2. Quietly(m, fired)
    BY <1>1, <2>1, DisarmGood
  <2>3. n = Reinitialize(fired)
    BY <1>5, <2>1 DEF Expired, MacTimers
  <2>4. QED
    BY <2>2, <2>3, ReinitializeGood, OffWaits, KeepsTransitive DEF Quietly, Keeps
<1>6. CASE timer \in MacTimers \ {"T3"}
  <2>1. n = Reinitialize(m)
    BY <1>6 DEF Expired, MacTimers
  <2>2. QED
    BY <2>1, ReinitializeGood, OffWaits
<1>7. QED
  BY <1>1, <1>2, <1>3, <1>4, <1>5, <1>6 DEF Timers

LEMMA HostFrameGood ==
    ASSUME NEW m, GoodModem(m), Listening(m), NEW n,
           n = m \/ (n = FromLan(m)) \/ (n = AnswerHost(m))
    PROVE  Quietly(m, n) /\ Listening(n) /\ (Waits(m) => Waits(n))
<1>1. {"CPE", "STACK"} \subseteq FrameKinds \ Provisioning
  BY DEF FrameKinds, Provisioning, Answered
<1>2. CASE n = m
  BY <1>2 DEF Quietly, Keeps
<1>3. CASE n # m
  <2>1. ~Unserved(m) /\ (n = Enqueue(m, "CPE") \/ n = Enqueue(m, "STACK"))
    BY <1>3 DEF FromLan, AnswerHost, Unserved, InService
  <2>2. Reached(m)
    BY <2>1 DEF GoodModem
  <2>3. QED
    BY <1>1, <2>1, <2>2, EnqueueGood, CalmTransitive
<1>4. QED
  BY <1>2, <1>3

-----------------------------------------------------------------------------
(* The modem and what is on its way to it.  An answer that could take it    *)
(* further than ranging is owed to a modem that listens only once it has    *)
(* been polled under its SID.                                               *)
RangingAnswers == {"CONTINUE", "RNG-RSP"}

ModemInv ==
    /\ GoodModem(modem)
    /\ owed \subseteq Answers
    /\ {pollsOn, grantsOn} \subseteq Channels \union {NoChannel}
    /\ modem.state \in Early => owed = {}
    /\ Listening(modem) /\ ~Reached(modem) => owed \subseteq RangingAnswers

LEMMA InitModem == Init => ModemInv /\ StayModem(modem)
<1> SUFFICES ASSUME Init PROVE ModemInv /\ StayModem(modem)
  OBVIOUS
<1>1. /\ modem.state = "offline" /\ modem.timers = {} /\ modem.queue = <<>>
      /\ modem.bursts = <<>> /\ modem.outstanding = FALSE /\ modem.sid = NoSid
      /\ modem.address = FALSE /\ modem.ucd = NoUcd /\ modem.uccTarget = NoChannel
  BY DEF Init, PoweredOff
<1>2. modem \in Modems
  <2>1. "offline" \in States /\ 0 \in 0 .. (MaxRetries - 1)
    BY ModemAssumption DEF States
  <2>2. <<>> \in Seq(Frames) /\ <<>> \in Seq(Bursts)
    BY EmptySeq
  <2>3. QED
    BY <2>1, <2>2 DEF Init, PoweredOff, Modems
<1>3. GoodModem(modem) /\ StayModem(modem)
  BY <1>1, <1>2, EmptySeq DEF GoodModem, StayModem, Carries, Listening, Off, Early
<1>4. QED
  BY <1>1, <1>3 DEF ModemInv, Init, Listening, Early, Answers

LEMMA ChannelOf == ASSUME NEW m \in Modems PROVE m.ucd.ch \in Channels \union {NoChannel}
<1>1. m.ucd \in Ucds \union {NoUcd}
  BY DEF Modems
<1>2. QED
  BY <1>1 DEF Ucds, NoUcd

Preserved ==
    /\ ModemInv'
    /\ UccTargets = {} /\ StayModem(modem) => StayModem(modem')
    /\ Listening(modem') => Lock \/ (Listening(modem) /\ (Reached(modem) => Reached(modem')))

(* What a handler keeps, a step that runs it keeps.                         *)
LEMMA KeepsPreserved ==
    ASSUME ModemInv, NEW n, Becomes(n), Keeps(modem, n), owed' \subseteq owed,
           {pollsOn', grantsOn'} \subseteq Channels \union {NoChannel}
    PROVE  Preserved
<1>1. modem' = n
  BY DEF Becomes
<1>2. GoodModem(modem') /\ (StayModem(modem) => StayModem(modem'))
  BY <1>1 DEF Keeps
<1>3. owed' \subseteq Answers
  BY DEF ModemInv
<1>4. modem'.state \in Early => owed' = {}
  BY <1>1 DEF Keeps, ModemInv, Early, Listening
<1>5. Listening(modem') /\ ~Reached(modem') => owed' \subseteq RangingAnswers
  BY <1>1 DEF Keeps, ModemInv
<1>6. Listening(modem') => Listening(modem) /\ (Reached(modem) => Reached(modem'))
  BY <1>1 DEF Keeps
<1>7. QED
  BY <1>2, <1>3, <1>4, <1>5, <1>6 DEF ModemInv, Preserved

(* What the CMTS hears of a burst: it owes an answer to provisioning only   *)
(* to a modem that has been polled, and ranged.                             *)
LEMMA HeardOwed ==
    ASSUME ModemInv, modem.bursts # <<>>, modem.ucd # NoUcd,
           Heard(Head(modem.bursts), modem.ucd.ch)
    PROVE  /\ owed' \subseteq Answers
           /\ {pollsOn', grantsOn'} \subseteq Channels \union {NoChannel}
           /\ Unserved(modem) => owed' \subseteq owed \union RangingAnswers
           /\ Unserved(modem) => pollsOn' = modem.ucd.ch \/ (pollsOn' = pollsOn /\ owed' = owed)
<1>1. PICK burst : burst = Head(modem.bursts)
  OBVIOUS
<1>2. burst \in BurstsOf(Frames) /\ (Unserved(modem) => burst \in BurstsOf(Quiet))
  BY <1>1, SequencesOf DEF ModemInv, GoodModem, Unserved, Carries
<1>3. modem.ucd.ch \in Channels \union {NoChannel} /\ owed \subseteq Answers
  BY ChannelOf DEF ModemInv, GoodModem
<1>4. {pollsOn, grantsOn} \subseteq Channels \union {NoChannel}
  BY DEF ModemInv
<1>5. CASE burst.kind = "RNG-REQ"
  BY <1>1, <1>3, <1>4, <1>5 DEF Heard, Answers, RangingAnswers
<1>6. CASE burst.kind = "REQ"
  BY <1>1, <1>3, <1>4, <1>6 DEF Heard
<1>7. CASE burst.kind = "DATA"
  <2>1. /\ owed' = owed \union {AnswerTo(burst.frames[i][1]) :
                i \in {j \in DOMAIN burst.frames : burst.frames[j][1] \in Answered}}
        /\ UNCHANGED <<pollsOn, grantsOn>>
    BY <1>1, <1>7 DEF Heard
  <2>2. \A kind \in Answered : AnswerTo(kind) \in Answers
    BY DEF Answered, AnswerTo, Answers
  <2>3. Unserved(modem) => \A j \in DOMAIN burst.frames : burst.frames[j][1] \notin Answered
    <3> SUFFICES ASSUME Unserved(modem), NEW j \in DOMAIN burst.frames
                 PROVE  burst.frames[j][1] \notin Answered
      OBVIOUS
    <3>1. burst.frames \in Seq(Quiet)
      BY <1>2 DEF BurstsOf
    <3>2. burst.frames[j] \in Quiet
      BY <3>1
    <3>3. QED
      BY <3>2 DEF Quiet, Provisioning
  <2>4. owed' \subseteq Answers
    BY <1>3, <2>1, <2>2
  <2>5. Unserved(modem) => owed' = owed
    BY <2>1, <2>3
  <2>6. QED
    BY <1>4, <2>1, <2>4, <2>5
<1>8. burst.kind \in {"RNG-REQ", "REQ", "DATA"}
  BY <1>2 DEF BurstsOf
<1>9. QED
  BY <1>5, <1>6, <1>7, <1>8

LEMMA SendBurstPreserved == ASSUME ModemInv, NEW heard, SendBurst(heard) PROVE Preserved
<1>1. PICK n : n = Transmit(modem)
  OBVIOUS
<1>2. /\ modem.bursts # <<>> /\ Becomes(n) /\ modem' = n
      /\ Quietly(modem, n) /\ Listening(n) = Listening(modem)
  BY <1>1, TransmitGood DEF SendBurst, ModemInv, Becomes
<1>3. CASE ~(heard /\ modem.ucd # NoUcd)
  <2>1. UNCHANGED <<owed, pollsOn, grantsOn>>
    BY <1>3 DEF SendBurst
  <2>2. QED
    BY <1>2, <2>1, KeepsPreserved DEF ModemInv, Quietly
<1>4. CASE heard /\ modem.ucd # NoUcd
  <2>1. Heard(Head(modem.bursts), modem.ucd.ch)
    BY <1>4 DEF SendBurst
  <2>2. /\ owed' \subseteq Answers
        /\ {pollsOn', grantsOn'} \subseteq Channels \union {NoChannel}
        /\ Unserved(modem) => owed' \subseteq owed \union RangingAnswers
    BY <1>2, <1>4, <2>1, HeardOwed
  <2>3. modem.state \notin Early /\ Listening(modem) /\ n.state \notin Early
    BY <1>2, <1>4 DEF ModemInv, GoodModem, Quietly, Keeps
  <2>4. Listening(n) /\ ~Reached(n) => owed' \subseteq RangingAnswers
    <3>1. Listening(n) /\ ~Reached(n) => ~Reached(modem) /\ Listening(modem)
      BY <1>2 DEF Quietly, Keeps
    <3>2. Listening(modem) /\ ~Reached(modem) => Unserved(modem) /\ owed \subseteq RangingAnswers
      BY DEF ModemInv, GoodModem
    <3>3. QED
      BY <2>2, <3>1, <3>2
  <2>5. GoodModem(n) /\ (StayModem(modem) => StayModem(n))
    BY <1>2 DEF Quietly, Keeps
  <2>6. Listening(n) => Listening(modem) /\ (Reached(modem) => Reached(n))
    BY <1>2 DEF Quietly, Keeps
  <2>7. QED
    BY <1>2, <2>2, <2>3, <2>4, <2>5, <2>6 DEF ModemInv, Preserved
<1>5. QED
  BY <1>3, <1>4

LEMMA ReceiveRngRspPreserved ==
    ASSUME ModemInv, NEW answer, NEW status \in {"continue", "success"}, NEW sid \in Sids,
           ReceiveRngRsp(answer, status, sid)
    PROVE  Preserved
<1>1. PICK n : n = OnRngRsp(modem, status, sid)
  OBVIOUS
<1>2. /\ Becomes(n) /\ Listening(modem) /\ owed # {} /\ owed' \subseteq owed
      /\ UNCHANGED <<pollsOn, grantsOn>>
  BY <1>1 DEF ReceiveRngRsp
<1>3. GoodModem(modem) /\ modem.state \notin Early
  BY <1>2 DEF ModemInv
<1>4. Keeps(modem, n)
  BY <1>1, <1>2, <1>3, OnRngRspGood
<1>5. QED
  BY <1>2, <1>4, KeepsPreserved DEF ModemInv

LEMMA ReceivePreserved ==
    ASSUME ModemInv, NEW answer \in Answers \ RangingAnswers, NEW n, Receive(answer, n),
           GoodModem(modem) /\ Listening(modem) /\ Reached(modem) => Keeps(modem, n)
    PROVE  Preserved
<1>1. /\ Listening(modem) /\ ~(owed \subseteq RangingAnswers) /\ Becomes(n)
      /\ owed' \subseteq owed /\ UNCHANGED <<pollsOn, grantsOn>>
  BY DEF Receive
<1>2. Keeps(modem, n)
  BY <1>1 DEF ModemInv
<1>3. QED
  BY <1>1, <1>2, KeepsPreserved DEF ModemInv

LEMMA LockPreserved == ASSUME ModemInv, Lock PROVE Preserved
<1>1. PICK n : n = LockDownstream(modem)
  OBVIOUS
<1>2. /\ modem.bursts = <<>> /\ Becomes(n) /\ owed' = {} /\ UNCHANGED <<pollsOn, grantsOn>>
  <2>1. Expired(modem, "ds-scan") = LockDownstream(modem)
    BY DEF Expired, MacTimers
  <2>2. QED
    BY <1>1, <2>1 DEF Lock
<1>3. GoodModem(n) /\ (StayModem(modem) => StayModem(n))
  BY <1>1, <1>2, LockDownstreamGood DEF ModemInv
<1>4. QED
  BY <1>2, <1>3 DEF Becomes, ModemInv, Preserved

LEMMA ReceiveUccReqPreserved ==
    ASSUME ModemInv, NEW ch \in UccTargets, ReceiveUccReq(ch) PROVE Preserved
<1>1. PICK n : n = OnUccReq(modem, ch)
  OBVIOUS
<1>2. /\ Listening(modem) /\ modem' = n
      /\ UNCHANGED <<owed, pollsOn, grantsOn>>
  BY <1>1 DEF ReceiveUccReq, Becomes
<1>3. ch \in Channels /\ UccTargets # {}
  BY NetworkAssumption
<1>4. GoodModem(n) /\ Listening(n) /\ (Reached(modem) => Reached(n))
  BY <1>1, <1>2, <1>3, OnUccReqGood DEF ModemInv
<1>5. n.state = modem.state
  BY <1>1, <1>2, <1>3, OnUccReqGood DEF ModemInv, Calm
<1>6. ModemInv'
  BY <1>2, <1>4, <1>5 DEF ModemInv
<1>7. QED
  BY <1>2, <1>3, <1>4, <1>6 DEF Preserved

LEMMA ExpirePreserved ==
    ASSUME ModemInv, NEW timer \in modem.timers, NEW another \in BOOLEAN, Expire(timer, another)
    PROVE  Preserved
<1>1. timer # "ds-scan" /\ (another => timer \in {"tod", "tftp", "lost-T6"})
  BY DEF Expire
<1>2. PICK n : n = Expired(modem, timer)
  OBVIOUS
<1>3. PICK q : q = IF another THEN Arm(n, timer) ELSE n
  OBVIOUS
<1>4. Becomes(q) /\ UNCHANGED <<owed, pollsOn, grantsOn>>
  BY <1>2, <1>3 DEF Expire
<1>5. Quietly(modem, n)
  BY <1>1, <1>2, ExpiredGood DEF ModemInv, Quietly
<1>6. Quietly(modem, q)
  <2>1. CASE q = n
    BY <1>5, <2>1
  <2>2. CASE another /\ q = Arm(n, timer)
    <3>1. timer \in Timers /\ timer # "T3"
      BY <1>1, <2>2 DEF Timers
    <3>2. Quietly(n, q)
      BY <1>5, <2>2, <3>1, ArmGood DEF Quietly, Keeps
    <3>3. QED
      BY <1>5, <3>2, KeepsTransitive DEF Quietly
  <2>3. QED
    BY <1>3, <2>1, <2>2
<1>7. QED
  BY <1>4, <1>6, KeepsPreserved DEF ModemInv, Quietly

(* A step that leaves the modem alone, and what is owed to it.              *)
LEMMA StutterPreserved ==
    ASSUME ModemInv, UNCHANGED <<modem, pollsOn>>, owed' \subseteq owed,
           grantsOn' \in {grantsOn, NoChannel}
    PROVE  Preserved
BY DEF Preserved, ModemInv

LEMMA NextPreserved == ASSUME ModemInv, [Next]_vars PROVE Preserved
<1> USE DEF ModemInv
<1>1. CASE UNCHANGED vars
  BY <1>1, StutterPreserved DEF vars
<1>2. CASE PowerUp
  <2>1. Becomes(PowerOn(modem)) /\ UNCHANGED <<owed, pollsOn, grantsOn>>
    BY <1>2 DEF PowerUp
  <2>2. Quietly(modem, PowerOn(modem))
    BY <1>2, PowerOnGood DEF PowerUp
  <2>3. QED
    BY <2>1, <2>2, KeepsPreserved DEF Quietly
<1>3. CASE Lock
  BY <1>3, LockPreserved
<1>4. CASE ReceiveSync
  <2>1. Quietly(modem, OnSync(modem))
    BY <1>4, OnSyncGood DEF ReceiveSync
  <2>2. QED
    BY <1>4, <2>1, KeepsPreserved DEF ReceiveSync, Quietly
<1>5. ASSUME NEW u \in Ucds, ReceiveUcd(u) PROVE Preserved
  <2>1. Quietly(modem, OnUcd(modem, u))
    BY <1>5, OnUcdGood DEF ReceiveUcd
  <2>2. QED
    BY <1>5, <2>1, KeepsPreserved DEF ReceiveUcd, Quietly
<1>6. ASSUME NEW map \in Maps, ReceiveMap(map) PROVE Preserved
  <2>1. PICK n \in OnMap(modem, map) : Becomes(n)
    BY <1>6 DEF ReceiveMap
  <2>2. Quietly(modem, n)
    BY <1>6, OnMapGood DEF ReceiveMap
  <2>3. owed' \subseteq owed /\ {pollsOn', grantsOn'} \subseteq Channels \union {NoChannel}
    <3>1. grantsOn' \in {grantsOn, NoChannel}
      BY <1>6 DEF ReceiveMap
    <3>2. QED
      BY <1>6, <3>1 DEF ReceiveMap
  <2>4. QED
    BY <2>1, <2>2, <2>3, KeepsPreserved DEF Quietly
<1>7. CASE MissGrant
  BY <1>7, StutterPreserved DEF MissGrant
<1>8. ASSUME NEW heard \in BOOLEAN, SendBurst(heard) PROVE Preserved
  BY <1>8, SendBurstPreserved
<1>9. ASSUME NEW answer \in owed, NEW status \in {"continue", "success"}, NEW sid \in Sids,
             ReceiveRngRsp(answer, status, sid)
      PROVE  Preserved
  BY <1>9, ReceiveRngRspPreserved
<1>10. CASE ReceiveOffer
  <2>1. "OFFER" \in Answers \ RangingAnswers /\ "REQUEST" \in FrameKinds
    BY DEF Answers, RangingAnswers, FrameKinds
  <2>2. GoodModem(modem) /\ Listening(modem) /\ Reached(modem) => Keeps(modem, OnOffer(modem))
    BY <2>1, EnqueueGood DEF OnOffer
  <2>3. QED
    BY <1>10, <2>1, <2>2, ReceivePreserved DEF ReceiveOffer
<1>11. CASE ReceiveDhcpAck
  <2>1. "DHCPACK" \in Answers \ RangingAnswers
    BY DEF Answers, RangingAnswers
  <2>2. GoodModem(modem) /\ Listening(modem) /\ Reached(modem) => Keeps(modem, OnDhcpAck(modem))
    BY OnDhcpAckGood
  <2>3. QED
    BY <1>11, <2>1, <2>2, ReceivePreserved DEF ReceiveDhcpAck
<1>12. CASE ReceiveTod
  <2>1. "TOD" \in Answers \ RangingAnswers
    BY DEF Answers, RangingAnswers
  <2>2. GoodModem(modem) /\ Listening(modem) /\ Reached(modem) => Keeps(modem, OnTod(modem))
    BY OnTodGood
  <2>3. QED
    BY <1>12, <2>1, <2>2, ReceivePreserved DEF ReceiveTod
<1>13. ASSUME NEW block, NEW micOk \in BOOLEAN, ReceiveTftpData(block, micOk) PROVE Preserved
  <2>1. "DATA" \in Answers \ RangingAnswers
    BY DEF Answers, RangingAnswers
  <2>2. GoodModem(modem) /\ Listening(modem) /\ Reached(modem)
            => Keeps(modem, OnTftpData(modem, block, micOk))
    BY OnTftpDataGood
  <2>3. QED
    BY <1>13, <2>1, <2>2, ReceivePreserved DEF ReceiveTftpData
<1>14. ASSUME NEW ok \in BOOLEAN, ReceiveRegRsp(ok) PROVE Preserved
  <2>1. "REG-RSP" \in Answers \ RangingAnswers
    BY DEF Answers, RangingAnswers
  <2>2. GoodModem(modem) /\ Listening(modem) /\ Reached(modem)
            => Keeps(modem, OnRegRsp(modem, ok))
    BY OnRegRspGood
  <2>3. QED
    BY <1>14, <2>1, <2>2, ReceivePreserved DEF ReceiveRegRsp
<1>15. ASSUME NEW answer \in owed, LoseAnswer(answer) PROVE Preserved
  BY <1>15, StutterPreserved DEF LoseAnswer
<1>16. ASSUME NEW ch \in UccTargets, ReceiveUccReq(ch) PROVE Preserved
  BY <1>16, ReceiveUccReqPreserved
<1>17. CASE BridgeFromLan
  <2>1. Listening(modem) /\ Becomes(FromLan(modem)) /\ UNCHANGED <<owed, pollsOn, grantsOn>>
    BY <1>17 DEF BridgeFromLan, Listening
  <2>2. Quietly(modem, FromLan(modem))
    BY <2>1, HostFrameGood
  <2>3. QED
    BY <2>1, <2>2, KeepsPreserved DEF Quietly
<1>18. CASE AnswerToHost
  <2>1. Listening(modem) /\ Becomes(AnswerHost(modem)) /\ UNCHANGED <<owed, pollsOn, grantsOn>>
    BY <1>18 DEF AnswerToHost
  <2>2. Quietly(modem, AnswerHost(modem))
    BY <2>1, HostFrameGood
  <2>3. QED
    BY <2>1, <2>2, KeepsPreserved DEF Quietly
<1>19. CASE ClearCableModem
  <2>1. Quietly(modem, Reinitialize(modem))
    BY ReinitializeGood
  <2>2. QED
    BY <1>19, <2>1, KeepsPreserved DEF ClearCableModem, Quietly
<1>20. ASSUME NEW timer \in modem.timers, NEW another \in BOOLEAN, Expire(timer, another)
       PROVE  Preserved
  BY <1>20, ExpirePreserved
<1>21. QED
  BY <1>1, <1>2, <1>3, <1>4, <1>5, <1>6, <1>7, <1>8, <1>9, <1>10, <1>11, <1>12, <1>13,
     <1>14, <1>15, <1>16, <1>17, <1>18, <1>19, <1>20 DEF Next

-----------------------------------------------------------------------------
(* Whatever the constants, the modem's fields keep their types, and what it *)
(* holds and is owed is as ModemInv says.                                   *)
THEOREM ModemInvCorrect == Spec => []ModemInv
<1>1. Init => ModemInv
  BY InitModem
<1>2. ModemInv /\ [Next]_vars => ModemInv'
  BY NextPreserved DEF Preserved
<1>3. QED
  BY <1>1, <1>2, PTL DEF Spec

(* A modem that listens is watched by lost-sync, and one in service by T4   *)
(* as well: by any number of channels, with any losses, late MAPs and moves.*)
THEOREM WatchedCorrect == Spec => []Watched
<1>1. ModemInv => Watched
  BY DEF ModemInv, GoodModem, Watched, Reached, Unserved, Listening, InService
<1>2. QED
  BY <1>1, ModemInvCorrect, PTL

(* A modem that nobody moves asks for bandwidth, or was told to wait for it,*)
(* as long as it has frames to send: whatever requests, grants and bursts   *)
(* are lost, and whatever MAPs come late.                                   *)
THEOREM QueueAsksForBandwidthCorrect ==
    ASSUME UccTargets = {}
    PROVE  Spec => []QueueAsksForBandwidth
<1>1. Init => ModemInv /\ StayModem(modem)
  BY InitModem
<1>2. (ModemInv /\ StayModem(modem)) /\ [Next]_vars => (ModemInv /\ StayModem(modem))'
  BY NextPreserved DEF Preserved
<1>3. ModemInv /\ StayModem(modem) => QueueAsksForBandwidth
  BY DEF StayModem, QueueAsksForBandwidth
<1>4. QED
  BY <1>1, <1>2, <1>3, PTL DEF Spec

-----------------------------------------------------------------------------
(* No step stops the timer of a wait that goes on.                          *)
LEMMA WaitsPreserved ==
    ASSUME ModemInv, Waits(modem), [Next]_vars
    PROVE  Waits(modem')
<1> USE DEF ModemInv
<1>1. CASE UNCHANGED modem
  BY <1>1
<1>2. CASE PowerUp
  <2>1. PICK n : n = PowerOn(modem)
    OBVIOUS
  <2>2. modem' = n /\ modem.state = "offline"
    BY <1>2, <2>1 DEF PowerUp, Becomes
  <2>3. QED
    BY <2>1, <2>2, PowerOnGood, OffWaits
<1>3. CASE Lock
  <2>1. PICK n : n = LockDownstream(modem)
    OBVIOUS
  <2>2. modem' = n /\ modem.bursts = <<>>
    BY <1>3, <2>1 DEF Lock, Becomes, Expired, MacTimers
  <2>3. QED
    BY <2>1, <2>2, LockDownstreamGood
<1>4. CASE ReceiveSync
  BY <1>4, OnSyncGood DEF ReceiveSync, Becomes
<1>5. ASSUME NEW u \in Ucds, ReceiveUcd(u) PROVE Waits(modem')
  BY <1>5, OnUcdGood DEF ReceiveUcd, Becomes
<1>6. ASSUME NEW map \in Maps, ReceiveMap(map) PROVE Waits(modem')
  <2>1. PICK n \in OnMap(modem, map) : modem' = n
    BY <1>6 DEF ReceiveMap, Becomes
  <2>2. Listening(modem)
    BY <1>6 DEF ReceiveMap
  <2>3. QED
    BY <2>1, <2>2, OnMapGood
<1>7. ASSUME NEW heard \in BOOLEAN, SendBurst(heard) PROVE Waits(modem')
  BY <1>7, TransmitGood DEF SendBurst, Becomes
<1>8. ASSUME NEW answer \in owed, NEW status \in {"continue", "success"}, NEW sid \in Sids,
             ReceiveRngRsp(answer, status, sid)
      PROVE  Waits(modem')
  <2>1. PICK n : n = OnRngRsp(modem, status, sid)
    OBVIOUS
  <2>2. modem' = n /\ Listening(modem) /\ modem.state \notin Early
    BY <1>8, <2>1 DEF ReceiveRngRsp, Becomes
  <2>3. QED
    BY <2>1, <2>2, OnRngRspGood
<1>9. ASSUME NEW answer \in Answers \ RangingAnswers, NEW n, Receive(answer, n)
      PROVE  modem' = n /\ Listening(modem) /\ Reached(modem)
  BY <1>9 DEF Receive, Becomes
<1>10. CASE ReceiveOffer
  <2>1. PICK n : n = OnOffer(modem)
    OBVIOUS
  <2>2. "OFFER" \in Answers \ RangingAnswers /\ "REQUEST" \in FrameKinds
    BY DEF Answers, RangingAnswers, FrameKinds
  <2>3. modem' = n /\ Listening(modem) /\ Reached(modem)
    BY <1>9, <1>10, <2>1, <2>2 DEF ReceiveOffer
  <2>4. Calm(modem, n)
    BY <2>1, <2>2, <2>3, EnqueueGood DEF OnOffer
  <2>5. QED
    BY <2>3, <2>4, CalmTransitive
<1>11. CASE ReceiveDhcpAck
  <2>1. PICK n : n = OnDhcpAck(modem)
    OBVIOUS
  <2>2. "DHCPACK" \in Answers \ RangingAnswers
    BY DEF Answers, RangingAnswers
  <2>3. modem' = n /\ Listening(modem) /\ Reached(modem)
    BY <1>9, <1>11, <2>1, <2>2 DEF ReceiveDhcpAck
  <2>4. QED
    BY <2>1, <2>3, OnDhcpAckGood
<1>12. CASE ReceiveTod
  <2>1. PICK n : n = OnTod(modem)
    OBVIOUS
  <2>2. "TOD" \in Answers \ RangingAnswers
    BY DEF Answers, RangingAnswers
  <2>3. modem' = n /\ Listening(modem) /\ Reached(modem)
    BY <1>9, <1>12, <2>1, <2>2 DEF ReceiveTod
  <2>4. QED
    BY <2>1, <2>3, OnTodGood
<1>13. ASSUME NEW block, NEW micOk \in BOOLEAN, ReceiveTftpData(block, micOk)
       PROVE  Waits(modem')
  <2>1. PICK n : n = OnTftpData(modem, block, micOk)
    OBVIOUS
  <2>2. "DATA" \in Answers \ RangingAnswers
    BY DEF Answers, RangingAnswers
  <2>3. modem' = n /\ Listening(modem) /\ Reached(modem)
    BY <1>9, <1>13, <2>1, <2>2 DEF ReceiveTftpData
  <2>4. QED
    BY <2>1, <2>3, OnTftpDataGood
<1>14. ASSUME NEW ok \in BOOLEAN, ReceiveRegRsp(ok) PROVE Waits(modem')
  <2>1. PICK n : n = OnRegRsp(modem, ok)
    OBVIOUS
  <2>2. "REG-RSP" \in Answers \ RangingAnswers
    BY DEF Answers, RangingAnswers
  <2>3. modem' = n /\ Listening(modem) /\ Reached(modem)
    BY <1>9, <1>14, <2>1, <2>2 DEF ReceiveRegRsp
  <2>4. QED
    BY <2>1, <2>3, OnRegRspGood
<1>15. CASE BridgeFromLan
  <2>1. Listening(modem) /\ modem' = FromLan(modem)
    BY <1>15 DEF BridgeFromLan, Listening, Becomes
  <2>2. QED
    BY <2>1, HostFrameGood
<1>16. CASE AnswerToHost
  <2>1. Listening(modem) /\ modem' = AnswerHost(modem)
    BY <1>16 DEF AnswerToHost, Becomes
  <2>2. QED
    BY <2>1, HostFrameGood
<1>17. CASE ClearCableModem
  BY <1>17, ReinitializeGood, OffWaits DEF ClearCableModem, Becomes
<1>18. ASSUME NEW timer \in modem.timers, NEW another \in BOOLEAN, Expire(timer, another)
       PROVE  Waits(modem')
  <2>1. PICK n : n = Expired(modem, timer)
    OBVIOUS
  <2>2. /\ timer # "ds-scan" /\ (another => timer \in {"tod", "tftp", "lost-T6"})
        /\ modem' = IF another THEN Arm(n, timer) ELSE n
    BY <1>18, <2>1 DEF Expire, Becomes
  <2>3. Waits(n) /\ GoodModem(n)
    BY <2>1, <2>2, ExpiredGood DEF Quietly, Keeps
  <2>4. CASE ~another
    BY <2>2, <2>3, <2>4
  <2>5. CASE another
    <3>1. timer \in Timers /\ timer # "T3"
      BY <2>2, <2>5 DEF Timers
    <3>2. Calm(n, Arm(n, timer))
      BY <2>3, <3>1, ArmGood
    <3>3. QED
      BY <2>2, <2>3, <2>5, <3>2, CalmTransitive
  <2>6. QED
    BY <2>4, <2>5
<1>19. ASSUME NEW ch \in UccTargets, ReceiveUccReq(ch) PROVE Waits(modem')
  <2>1. Listening(modem) /\ modem' = OnUccReq(modem, ch) /\ ch \in Channels
    BY <1>19, NetworkAssumption DEF ReceiveUccReq, Becomes
  <2>2. QED
    BY <2>1, OnUccReqGood, CalmTransitive
<1>20. QED
  BY <1>1, <1>2, <1>3, <1>4, <1>5, <1>6, <1>7, <1>8, <1>10, <1>11, <1>12, <1>13,
     <1>14, <1>15, <1>16, <1>17, <1>18, <1>19 DEF Next, vars, MissGrant, LoseAnswer

-----------------------------------------------------------------------------
(* The dialogue that takes a modem from ranging into service: the frames    *)
(* with which the modem takes its turn, the answers that give it the next,  *)
(* and the state in which either has its place.                             *)
Turns == Provisioning \ {"TOD"}
TurnAnswers == {"OFFER", "DHCPACK", "DATA", "REG-RSP"}
StateAt(kind) ==
    CASE kind \in {"DISCOVER", "OFFER", "REQUEST", "DHCPACK"} -> "dhcp"
      [] kind \in {"RRQ", "DATA", "ACK"} -> "tftp-config"
      [] kind \in {"REG-REQ", "REG-RSP", "REG-ACK"} -> "registering"

(* The frames that neither are a turn nor make the modem leave its upstream.*)
Plain == {f \in Frames : f[1] \notin Turns /\ (f[1] = "UCC-RSP" => f[2] = NoChannel)}

Items(seq) == {seq[i] : i \in DOMAIN seq}
Aloft(bursts) == UNION {Items(bursts[i].frames) : i \in DOMAIN bursts}
Held(m) == Items(m.queue) \union Aloft(m.bursts)

HasTurn(frames) == \E i \in DOMAIN frames : frames[i][1] \in Turns
OneTurnIn(frames) ==
    \A i, j \in DOMAIN frames : frames[i][1] \in Turns /\ frames[j][1] \in Turns => i = j
TurnAloft(bursts) == \E i \in DOMAIN bursts : HasTurn(bursts[i].frames)
OneAloft(bursts) ==
    /\ \A i \in DOMAIN bursts : OneTurnIn(bursts[i].frames)
    /\ \A i, j \in DOMAIN bursts :
          HasTurn(bursts[i].frames) /\ HasTurn(bursts[j].frames) => i = j

NoTurn(m) == ~HasTurn(m.queue) /\ ~TurnAloft(m.bursts)
OneTurn(m) ==
    OneTurnIn(m.queue) /\ OneAloft(m.bursts) /\ ~(HasTurn(m.queue) /\ TurnAloft(m.bursts))

-----------------------------------------------------------------------------
LEMMA TurnAppend ==
    ASSUME NEW q \in Seq(Frames), NEW f \in Frames, NEW t, t = Append(q, f)
    PROVE  /\ Items(t) = Items(q) \union {f}
           /\ f[1] \notin Turns => /\ HasTurn(t) => HasTurn(q)
                                   /\ OneTurnIn(q) => OneTurnIn(t)
           /\ ~HasTurn(q) => OneTurnIn(t)
<1>1. /\ DOMAIN q = 1 .. Len(q) /\ DOMAIN t = 1 .. Len(q) + 1 /\ Len(q) \in Nat
      /\ \A i \in 1 .. Len(q) : t[i] = q[i]
      /\ t[Len(q) + 1] = f
  BY AppendProperties, LenProperties
<1>2. \A i \in DOMAIN t : i = Len(q) + 1 \/ (i \in DOMAIN q /\ t[i] = q[i])
  BY <1>1
<1>3. \A i \in DOMAIN q : i \in DOMAIN t /\ t[i] = q[i]
  BY <1>1
<1>4. Len(q) + 1 \in DOMAIN t
  BY <1>1
<1>5. Items(t) = Items(q) \union {f}
  BY <1>1, <1>2, <1>3, <1>4 DEF Items
<1>6. f[1] \notin Turns => (HasTurn(t) => HasTurn(q)) /\ (OneTurnIn(q) => OneTurnIn(t))
  BY <1>1, <1>2 DEF HasTurn, OneTurnIn
<1>7. ~HasTurn(q) => OneTurnIn(t)
  BY <1>1, <1>2 DEF HasTurn, OneTurnIn
<1>8. QED
  BY <1>5, <1>6, <1>7

LEMMA TurnSplit ==
    ASSUME NEW q \in Seq(Frames), NEW k \in 1 .. Len(q),
           NEW a, a = SubSeq(q, 1, k), NEW z, z = SubSeq(q, k + 1, Len(q))
    PROVE  /\ Items(a) \subseteq Items(q) /\ Items(z) \subseteq Items(q)
           /\ HasTurn(a) \/ HasTurn(z) => HasTurn(q)
           /\ OneTurnIn(q) => OneTurnIn(a) /\ OneTurnIn(z) /\ ~(HasTurn(a) /\ HasTurn(z))
<1>1. DOMAIN q = 1 .. Len(q) /\ Len(q) \in Nat /\ k \in Nat
  BY LenProperties
<1>2. \A i \in DOMAIN a : i \in DOMAIN q /\ a[i] = q[i] /\ i <= k /\ i \in Nat
  BY <1>1
<1>3. \A i \in DOMAIN z : i + k \in DOMAIN q /\ z[i] = q[i + k] /\ i > 0 /\ i \in Nat
  BY <1>1
<1>4. Items(a) \subseteq Items(q) /\ Items(z) \subseteq Items(q)
  BY <1>2, <1>3 DEF Items
<1>5. HasTurn(a) \/ HasTurn(z) => HasTurn(q)
  BY <1>2, <1>3 DEF HasTurn
<1>6. ASSUME OneTurnIn(q) PROVE OneTurnIn(a) /\ OneTurnIn(z) /\ ~(HasTurn(a) /\ HasTurn(z))
  <2>1. OneTurnIn(a)
    BY <1>2, <1>6 DEF OneTurnIn
  <2>2. ASSUME NEW i \in DOMAIN z, NEW j \in DOMAIN z, z[i][1] \in Turns, z[j][1] \in Turns
        PROVE  i = j
    <3>1. i + k = j + k
      BY <1>3, <1>6, <2>2 DEF OneTurnIn
    <3>2. QED
      BY <1>1, <1>3, <3>1
  <2>3. ASSUME NEW i \in DOMAIN a, NEW j \in DOMAIN z, a[i][1] \in Turns, z[j][1] \in Turns
        PROVE  FALSE
    <3>1. i = j + k
      BY <1>2, <1>3, <1>6, <2>3 DEF OneTurnIn
    <3>2. QED
      BY <1>1, <1>2, <1>3, <3>1
  <2>4. QED
    BY <2>1, <2>2, <2>3 DEF OneTurnIn, HasTurn
<1>7. QED
  BY <1>4, <1>5, <1>6

LEMMA AloftAppend ==
    ASSUME NEW bursts \in Seq(Bursts), NEW b \in Bursts, NEW t, t = Append(bursts, b)
    PROVE  /\ Aloft(t) = Aloft(bursts) \union Items(b.frames)
           /\ TurnAloft(t) <=> TurnAloft(bursts) \/ HasTurn(b.frames)
           /\ OneAloft(bursts) /\ OneTurnIn(b.frames)
                 /\ ~(TurnAloft(bursts) /\ HasTurn(b.frames)) => OneAloft(t)
<1>1. /\ DOMAIN bursts = 1 .. Len(bursts) /\ DOMAIN t = 1 .. Len(bursts) + 1 /\ Len(bursts) \in Nat
      /\ \A i \in 1 .. Len(bursts) : t[i] = bursts[i]
      /\ t[Len(bursts) + 1] = b
  BY AppendProperties, LenProperties
<1>2. \A i \in DOMAIN t :
          (i = Len(bursts) + 1 /\ t[i] = b) \/ (i \in DOMAIN bursts /\ t[i] = bursts[i])
  BY <1>1
<1>3. \A i \in DOMAIN bursts : i \in DOMAIN t /\ t[i] = bursts[i]
  BY <1>1
<1>4. Len(bursts) + 1 \in DOMAIN t
  BY <1>1
<1>5. Aloft(t) = Aloft(bursts) \union Items(b.frames)
  <2>1. Aloft(t) \subseteq Aloft(bursts) \union Items(b.frames)
    BY <1>2 DEF Aloft
  <2>2. Aloft(bursts) \subseteq Aloft(t)
    BY <1>3 DEF Aloft
  <2>3. Items(b.frames) \subseteq Aloft(t)
    BY <1>1, <1>4 DEF Aloft
  <2>4. QED
    BY <2>1, <2>2, <2>3
<1>6. TurnAloft(t) <=> TurnAloft(bursts) \/ HasTurn(b.frames)
  BY <1>1, <1>2, <1>3, <1>4 DEF TurnAloft
<1>7. OneAloft(bursts) /\ OneTurnIn(b.frames)
         /\ ~(TurnAloft(bursts) /\ HasTurn(b.frames)) => OneAloft(t)
  BY <1>2 DEF OneAloft, TurnAloft
<1>8. QED
  BY <1>5, <1>6, <1>7

LEMMA AloftTail ==
    ASSUME NEW bursts \in Seq(Bursts), bursts # <<>>,
           NEW frames, frames = Head(bursts).frames, NEW t, t = Tail(bursts)
    PROVE  /\ Aloft(t) \subseteq Aloft(bursts) /\ Items(frames) \subseteq Aloft(bursts)
           /\ TurnAloft(t) \/ HasTurn(frames) => TurnAloft(bursts)
           /\ OneAloft(bursts) => /\ OneAloft(t) /\ OneTurnIn(frames)
                                  /\ ~(TurnAloft(t) /\ HasTurn(frames))
<1>1. /\ DOMAIN bursts = 1 .. Len(bursts) /\ Len(bursts) \in Nat /\ 1 \in DOMAIN bursts
      /\ frames = bursts[1].frames
  <2>1. Len(bursts) # 0 /\ Len(bursts) \in Nat /\ DOMAIN bursts = 1 .. Len(bursts)
    BY LenProperties, EmptySeq
  <2>2. Head(bursts) = bursts[1]
    OBVIOUS
  <2>3. QED
    BY <2>1, <2>2
<1>2. \A i \in DOMAIN t : i + 1 \in DOMAIN bursts /\ t[i] = bursts[i + 1] /\ i > 0 /\ i \in Nat
  <2>1. /\ Len(t) = Len(bursts) - 1 /\ t \in Seq(Bursts)
        /\ \A i \in 1 .. Len(t) : t[i] = bursts[i + 1]
    BY HeadTailProperties
  <2>2. DOMAIN t = 1 .. Len(t)
    BY <2>1, LenProperties
  <2>3. QED
    BY <1>1, <2>1, <2>2
<1>3. Aloft(t) \subseteq Aloft(bursts)
  BY <1>2 DEF Aloft
<1>4. Items(frames) \subseteq Aloft(bursts)
  BY <1>1 DEF Aloft
<1>5. TurnAloft(t) \/ HasTurn(frames) => TurnAloft(bursts)
  BY <1>1, <1>2 DEF TurnAloft
<1>6. ASSUME OneAloft(bursts)
      PROVE  OneAloft(t) /\ OneTurnIn(frames) /\ ~(TurnAloft(t) /\ HasTurn(frames))
  <2>1. OneTurnIn(frames) /\ \A i \in DOMAIN t : OneTurnIn(t[i].frames)
    BY <1>1, <1>2, <1>6 DEF OneAloft
  <2>2. ASSUME NEW i \in DOMAIN t, NEW j \in DOMAIN t, HasTurn(t[i].frames), HasTurn(t[j].frames)
        PROVE  i = j
    <3>1. i + 1 = j + 1
      BY <1>2, <1>6, <2>2 DEF OneAloft
    <3>2. QED
      BY <1>2, <3>1
  <2>3. ASSUME NEW i \in DOMAIN t, HasTurn(t[i].frames), HasTurn(frames) PROVE FALSE
    <3>1. i + 1 = 1
      BY <1>1, <1>2, <1>6, <2>3 DEF OneAloft
    <3>2. QED
      BY <1>2, <3>1
  <2>4. QED
    BY <2>1, <2>2, <2>3 DEF OneAloft, TurnAloft
<1>7. QED
  BY <1>3, <1>4, <1>5, <1>6

(* What is held, as frames.                                                 *)
(* A modem holds a turn just if one of its frames is a turn.                *)
LEMMA NoTurnHeld ==
    ASSUME NEW m PROVE NoTurn(m) <=> \A f \in Held(m) : f[1] \notin Turns
BY DEF NoTurn, Held, Items, Aloft, HasTurn, TurnAloft

LEMMA NoTurnOne == ASSUME NEW m, NoTurn(m) PROVE OneTurn(m)
BY DEF NoTurn, OneTurn, OneTurnIn, HasTurn, OneAloft, TurnAloft

-----------------------------------------------------------------------------
(* Nothing new that matters in the dialogue.                                *)
FramesKept(m, n) ==
    /\ Held(n) \subseteq Held(m) \union Plain
    /\ OneTurn(m) => OneTurn(n)

RangingStates == {"ranging-wait", "ranging-initial", "ranging-station"}

(* A modem takes one turn at a time, at its place; it is asked to leave an  *)
(* upstream only in service; it was registered if it is in service, or on   *)
(* its way back; and it has an upstream unless it looks for one.            *)
Orderly(m) ==
    /\ ~Listening(m) => ~m.registered
    /\ Listening(m) =>
        /\ OneTurn(m)
        /\ \A f \in Held(m) : f[1] \in Turns => StateAt(f[1]) = m.state
        /\ \A f \in Held(m) : f[1] = "UCC-RSP" /\ f[2] # NoChannel => m.registered
        /\ m.registered => m.state \in RangingStates \union {"operational"}
        /\ m.state = "operational" => m.registered
        /\ m.state \notin Early \union {"ranging-wait"} => m.ucd # NoUcd

(* A handler that neither provisions the modem nor moves it.                *)
Idles(m, n) ==
    /\ FramesKept(m, n)
    /\ n.registered = m.registered /\ n.ucd = m.ucd /\ n.uccTarget = m.uccTarget
    /\ \/ n.state = m.state
       \/ m.state \in RangingStates /\ n.state \in RangingStates /\ m.ucd # NoUcd

StageOf(state) ==
    CASE state \in {"offline", "ds-scan"} -> "down"
      [] state \in {"sync-wait", "ucd-wait"} -> "searching"
      [] state \in RangingStates -> "ranging"
      [] state \in InService \ {"operational"} -> "provisioning"
      [] state = "operational" -> "online"
      [] state = "rejected" -> "rejected"

(* A step of ModemService, or none, from one stage to another; and a modem  *)
(* in service that keeps its upstream.                                      *)
Climbs(from, to, before, after) ==
    \/ to = "down" /\ ~after
    \/ after = before /\ \/ to = from
                         \/ from = "down" /\ to = "searching"
                         \/ from = "searching" /\ to = "ranging"
                         \/ from = "ranging" /\ to = "provisioning" /\ ~before
                         \/ from = "provisioning" /\ to = "rejected"
                         \/ from = "rejected" /\ to = "ranging"
                         \/ from = "online" /\ to = "ranging"
                         \/ from = "ranging" /\ to = "online" /\ before
    \/ from = "provisioning" /\ to = "online" /\ ~before /\ after

KeepsUpstream(m, n) ==
    m.state = "operational" /\ n.ucd.ch # m.ucd.ch
        => m.uccTarget # NoChannel \/ n.state = "ds-scan" \/ n.ucd = NoUcd

Proceeds(m, n) ==
    /\ Orderly(n)
    /\ Climbs(StageOf(m.state), StageOf(n.state), m.registered, n.registered)
    /\ KeepsUpstream(m, n)

LEMMA StageIs ==
    /\ \A state \in {"offline", "ds-scan"} : StageOf(state) = "down"
    /\ \A state \in {"sync-wait", "ucd-wait"} : StageOf(state) = "searching"
    /\ \A state \in RangingStates : StageOf(state) = "ranging"
    /\ \A state \in InService \ {"operational"} : StageOf(state) = "provisioning"
    /\ StageOf("operational") = "online"
    /\ StageOf("rejected") = "rejected"
<1>1. \A state \in {"offline", "ds-scan"} : StageOf(state) = "down"
  BY DEF StageOf, RangingStates, InService
<1>2. \A state \in {"sync-wait", "ucd-wait"} : StageOf(state) = "searching"
  BY DEF StageOf, RangingStates, InService
<1>3. \A state \in RangingStates : StageOf(state) = "ranging"
  BY DEF StageOf, RangingStates, InService
<1>4. \A state \in InService \ {"operational"} : StageOf(state) = "provisioning"
  BY DEF StageOf, RangingStates, InService
<1>5. StageOf("operational") = "online"
  BY DEF StageOf, RangingStates, InService
<1>6. StageOf("rejected") = "rejected"
  BY DEF StageOf, RangingStates, InService
<1>7. QED
  BY <1>1, <1>2, <1>3, <1>4, <1>5, <1>6

LEMMA FramesKeptTransitive ==
    ASSUME NEW l, NEW m, NEW n, FramesKept(l, m), FramesKept(m, n)
    PROVE  FramesKept(l, n)
BY DEF FramesKept

LEMMA IdlesTransitive ==
    ASSUME NEW l, NEW m, NEW n, Idles(l, m), Idles(m, n)
    PROVE  Idles(l, n)
BY FramesKeptTransitive DEF Idles

LEMMA KeptNoTurn ==
    ASSUME NEW m, NEW n, FramesKept(m, n), NoTurn(m)
    PROVE  NoTurn(n)
<1>1. \A f \in Held(n) : f[1] \notin Turns
  BY NoTurnHeld DEF FramesKept, Plain
<1>2. QED
  BY <1>1, NoTurnHeld

(* A modem in a state that is nobody's turn holds none.                     *)
LEMMA NoTurnHere ==
    ASSUME NEW m, Orderly(m), Listening(m),
           m.state \notin {"dhcp", "tftp-config", "registering"}
    PROVE  NoTurn(m)
<1>1. \A kind \in Turns : StateAt(kind) \in {"dhcp", "tftp-config", "registering"}
  BY DEF Turns, Provisioning, Answered, StateAt
<1>2. QED
  BY <1>1, NoTurnHeld DEF Orderly

(* A modem goes to a state with nothing of the dialogue under way.          *)
LEMMA OrderlyAt ==
    ASSUME NEW m, Orderly(m), Listening(m), NEW n, FramesKept(m, n),
           NoTurn(m) \/ n.state = m.state,
           m.registered => n.registered,
           n.registered => n.state \in RangingStates \union {"operational"},
           n.state = "operational" => n.registered,
           n.state \notin Early \union {"ranging-wait"} => n.ucd # NoUcd,
           ~Listening(n) => ~n.registered
    PROVE  Orderly(n)
<1>1. OneTurn(n)
  BY DEF FramesKept, Orderly
<1>2. ASSUME NEW f \in Held(n), f[1] \in Turns PROVE StateAt(f[1]) = n.state
  <2>1. f \in Held(m)
    BY <1>2 DEF FramesKept, Plain
  <2>2. QED
    BY <1>2, <2>1, NoTurnHeld DEF Orderly
<1>3. ASSUME NEW f \in Held(n), f[1] = "UCC-RSP", f[2] # NoChannel PROVE n.registered
  <2>1. f \in Held(m)
    BY <1>3 DEF FramesKept, Plain
  <2>2. QED
    BY <1>3, <2>1 DEF Orderly
<1>4. QED
  BY <1>1, <1>2, <1>3 DEF Orderly

LEMMA IdlesProceeds ==
    ASSUME NEW m, Orderly(m), NEW n, Idles(m, n)
    PROVE  /\ Proceeds(m, n)
           /\ Listening(n) = Listening(m)
           /\ NoTurn(m) => NoTurn(n)
           /\ n.state = m.state \/ m.state \in RangingStates
<1>1. Listening(n) = Listening(m)
  BY DEF Idles, Listening, RangingStates
<1>2. Orderly(n)
  <2>1. CASE ~Listening(m)
    BY <1>1, <2>1 DEF Orderly, Idles
  <2>2. CASE Listening(m)
    <3>1. NoTurn(m) \/ n.state = m.state
      BY <2>2, NoTurnHere DEF Idles, RangingStates
    <3>2. n.registered => n.state \in RangingStates \union {"operational"}
      BY <2>2 DEF Orderly, Idles
    <3>3. n.state = "operational" => n.registered
      BY <2>2 DEF Orderly, Idles, RangingStates
    <3>4. n.state \notin Early \union {"ranging-wait"} => n.ucd # NoUcd
      BY <2>2 DEF Orderly, Idles
    <3>5. QED
      BY <1>1, <2>2, <3>1, <3>2, <3>3, <3>4, OrderlyAt DEF Idles
  <2>3. QED
    BY <2>1, <2>2
<1>3. StageOf(n.state) = StageOf(m.state)
  <2>1. CASE n.state = m.state
    BY <2>1
  <2>2. CASE n.state # m.state
    BY <2>2, StageIs DEF Idles
  <2>3. QED
    BY <2>1, <2>2
<1>4. QED
  BY <1>1, <1>2, <1>3, KeptNoTurn DEF Proceeds, Climbs, KeepsUpstream, Idles

-----------------------------------------------------------------------------
(* Handlers that idle.                                                      *)
LEMMA SameIdles ==
    ASSUME NEW m, NEW n, n.queue = m.queue, n.bursts = m.bursts
    PROVE  /\ FramesKept(m, n)
           /\ n.state = m.state /\ SameBasics(m, n) => Idles(m, n)
BY DEF FramesKept, Held, OneTurn, Idles, SameBasics

LEMMA ArmIdles ==
    ASSUME NEW m \in Modems, NEW timer \in Timers
    PROVE  Idles(m, Arm(m, timer)) /\ Idles(m, Disarm(m, timer))
BY ArmFields, DisarmFields, SameIdles DEF SameUpstream

(* What the modem adds to the queue that is not a turn.                     *)
LEMMA EnqueueIdles ==
    ASSUME NEW m \in Modems, NEW kind \in FrameKinds \ Turns, NEW n, n = Enqueue(m, kind)
    PROVE  Idles(m, n)
<1>1. PICK f : f = <<kind, NoChannel>>
  OBVIOUS
<1>2. f \in Frames /\ f \in Plain /\ f[1] \notin Turns
  BY <1>1, FrameSets DEF Plain
<1>3. /\ n.state = m.state /\ SameBasics(m, n)
      /\ n.queue = Append(m.queue, f) /\ n.bursts = m.bursts
  BY <1>1, EnqueueFields
<1>4. m.queue \in Seq(Frames)
  BY DEF Modems
<1>5. /\ Items(n.queue) = Items(m.queue) \union {f}
      /\ HasTurn(n.queue) => HasTurn(m.queue)
      /\ OneTurnIn(m.queue) => OneTurnIn(n.queue)
  BY <1>2, <1>3, <1>4, TurnAppend
<1>6. FramesKept(m, n)
  BY <1>2, <1>3, <1>5 DEF FramesKept, Held, OneTurn
<1>7. QED
  BY <1>3, <1>6 DEF Idles, SameBasics

(* The modem takes its turn.                                                *)
LEMMA TurnTaken ==
    ASSUME NEW m \in Modems, Orderly(m), Listening(m), NoTurn(m),
           NEW kind \in Turns, StateAt(kind) = m.state, NEW n, n = Enqueue(m, kind)
    PROVE  /\ Orderly(n) /\ Listening(n) /\ n \in Modems
           /\ n.state = m.state /\ SameBasics(m, n) /\ n.timers = m.timers
<1>1. kind \in FrameKinds
  BY DEF Turns, Provisioning, Answered, FrameKinds
<1>2. PICK f : f = <<kind, NoChannel>>
  OBVIOUS
<1>3. f \in Frames /\ f[1] = kind /\ f[1] # "UCC-RSP"
  BY <1>1, <1>2, FrameSets DEF Turns, Provisioning, Answered
<1>4. /\ n.state = m.state /\ SameBasics(m, n) /\ n \in Modems /\ n.timers = m.timers
      /\ n.queue = Append(m.queue, f) /\ n.bursts = m.bursts
  BY <1>1, <1>2, EnqueueFields
<1>5. Items(n.queue) = Items(m.queue) \union {f} /\ OneTurnIn(n.queue)
  <2>1. m.queue \in Seq(Frames)
    BY DEF Modems
  <2>2. QED
    BY <1>3, <1>4, <2>1, TurnAppend DEF NoTurn
<1>6. Held(n) = Held(m) \union {f}
  BY <1>4, <1>5 DEF Held
<1>7. OneTurn(n)
  BY <1>4, <1>5, NoTurnOne DEF OneTurn, NoTurn
<1>8. Listening(n)
  BY <1>4 DEF Listening
<1>9. \A g \in Held(n) : g[1] \in Turns => StateAt(g[1]) = n.state
  BY <1>3, <1>4, <1>6 DEF Orderly
<1>10. \A g \in Held(n) : g[1] = "UCC-RSP" /\ g[2] # NoChannel => n.registered
  BY <1>3, <1>4, <1>6 DEF Orderly, SameBasics
<1>11. QED
  BY <1>4, <1>7, <1>8, <1>9, <1>10 DEF Orderly, SameBasics

LEMMA AskIdles ==
    ASSUME NEW m \in Modems, NEW n, n = MaybeRequest(m)
    PROVE  Idles(m, n) /\ n \in Modems
BY MaybeRequestFields, SameIdles

(* A burst with no frames in it.                                            *)
LEMMA ScheduleIdles ==
    ASSUME NEW m \in Modems, NEW kind \in {"RNG-REQ", "REQ", "DATA"},
           NEW sid \in Sids \union {NoSid}, NEW n, n = Schedule(m, kind, sid, <<>>)
    PROVE  Idles(m, n) /\ n \in Modems /\ n.state = m.state
<1>1. PICK none : none = <<>>
  OBVIOUS
<1>2. none \in Seq(Frames)
  BY <1>1, EmptySeq
<1>3. PICK b : b = [kind |-> kind, sid |-> sid, frames |-> none]
  OBVIOUS
<1>4. /\ n \in Modems /\ n.state = m.state /\ SameBasics(m, n)
      /\ n.queue = m.queue /\ n.bursts = Append(m.bursts, b)
  <2>1. n = Schedule(m, kind, sid, none)
    BY <1>1
  <2>2. /\ n \in Modems /\ n.timers = m.timers /\ n.state = m.state
        /\ SameBasics(m, n)
        /\ n.queue = m.queue /\ n.requestSlot = m.requestSlot
        /\ n.grantPending = m.grantPending /\ n.outstanding = m.outstanding
        /\ n.bursts = Append(m.bursts, [kind |-> kind, sid |-> sid, frames |-> none])
    BY <1>2, <2>1, ScheduleFields
  <2>3. QED
    BY <1>3, <2>2
<1>5. b \in Bursts /\ b.frames = none /\ m.bursts \in Seq(Bursts)
  BY <1>2, <1>3 DEF Bursts, Modems
<1>6. Items(none) = {} /\ ~HasTurn(none) /\ OneTurnIn(none)
  <2>1. DOMAIN none = {}
    BY <1>1
  <2>2. QED
    BY <2>1 DEF Items, HasTurn, OneTurnIn
<1>7. /\ Aloft(n.bursts) = Aloft(m.bursts)
      /\ TurnAloft(n.bursts) => TurnAloft(m.bursts)
      /\ OneAloft(m.bursts) => OneAloft(n.bursts)
  BY <1>4, <1>5, <1>6, AloftAppend
<1>8. FramesKept(m, n)
  BY <1>4, <1>7 DEF FramesKept, Held, OneTurn
<1>9. QED
  BY <1>4, <1>8 DEF Idles, SameBasics

LEMMA OfferInitialMaintenanceIdles ==
    ASSUME NEW m, GoodModem(m), m.ucd # NoUcd, NEW map \in Maps,
           NEW n \in OfferInitialMaintenance(m, map)
    PROVE  Idles(m, n)
<1>1. m \in Modems /\ {"T2", "T3"} \subseteq Timers
  BY DEF GoodModem, Timers, MacTimers
<1>2. CASE n = m
  BY <1>2, SameIdles DEF SameBasics
<1>3. CASE n # m
  <2>1. PICK deferred : deferred = Disarm(m, "T2")
    OBVIOUS
  <2>2. PICK ranging : ranging = [deferred EXCEPT !.state = "ranging-initial"]
    OBVIOUS
  <2>3. PICK sent : sent = Schedule(ranging, "RNG-REQ", NoSid, <<>>)
    OBVIOUS
  <2>4. /\ m.state = "ranging-wait"
        /\ n = deferred \/ n = Arm(sent, "T3")
    BY <1>3, <2>1, <2>2, <2>3 DEF OfferInitialMaintenance
  <2>5. /\ deferred \in Modems /\ Idles(m, deferred)
        /\ deferred.state = "ranging-wait" /\ deferred.ucd # NoUcd
    BY <1>1, <2>1, <2>4, DisarmFields, ArmIdles DEF SameBasics
  <2>6. ranging \in Modems /\ Idles(deferred, ranging)
    <3>1. "ranging-initial" \in States
      BY DEF States
    <3>2. /\ ranging \in Modems /\ ranging.state = "ranging-initial"
          /\ SameBasics(deferred, ranging) /\ SameUpstream(deferred, ranging)
      BY <2>2, <2>5, <3>1, StateFields
    <3>3. FramesKept(deferred, ranging)
      BY <3>2, SameIdles DEF SameUpstream
    <3>4. QED
      BY <2>5, <3>2, <3>3 DEF Idles, SameBasics, RangingStates
  <2>7. sent \in Modems /\ Idles(ranging, sent)
    BY <2>3, <2>6, ScheduleIdles
  <2>8. Idles(sent, Arm(sent, "T3"))
    BY <1>1, <2>7, ArmIdles
  <2>9. QED
    BY <2>4, <2>5, <2>6, <2>7, <2>8, IdlesTransitive
<1>4. QED
  BY <1>2, <1>3

LEMMA OfferStationMaintenanceIdles ==
    ASSUME NEW m, GoodModem(m), m.ucd # NoUcd, NEW map \in Maps,
           NEW n, n = OfferStationMaintenance(m, map)
    PROVE  Idles(m, n)
<1>1. m \in Modems /\ {"T3", "T4"} \subseteq Timers
  BY DEF GoodModem, Timers, MacTimers
<1>2. CASE n = m
  BY <1>2, SameIdles DEF SameBasics
<1>3. CASE n # m
  <2>1. PICK heard : heard = Arm(m, "T4")
    OBVIOUS
  <2>2. PICK sid : sid = m.sid
    OBVIOUS
  <2>3. PICK burst : burst = Schedule(heard, "RNG-REQ", sid, <<>>)
    OBVIOUS
  <2>4. PICK sent : sent = Arm(burst, "T3")
    OBVIOUS
  <2>5. PICK state : state = IF Ranging(m) THEN "ranging-station" ELSE sent.state
    OBVIOUS
  <2>6. n = heard \/ n = [sent EXCEPT !.state = state]
    BY <1>3, <2>1, <2>2, <2>3, <2>4, <2>5 DEF OfferStationMaintenance
  <2>7. /\ heard \in Modems /\ Idles(m, heard) /\ heard.state = m.state /\ heard.ucd = m.ucd
    BY <1>1, <2>1, ArmFields, ArmIdles DEF SameBasics
  <2>8. sid \in Sids \union {NoSid}
    BY <1>1, <2>2 DEF Modems
  <2>9. burst \in Modems /\ Idles(heard, burst) /\ burst.state = m.state
    BY <2>3, <2>7, <2>8, ScheduleIdles
  <2>10. sent \in Modems /\ Idles(burst, sent) /\ sent.state = m.state
    BY <1>1, <2>4, <2>9, ArmFields, ArmIdles
  <2>11. Idles(m, sent)
    BY <2>7, <2>9, <2>10, IdlesTransitive
  <2>12. ASSUME n = [sent EXCEPT !.state = state] PROVE Idles(sent, n)
    <3>1. state \in States
      BY <2>5, <2>10 DEF States, Modems
    <3>2. /\ n.state = state /\ SameBasics(sent, n) /\ SameUpstream(sent, n)
      BY <2>10, <2>12, <3>1, StateFields
    <3>3. FramesKept(sent, n)
      BY <3>2, SameIdles DEF SameUpstream
    <3>4. sent.ucd # NoUcd
      BY <2>11 DEF Idles
    <3>5. \/ n.state = sent.state
          \/ sent.state \in RangingStates /\ n.state \in RangingStates
      BY <2>5, <2>10, <3>2 DEF Ranging, RangingStates
    <3>6. QED
      BY <3>2, <3>3, <3>4, <3>5 DEF Idles, SameBasics
  <2>13. QED
    BY <2>6, <2>7, <2>11, <2>12, IdlesTransitive
<1>4. QED
  BY <1>2, <1>3

(* A grant moves frames from the queue into a burst.                        *)
LEMMA UseDataGrantIdles ==
    ASSUME NEW m, GoodModem(m), NEW map \in Maps, NEW n \in UseDataGrant(m, map)
    PROVE  Idles(m, n)
<1>1. PICK granted : granted = [m EXCEPT !.grantPending = FALSE, !.requestSlot = FALSE,
                                         !.outstanding = FALSE]
  OBVIOUS
<1>2. /\ granted \in Modems /\ granted.state = m.state
      /\ SameBasics(m, granted) /\ granted.queue = m.queue /\ granted.bursts = m.bursts
  BY <1>1 DEF GoodModem, Modems, SameBasics
<1>3. Idles(m, granted)
  BY <1>2, SameIdles
<1>4. CASE n = MaybeRequest(granted) \/ n = granted
  BY <1>2, <1>3, <1>4, AskIdles, IdlesTransitive
<1>5. CASE m.queue # <<>> /\ n # MaybeRequest(granted)
  <2>1. PICK k \in 1 .. Len(m.queue) :
            LET popped == [granted EXCEPT !.queue = SubSeq(@, k + 1, Len(@))]
            IN  n = MaybeRequest(
                    IF InTime(m, map, 3)
                    THEN Schedule(popped, "DATA", m.sid, SubSeq(m.queue, 1, k))
                    ELSE popped)
    <3>1. m.queue \in Seq(Frames)
      BY DEF GoodModem, Modems
    <3>2. Len(m.queue) \in Nat \ {0}
      BY <1>5, <3>1, EmptySeq, LenProperties
    <3>3. (1 .. IF Concatenation THEN Len(m.queue) ELSE 1) \subseteq 1 .. Len(m.queue)
      BY <3>2
    <3>4. PICK k \in 1 .. (IF Concatenation THEN Len(m.queue) ELSE 1) :
              LET popped == [granted EXCEPT !.queue = SubSeq(@, k + 1, Len(@))]
              IN  n = MaybeRequest(
                      IF InTime(m, map, 3)
                      THEN Schedule(popped, "DATA", m.sid, SubSeq(m.queue, 1, k))
                      ELSE popped)
      BY <1>1, <1>5, Zenon DEF UseDataGrant
    <3>5. QED
      BY <3>3, <3>4
  <2>2. PICK rest : rest = SubSeq(m.queue, k + 1, Len(m.queue))
    OBVIOUS
  <2>3. PICK taken : taken = SubSeq(m.queue, 1, k)
    OBVIOUS
  <2>4. m.queue \in Seq(Frames) /\ rest \in Seq(Frames) /\ taken \in Seq(Frames)
    BY <2>2, <2>3, SequencesOf DEF GoodModem, Modems
  <2>5. PICK popped : popped = [granted EXCEPT !.queue = rest]
    OBVIOUS
  <2>6. /\ popped \in Modems /\ popped.state = m.state
        /\ SameBasics(m, popped) /\ popped.queue = rest /\ popped.bursts = m.bursts
    BY <1>2, <2>4, <2>5 DEF Modems, SameBasics
  <2>7. PICK x : x = IF InTime(m, map, 3) THEN Schedule(popped, "DATA", m.sid, taken)
                     ELSE popped
    OBVIOUS
  <2>8. n = MaybeRequest(x)
    BY <1>2, <2>1, <2>2, <2>3, <2>5, <2>7
  <2>9. PICK sid : sid = m.sid
    OBVIOUS
  <2>10. sid \in Sids \union {NoSid}
    BY <2>9 DEF GoodModem, Modems
  <2>11. PICK b : b = [kind |-> "DATA", sid |-> sid, frames |-> taken]
    OBVIOUS
  <2>12. b \in Bursts /\ b.frames = taken /\ m.bursts \in Seq(Bursts)
    BY <2>4, <2>10, <2>11 DEF Bursts, GoodModem, Modems
  <2>13. /\ x \in Modems /\ x.state = m.state
         /\ SameBasics(m, x) /\ x.queue = rest
         /\ x.bursts = m.bursts \/ x.bursts = Append(m.bursts, b)
    <3>1. CASE ~InTime(m, map, 3)
      BY <2>6, <2>7, <3>1
    <3>2. CASE InTime(m, map, 3)
      <4>1. x = Schedule(popped, "DATA", sid, taken)
        BY <2>7, <2>9, <3>2
      <4>2. /\ x \in Modems /\ x.timers = popped.timers /\ x.state = popped.state
            /\ SameBasics(popped, x) /\ x.queue = popped.queue
            /\ x.requestSlot = popped.requestSlot
            /\ x.grantPending = popped.grantPending /\ x.outstanding = popped.outstanding
            /\ x.bursts = Append(popped.bursts,
                                 [kind |-> "DATA", sid |-> sid, frames |-> taken])
        <5>1. taken \in Seq(Frames) /\ popped \in Modems /\ "DATA" \in {"RNG-REQ", "REQ", "DATA"}
          BY <2>4, <2>6
        <5>2. QED
          BY SMTT(20), ZenonT(30), <2>10, <4>1, <5>1, ScheduleFields
      <4>3. QED
        BY <2>6, <2>11, <4>2 DEF SameBasics
    <3>3. QED
      BY <3>1, <3>2
  <2>14. /\ Items(taken) \subseteq Items(m.queue) /\ Items(rest) \subseteq Items(m.queue)
         /\ HasTurn(taken) \/ HasTurn(rest) => HasTurn(m.queue)
         /\ OneTurnIn(m.queue) => /\ OneTurnIn(taken) /\ OneTurnIn(rest)
                                  /\ ~(HasTurn(taken) /\ HasTurn(rest))
    <3>1. PICK q : q = m.queue
      OBVIOUS
    <3>2. q \in Seq(Frames) /\ k \in 1 .. Len(q)
          /\ taken = SubSeq(q, 1, k) /\ rest = SubSeq(q, k + 1, Len(q))
      BY <2>2, <2>3, <2>4, <3>1
    <3>3. /\ Items(taken) \subseteq Items(q) /\ Items(rest) \subseteq Items(q)
          /\ HasTurn(taken) \/ HasTurn(rest) => HasTurn(q)
          /\ OneTurnIn(q) => /\ OneTurnIn(taken) /\ OneTurnIn(rest)
                             /\ ~(HasTurn(taken) /\ HasTurn(rest))
      <4>1. q \in Seq(Frames) /\ k \in 1 .. Len(q)
        BY <3>2
      <4>2. taken = SubSeq(q, 1, k) /\ rest = SubSeq(q, k + 1, Len(q))
        BY <3>2
      <4>3. \A a, z : a = SubSeq(q, 1, k) /\ z = SubSeq(q, k + 1, Len(q)) =>
               /\ Items(a) \subseteq Items(q) /\ Items(z) \subseteq Items(q)
               /\ HasTurn(a) \/ HasTurn(z) => HasTurn(q)
               /\ OneTurnIn(q) => OneTurnIn(a) /\ OneTurnIn(z) /\ ~(HasTurn(a) /\ HasTurn(z))
        BY <4>1, TurnSplit, Zenon
      <4>4. QED
        BY <4>2, <4>3, Zenon
    <3>4. QED
      BY <3>1, <3>3
  <2>15. FramesKept(m, x)
    <3>1. CASE x.bursts = m.bursts
      BY <2>13, <2>14, <3>1 DEF FramesKept, Held, OneTurn
    <3>2. CASE x.bursts = Append(m.bursts, b)
      <4>1. /\ Aloft(x.bursts) = Aloft(m.bursts) \union Items(taken)
            /\ TurnAloft(x.bursts) <=> TurnAloft(m.bursts) \/ HasTurn(taken)
            /\ OneAloft(m.bursts) /\ OneTurnIn(taken)
                  /\ ~(TurnAloft(m.bursts) /\ HasTurn(taken)) => OneAloft(x.bursts)
        BY <2>12, <3>2, AloftAppend
      <4>2. Held(x) \subseteq Held(m)
        BY <2>13, <2>14, <4>1 DEF Held
      <4>3. ASSUME OneTurn(m) PROVE OneTurn(x)
        BY <2>13, <2>14, <4>1, <4>3 DEF OneTurn
      <4>4. QED
        BY <4>2, <4>3 DEF FramesKept
    <3>3. QED
      BY <2>13, <3>1, <3>2
  <2>16. Idles(m, x)
    BY <2>13, <2>15 DEF Idles, SameBasics
  <2>17. QED
    BY <2>8, <2>13, <2>16, AskIdles, IdlesTransitive
<1>6. QED
  BY <1>1, <1>4, <1>5 DEF UseDataGrant

LEMMA OfferDataGrantIdles ==
    ASSUME NEW m, GoodModem(m), NEW map \in Maps, NEW n \in OfferDataGrant(m, map)
    PROVE  Idles(m, n)
<1>1. CASE n = m
  BY <1>1, SameIdles DEF SameBasics
<1>2. CASE m.sid # NoSid /\ map.grant = "zero" /\ n # m
  <2>1. n = [m EXCEPT !.grantPending = TRUE]
    BY <1>2 DEF OfferDataGrant
  <2>2. /\ n.state = m.state /\ SameBasics(m, n) /\ n.queue = m.queue /\ n.bursts = m.bursts
    BY <2>1 DEF GoodModem, Modems, SameBasics
  <2>3. QED
    BY <2>2, SameIdles
<1>3. CASE m.sid # NoSid /\ map.grant = "sized" /\ n # m
  BY <1>3, UseDataGrantIdles DEF OfferDataGrant
<1>4. map.grant \in {"none", "zero", "sized"}
  BY DEF Maps
<1>5. QED
  BY <1>1, <1>2, <1>3, <1>4 DEF OfferDataGrant

LEMMA OfferRequestRegionIdles ==
    ASSUME NEW m, GoodModem(m), NEW map \in Maps, NEW n \in OfferRequestRegion(m, map)
    PROVE  Idles(m, n)
<1>1. CASE n = m
  BY <1>1, SameIdles DEF SameBasics
<1>2. CASE n # m
  <2>1. PICK x : x = [m EXCEPT !.requestSlot = TRUE]
    OBVIOUS
  <2>2. PICK sid : sid = m.sid
    OBVIOUS
  <2>3. n = Schedule(x, "REQ", sid, <<>>) /\ sid \in Sids \union {NoSid}
    BY <1>2, <2>1, <2>2 DEF OfferRequestRegion, GoodModem, Modems
  <2>4. /\ x \in Modems /\ x.state = m.state /\ SameBasics(m, x)
        /\ x.queue = m.queue /\ x.bursts = m.bursts
    BY <2>1 DEF GoodModem, Modems, SameBasics
  <2>5. Idles(m, x) /\ Idles(x, n)
    BY <2>3, <2>4, SameIdles, ScheduleIdles
  <2>6. QED
    BY <2>5, IdlesTransitive
<1>3. QED
  BY <1>1, <1>2

LEMMA CheckAcknowledgedIdles ==
    ASSUME NEW m, GoodModem(m), NEW before, NEW map \in Maps,
           NEW n, n = CheckAcknowledged(before, m, map)
    PROVE  Idles(m, n)
<1>1. CASE n = m
  BY <1>1, SameIdles DEF SameBasics
<1>2. CASE n # m
  <2>1. PICK x : x = [m EXCEPT !.requestSlot = FALSE, !.outstanding = FALSE]
    OBVIOUS
  <2>2. n = MaybeRequest(x)
    BY <1>2, <2>1 DEF CheckAcknowledged
  <2>3. /\ x \in Modems /\ x.state = m.state /\ SameBasics(m, x)
        /\ x.queue = m.queue /\ x.bursts = m.bursts
    BY <2>1 DEF GoodModem, Modems, SameBasics
  <2>4. Idles(m, x) /\ Idles(x, n)
    BY <2>2, <2>3, SameIdles, AskIdles
  <2>5. QED
    BY <2>4, IdlesTransitive
<1>3. QED
  BY <1>1, <1>2

LEMMA OnMapIdles ==
    ASSUME NEW m, GoodModem(m), Listening(m), NEW map \in Maps, NEW n \in OnMap(m, map)
    PROVE  Idles(m, n)
<1>1. CASE n = m
  BY <1>1, SameIdles DEF SameBasics
<1>2. CASE n # m
  <2>1. m.ucd # NoUcd
    BY <1>2 DEF OnMap
  <2>2. PICK a \in OfferInitialMaintenance(m, map) :
        \E b \in OfferDataGrant(OfferStationMaintenance(a, map), map) :
        \E c \in OfferRequestRegion(b, map) : n = CheckAcknowledged(m, c, map)
    BY <1>2 DEF OnMap
  <2>3. PICK polled : polled = OfferStationMaintenance(a, map)
    OBVIOUS
  <2>4. PICK b \in OfferDataGrant(polled, map) :
        \E c \in OfferRequestRegion(b, map) : n = CheckAcknowledged(m, c, map)
    BY <2>2, <2>3
  <2>5. PICK c \in OfferRequestRegion(b, map) : n = CheckAcknowledged(m, c, map)
    BY <2>4
  <2>6. GoodModem(a) /\ Listening(a) /\ Idles(m, a) /\ a.ucd # NoUcd
    BY <2>1, OfferInitialMaintenanceGood, OfferInitialMaintenanceIdles DEF Quietly, Keeps, Idles
  <2>7. GoodModem(polled) /\ Listening(polled) /\ Idles(a, polled)
    BY <2>3, <2>6, OfferStationMaintenanceGood, OfferStationMaintenanceIdles DEF Quietly, Keeps
  <2>8. GoodModem(b) /\ Listening(b) /\ Idles(polled, b)
    BY <2>7, OfferDataGrantGood, OfferDataGrantIdles DEF Quietly, Keeps
  <2>9. GoodModem(c) /\ Idles(b, c)
    BY <2>8, OfferRequestRegionGood, OfferRequestRegionIdles DEF Quietly, Keeps
  <2>10. Idles(c, n)
    BY <2>5, <2>9, CheckAcknowledgedIdles
  <2>11. QED
    BY <2>6, <2>7, <2>8, <2>9, <2>10, IdlesTransitive
<1>3. QED
  BY <1>1, <1>2

-----------------------------------------------------------------------------
(* Handlers that take the modem to another stage.                           *)
LEMMA ReinitializeProceeds ==
    ASSUME NEW m \in Modems, NEW n, n = Reinitialize(m)
    PROVE  Proceeds(m, n) /\ ~Listening(n) /\ n \in Modems
<1>1. n.state = "ds-scan" /\ ~n.registered /\ n \in Modems
  BY ReinitializeFields
<1>2. Orderly(n) /\ ~Listening(n)
  BY <1>1 DEF Orderly, Listening
<1>3. StageOf(n.state) = "down"
  BY <1>1, StageIs
<1>4. QED
  BY <1>1, <1>2, <1>3 DEF Proceeds, Climbs, KeepsUpstream

LEMMA PowerOnProceeds ==
    ASSUME NEW m \in Modems, Orderly(m), m.state = "offline", NEW n, n = PowerOn(m)
    PROVE  Proceeds(m, n)
<1>1. n.state = "ds-scan" /\ n.registered = m.registered
  BY DEF PowerOn, Arm, Modems
<1>2. Orderly(n) /\ ~n.registered
  BY <1>1 DEF Orderly, Listening
<1>3. StageOf(n.state) = "down"
  BY <1>1, StageIs
<1>4. QED
  BY <1>1, <1>2, <1>3 DEF Proceeds, Climbs, KeepsUpstream

(* The modem locks with nothing left of its last life.                      *)
LEMMA LockDownstreamProceeds ==
    ASSUME NEW m, GoodModem(m), Orderly(m), m.bursts = <<>>, NEW n, n = LockDownstream(m)
    PROVE  Proceeds(m, n)
<1>1. m \in Modems
  BY DEF GoodModem
<1>2. CASE m.state = "ds-scan"
  <2>1. /\ n.state = "sync-wait" /\ n.registered = m.registered
        /\ n.queue = m.queue /\ n.bursts = m.bursts
    BY <1>1, <1>2 DEF LockDownstream, Arm, Disarm, Modems
  <2>2. m.queue = <<>> /\ ~m.registered
    BY <1>2 DEF GoodModem, Orderly, Listening
  <2>3. Held(n) = {} /\ NoTurn(n)
    <3>1. DOMAIN n.queue = {} /\ DOMAIN n.bursts = {}
      BY <2>1, <2>2
    <3>2. QED
      BY <3>1 DEF Held, Items, Aloft, NoTurn, HasTurn, TurnAloft
  <2>4. Orderly(n)
    BY <2>1, <2>2, <2>3, NoTurnOne DEF Orderly, Early
  <2>5. StageOf(n.state) = "searching" /\ StageOf(m.state) = "down"
    BY <1>2, <2>1, StageIs
  <2>6. QED
    BY <1>2, <2>1, <2>4, <2>5 DEF Proceeds, Climbs, KeepsUpstream
<1>3. CASE m.state # "ds-scan"
  <2>1. n = Disarm(m, "ds-scan") /\ "ds-scan" \in Timers
    BY <1>3 DEF LockDownstream, Timers
  <2>2. QED
    BY <1>1, <2>1, ArmIdles, IdlesProceeds
<1>4. QED
  BY <1>2, <1>3

LEMMA OnSyncProceeds ==
    ASSUME NEW m \in Modems, Orderly(m), Listening(m), NEW n, n = OnSync(m)
    PROVE  Proceeds(m, n) /\ Listening(n) /\ (NoTurn(m) => NoTurn(n))
           /\ (n.state = m.state \/ m.state \in Early)
<1>1. /\ n.state = IF m.state = "sync-wait" THEN "ucd-wait" ELSE m.state
      /\ n.registered = m.registered /\ n.ucd = m.ucd /\ n.uccTarget = m.uccTarget
      /\ n.queue = m.queue /\ n.bursts = m.bursts
  <2>1. CASE m.state = "sync-wait"
    BY <2>1 DEF OnSync, Arm, Modems
  <2>2. CASE m.state # "sync-wait"
    BY <2>2 DEF OnSync, Arm, Modems
  <2>3. QED
    BY <2>1, <2>2
<1>2. FramesKept(m, n)
  BY <1>1, SameIdles
<1>3. CASE m.state = "sync-wait"
  <2>1. NoTurn(m) /\ ~m.registered
    BY <1>3, NoTurnHere DEF Orderly, RangingStates
  <2>2. Orderly(n) /\ Listening(n)
    <3>1. n.state = "ucd-wait" /\ Listening(n)
      BY <1>1, <1>3 DEF Listening
    <3>2. QED
      BY <1>1, <1>2, <2>1, <3>1, OrderlyAt DEF Early
  <2>3. StageOf(n.state) = StageOf(m.state)
    BY <1>1, <1>3, StageIs
  <2>4. QED
    BY <1>1, <1>2, <1>3, <2>2, <2>3, KeptNoTurn
       DEF Proceeds, Climbs, KeepsUpstream, Early
<1>4. CASE m.state # "sync-wait"
  <2>1. Idles(m, n)
    BY <1>1, <1>2, <1>4 DEF Idles
  <2>2. QED
    BY <1>1, <1>4, <2>1, IdlesProceeds
<1>5. QED
  BY <1>3, <1>4

LEMMA OnUcdProceeds ==
    ASSUME NEW m \in Modems, Orderly(m), Listening(m), NEW u \in Ucds, NEW n, n = OnUcd(m, u)
    PROVE  Proceeds(m, n) /\ Listening(n) /\ (NoTurn(m) => NoTurn(n))
           /\ (n.state = m.state \/ m.state \in Early)
<1>1. CASE n = m
  BY <1>1, SameIdles, IdlesProceeds DEF SameBasics
<1>2. CASE n # m
  <2>1. Wanted(m, u)
    BY <1>2 DEF OnUcd
  <2>2. /\ n.state = IF m.state = "ucd-wait" THEN "ranging-wait" ELSE m.state
        /\ n.registered = m.registered /\ n.ucd = u
        /\ n.queue = m.queue /\ n.bursts = m.bursts
    <3>1. CASE m.state = "ucd-wait"
      BY <1>2, <3>1 DEF OnUcd, Arm, Disarm, Modems
    <3>2. CASE m.state # "ucd-wait"
      BY <1>2, <3>2 DEF OnUcd, Arm, Disarm, Modems
    <3>3. QED
      BY <3>1, <3>2
  <2>3. u.ch # NoChannel /\ u # NoUcd
    <3>1. u.ch # NoChannel
      BY ModemAssumption DEF Ucds
    <3>2. NoUcd.ch = NoChannel
      BY DEF NoUcd
    <3>3. QED
      BY <3>1, <3>2
  <2>4. FramesKept(m, n) /\ Listening(n)
    BY <2>2, SameIdles DEF Listening
  <2>5. KeepsUpstream(m, n)
    <3> SUFFICES ASSUME m.state = "operational", u.ch # m.ucd.ch, m.uccTarget = NoChannel
                 PROVE  FALSE
      BY <2>2 DEF KeepsUpstream
    <3>1. m.ucd # NoUcd
      BY DEF Orderly, Early
    <3>2. QED
      BY <2>1, <2>3, <3>1 DEF Wanted
  <2>6. CASE m.state = "ucd-wait"
    <3>1. NoTurn(m) /\ ~m.registered
      BY <2>6, NoTurnHere DEF Orderly, RangingStates
    <3>2. Orderly(n)
      <4>1. n.state = "ranging-wait"
        BY <2>2, <2>6
      <4>2. QED
        BY <2>2, <2>4, <3>1, <4>1, OrderlyAt DEF Early
    <3>3. StageOf(m.state) = "searching" /\ StageOf(n.state) = "ranging"
      BY <2>2, <2>6, StageIs DEF RangingStates
    <3>4. QED
      BY <2>2, <2>4, <2>5, <2>6, <3>2, <3>3, KeptNoTurn DEF Proceeds, Climbs, Early
  <2>7. CASE m.state # "ucd-wait"
    <3>1. n.state = m.state
      BY <2>2, <2>7
    <3>2. Orderly(n)
      <4>1. n.registered => n.state \in RangingStates \union {"operational"}
        BY <2>2, <3>1 DEF Orderly
      <4>2. n.state = "operational" => n.registered
        BY <2>2, <3>1 DEF Orderly
      <4>3. QED
        BY <2>2, <2>3, <2>4, <3>1, <4>1, <4>2, OrderlyAt
    <3>3. QED
      BY <2>2, <2>4, <2>5, <3>1, <3>2, KeptNoTurn DEF Proceeds, Climbs
  <2>8. QED
    BY <2>6, <2>7
<1>3. QED
  BY <1>1, <1>2

-----------------------------------------------------------------------------
(* A modem that is being provisioned.                                       *)
Provisioned(m) ==
    /\ m \in Modems /\ Orderly(m) /\ Listening(m)
    /\ m.state \in InService \ {"operational"}

LEMMA BothProvisioned ==
    ASSUME NEW m, Provisioned(m), NEW n, Provisioned(n)
    PROVE  Proceeds(m, n) /\ Listening(n)
<1>1. StageOf(m.state) = "provisioning" /\ StageOf(n.state) = "provisioning"
  BY StageIs DEF Provisioned
<1>2. ~m.registered /\ ~n.registered
  BY DEF Provisioned, Orderly, RangingStates, InService
<1>3. m.registered \in BOOLEAN /\ n.registered \in BOOLEAN
  BY DEF Provisioned, Modems
<1>4. QED
  BY <1>1, <1>2, <1>3 DEF Provisioned, Proceeds, Climbs, KeepsUpstream

LEMMA ProvisionedIdles ==
    ASSUME NEW m, Provisioned(m), NEW n \in Modems, Idles(m, n)
    PROVE  Provisioned(n) /\ n.state = m.state /\ (NoTurn(m) => NoTurn(n))
<1>1. n.state = m.state
  BY DEF Provisioned, Idles, RangingStates, InService
<1>2. QED
  BY <1>1, IdlesProceeds DEF Provisioned, Proceeds

LEMMA ProvisionedEnters ==
    ASSUME NEW m, Provisioned(m), NoTurn(m), NEW n \in Modems,
           n.queue = m.queue, n.bursts = m.bursts, n.ucd = m.ucd,
           n.registered = m.registered, n.state \in InService \ {"operational"}
    PROVE  Provisioned(n) /\ NoTurn(n)
<1>1. FramesKept(m, n) /\ Listening(n)
  BY SameIdles DEF Listening, InService
<1>2. ~m.registered
  BY DEF Provisioned, Orderly, RangingStates, InService
<1>3. n.ucd # NoUcd
  BY DEF Provisioned, Orderly, Early, InService
<1>4. Orderly(m) /\ Listening(m)
  BY DEF Provisioned
<1>5. Orderly(n)
  BY <1>1, <1>2, <1>3, <1>4, OrderlyAt
<1>6. QED
  BY <1>1, <1>5, KeptNoTurn DEF Provisioned

LEMMA ProvisionedTurn ==
    ASSUME NEW m, Provisioned(m), NoTurn(m), NEW kind \in Turns, StateAt(kind) = m.state,
           NEW n, n = Enqueue(m, kind)
    PROVE  Provisioned(n)
BY TurnTaken DEF Provisioned

(* The state, the frame and the timer of the next step of provisioning.     *)
LEMMA ProvisionedStep ==
    ASSUME NEW m, Provisioned(m), NoTurn(m),
           NEW state \in InService \ {"operational"},
           NEW kind \in FrameKinds, kind \in Turns => StateAt(kind) = state,
           NEW timer \in Timers,
           NEW n, n = Arm(Enqueue([m EXCEPT !.state = state], kind), timer)
    PROVE  Provisioned(n)
<1>1. PICK x : x = [m EXCEPT !.state = state]
  OBVIOUS
<1>2. PICK y : y = Enqueue(x, kind)
  OBVIOUS
<1>3. n = Arm(y, timer)
  BY <1>1, <1>2
<1>4. state \in States /\ m \in Modems
  BY DEF States, InService, Provisioned
<1>5. /\ x \in Modems /\ x.state = state
      /\ SameBasics(m, x) /\ SameUpstream(m, x)
  BY <1>1, <1>4, StateFields
<1>6. Provisioned(x) /\ NoTurn(x)
  BY <1>5, ProvisionedEnters DEF SameBasics, SameUpstream
<1>7. Provisioned(y)
  <2>1. CASE kind \in Turns
    BY <1>2, <1>5, <1>6, <2>1, ProvisionedTurn
  <2>2. CASE kind \notin Turns
    <3>1. Idles(x, y) /\ y \in Modems
      BY <1>2, <1>5, <2>2, EnqueueIdles, EnqueueFields
    <3>2. QED
      BY <1>6, <3>1, ProvisionedIdles
  <2>3. QED
    BY <2>1, <2>2
<1>8. y \in Modems
  BY <1>7 DEF Provisioned
<1>9. Idles(y, n) /\ n \in Modems
  BY <1>3, <1>8, ArmIdles, ArmFields
<1>10. QED
  BY <1>7, <1>9, ProvisionedIdles

LEMMA StartTftpProvisions ==
    ASSUME NEW m, Provisioned(m), NoTurn(m), NEW n, n = StartTftp(m)
    PROVE  Provisioned(n)
<1>1. CASE n = m
  BY <1>1
<1>2. CASE n # m
  <2>1. PICK x : x = [m EXCEPT !.loaded = FALSE]
    OBVIOUS
  <2>2. /\ x \in Modems /\ x.state = m.state /\ x.registered = m.registered /\ x.ucd = m.ucd
        /\ x.queue = m.queue /\ x.bursts = m.bursts
    BY <2>1 DEF Provisioned, Modems
  <2>3. Provisioned(x) /\ NoTurn(x)
    BY <2>2, ProvisionedEnters DEF Provisioned
  <2>4. n = Arm(Enqueue([x EXCEPT !.state = "tftp-config"], "RRQ"), "tftp")
    <3>1. [m EXCEPT !.state = "tftp-config", !.loaded = FALSE]
             = [x EXCEPT !.state = "tftp-config"]
      BY <2>1 DEF Provisioned, Modems
    <3>2. QED
      BY <1>2, <3>1 DEF StartTftp
  <2>5. /\ "RRQ" \in FrameKinds /\ "tftp" \in Timers
        /\ "tftp-config" \in InService \ {"operational"}
    BY DEF FrameKinds, Timers, InService
  <2>6. StateAt("RRQ") = "tftp-config"
    BY DEF StateAt
  <2>7. QED
    BY <2>3, <2>4, <2>5, <2>6, ProvisionedStep
<1>3. QED
  BY <1>1, <1>2

LEMMA OnOfferProvisions ==
    ASSUME NEW m, Provisioned(m), NoTurn(m), m.state = "dhcp", NEW n, n = OnOffer(m)
    PROVE  Provisioned(n)
<1>1. "REQUEST" \in Turns /\ StateAt("REQUEST") = "dhcp"
  BY DEF Turns, Provisioning, Answered, StateAt
<1>2. QED
  BY <1>1, ProvisionedTurn DEF OnOffer

LEMMA OnDhcpAckProvisions ==
    ASSUME NEW m, Provisioned(m), NoTurn(m), NEW n, n = OnDhcpAck(m)
    PROVE  Provisioned(n)
<1>1. PICK bound : bound = [m EXCEPT !.address = TRUE]
  OBVIOUS
<1>2. /\ bound \in Modems /\ bound.state = m.state /\ bound.registered = m.registered
      /\ bound.ucd = m.ucd /\ bound.queue = m.queue /\ bound.bursts = m.bursts
  BY <1>1 DEF Provisioned, Modems
<1>3. Provisioned(bound) /\ NoTurn(bound)
  BY <1>2, ProvisionedEnters DEF Provisioned
<1>4. CASE TimeServer
  <2>1. n = Arm(Enqueue([bound EXCEPT !.state = "time-of-day"], "TOD"), "tod")
    BY <1>1, <1>4 DEF OnDhcpAck, StartTod
  <2>2. /\ "TOD" \in FrameKinds /\ "TOD" \notin Turns /\ "tod" \in Timers
        /\ "time-of-day" \in InService \ {"operational"}
    BY DEF FrameKinds, Turns, Timers, InService
  <2>3. QED
    BY <1>3, <2>1, <2>2, ProvisionedStep
<1>5. CASE ~TimeServer
  <2>1. n = StartTftp(bound)
    BY <1>1, <1>5 DEF OnDhcpAck
  <2>2. QED
    BY <1>3, <2>1, StartTftpProvisions
<1>6. QED
  BY <1>4, <1>5

(* Registration starts, with the timer of an earlier one running or not.    *)
LEMMA RegisterProvisions ==
    ASSUME NEW m, Provisioned(m), NoTurn(m), NEW n, n = Register(m)
    PROVE  Provisioned(n)
<1>1. PICK asked : asked = Arm(Enqueue([m EXCEPT !.state = "registering"], "REG-REQ"), "T6")
  OBVIOUS
<1>2. /\ "REG-REQ" \in FrameKinds /\ {"T6", "lost-T6"} \subseteq Timers
      /\ "registering" \in InService \ {"operational"}
  BY DEF FrameKinds, Timers, MacTimers, InService
<1>3. StateAt("REG-REQ") = "registering"
  BY DEF StateAt
<1>4. Provisioned(asked)
  BY <1>1, <1>2, <1>3, ProvisionedStep
<1>5. n = asked \/ n = Arm(asked, "lost-T6")
  BY <1>1 DEF Register
<1>6. asked \in Modems
  BY <1>4 DEF Provisioned
<1>7. Idles(asked, Arm(asked, "lost-T6")) /\ Arm(asked, "lost-T6") \in Modems
  BY <1>2, <1>6, ArmIdles, ArmFields
<1>8. QED
  BY <1>4, <1>5, <1>7, ProvisionedIdles

LEMMA OnTftpDataProceeds ==
    ASSUME NEW m, Provisioned(m), NoTurn(m), m.state = "tftp-config",
           NEW block \in {"next", "last", "other"}, NEW micOk \in BOOLEAN,
           NEW n, n = OnTftpData(m, block, micOk)
    PROVE  Provisioned(n) \/ (Proceeds(m, n) /\ ~Listening(n))
<1>1. {"STACK", "LAST-ACK"} \subseteq FrameKinds \ Turns
  BY DEF FrameKinds, Turns, Provisioning, Answered
<1>2. "ACK" \in Turns /\ StateAt("ACK") = "tftp-config"
  BY DEF Turns, Provisioning, Answered, StateAt
<1>3. m \in Modems
  BY DEF Provisioned
<1>4. CASE n = Enqueue(m, "STACK")
  <2>1. Idles(m, n) /\ n \in Modems
    BY <1>1, <1>3, <1>4, EnqueueIdles, EnqueueFields
  <2>2. QED
    BY <2>1, ProvisionedIdles
<1>5. CASE n = Enqueue(m, "ACK")
  BY <1>2, <1>5, ProvisionedTurn
<1>6. CASE block = "last" /\ ~m.loaded
  <2>1. PICK loaded : loaded = [m EXCEPT !.loaded = TRUE]
    OBVIOUS
  <2>2. PICK whole : whole = Enqueue(loaded, "LAST-ACK")
    OBVIOUS
  <2>3. n = IF micOk THEN Register(whole) ELSE Reinitialize(whole)
    BY <1>6, <2>1, <2>2 DEF OnTftpData
  <2>4. /\ loaded \in Modems /\ loaded.state = m.state /\ loaded.registered = m.registered
        /\ loaded.ucd = m.ucd /\ loaded.queue = m.queue /\ loaded.bursts = m.bursts
    BY <1>3, <2>1 DEF Modems
  <2>5. Provisioned(loaded) /\ NoTurn(loaded)
    BY <2>4, ProvisionedEnters DEF Provisioned
  <2>6. Idles(loaded, whole) /\ whole \in Modems
    BY <1>1, <2>2, <2>4, EnqueueIdles, EnqueueFields
  <2>7. Provisioned(whole) /\ NoTurn(whole)
    BY <2>5, <2>6, ProvisionedIdles
  <2>8. CASE micOk
    BY <2>3, <2>7, <2>8, RegisterProvisions
  <2>9. CASE ~micOk
    <3>1. n = Reinitialize(whole)
      BY <2>3, <2>9
    <3>2. Orderly(n) /\ ~Listening(n) /\ n.state = "ds-scan" /\ ~n.registered
      BY <2>6, <3>1, ReinitializeProceeds, ReinitializeFields DEF Proceeds
    <3>3. StageOf(n.state) = "down"
      BY <3>2, StageIs
    <3>4. QED
      BY <3>2, <3>3 DEF Proceeds, Climbs, KeepsUpstream
  <2>10. QED
    BY <2>8, <2>9
<1>7. QED
  BY <1>4, <1>5, <1>6 DEF OnTftpData

LEMMA OnRegRspProceeds ==
    ASSUME NEW m, Provisioned(m), NoTurn(m), m.state = "registering", NEW ok \in BOOLEAN,
           NEW n, n = OnRegRsp(m, ok)
    PROVE  Proceeds(m, n) /\ Listening(n)
<1>1. m \in Modems /\ "T6" \in Timers
  BY DEF Provisioned, Timers, MacTimers
<1>2. CASE ok
  <2>1. PICK stopped : stopped = Disarm(m, "T6")
    OBVIOUS
  <2>2. Idles(m, stopped) /\ stopped \in Modems
    BY <1>1, <2>1, ArmIdles, DisarmFields
  <2>3. Provisioned(stopped) /\ NoTurn(stopped) /\ stopped.state = "registering"
    BY <2>2, ProvisionedIdles
  <2>4. "REG-ACK" \in Turns /\ StateAt("REG-ACK") = "registering"
    BY DEF Turns, Provisioning, Answered, StateAt
  <2>5. Provisioned(n)
    BY <1>2, <2>1, <2>3, <2>4, ProvisionedTurn DEF OnRegRsp
  <2>6. QED
    BY <2>5, BothProvisioned
<1>3. CASE ~ok
  <2>1. /\ n.state = "rejected" /\ n.registered = m.registered /\ n.ucd = m.ucd
        /\ n.queue = m.queue /\ n.bursts = m.bursts
    BY <1>1, <1>3 DEF OnRegRsp, Disarm, Modems
  <2>2. FramesKept(m, n) /\ Listening(n)
    BY <2>1, SameIdles DEF Listening
  <2>3. ~m.registered /\ m.ucd # NoUcd /\ Orderly(m) /\ Listening(m)
    BY DEF Provisioned, Orderly, RangingStates, InService, Early
  <2>4. Orderly(n)
    BY <2>1, <2>2, <2>3, OrderlyAt
  <2>5. StageOf(m.state) = "provisioning" /\ StageOf(n.state) = "rejected"
    BY <2>1, StageIs DEF Provisioned
  <2>6. QED
    BY <2>1, <2>2, <2>4, <2>5 DEF Proceeds, Climbs, KeepsUpstream
<1>4. QED
  BY <1>2, <1>3

(* An answer that is not the modem's turn, and a time that is late.         *)
LEMMA OnTodProceeds ==
    ASSUME NEW m \in Modems, Orderly(m), Listening(m), NEW n,
           n = OnTod(m) \/ n = TodTimeout(m)
    PROVE  Proceeds(m, n) /\ Listening(n) /\ (n = m \/ Idles(m, n) \/ m.state = "time-of-day")
<1>1. "tod" \in Timers
  BY DEF Timers
<1>2. Idles(m, m) /\ Idles(m, Disarm(m, "tod")) /\ Disarm(m, "tod") \in Modems
  BY <1>1, ArmIdles, SameIdles, DisarmFields DEF SameBasics
<1>3. CASE m.state # "time-of-day"
  <2>1. Idles(m, n)
    BY <1>2, <1>3 DEF OnTod, TodTimeout
  <2>2. QED
    BY <2>1, IdlesProceeds
<1>4. CASE m.state = "time-of-day"
  <2>1. Provisioned(m) /\ NoTurn(m)
    BY <1>4, NoTurnHere DEF Provisioned, InService
  <2>2. Provisioned(Disarm(m, "tod")) /\ NoTurn(Disarm(m, "tod"))
    BY <1>2, <2>1, ProvisionedIdles
  <2>3. n = StartTftp(m) \/ n = StartTftp(Disarm(m, "tod"))
    BY <1>4 DEF OnTod, TodTimeout
  <2>4. Provisioned(n)
    BY <2>1, <2>2, <2>3, StartTftpProvisions
  <2>5. QED
    BY <1>4, <2>1, <2>4, BothProvisioned
<1>5. QED
  BY <1>3, <1>4

-----------------------------------------------------------------------------
(* The frames of an old DHCP attempt are no turn any more.                  *)
LEMMA SupersededItems ==
    ASSUME NEW frames \in Seq(Frames)
    PROVE  /\ Superseded(frames) \in Seq(Frames)
           /\ Items(Superseded(frames)) \subseteq Items(frames) \union Plain
<1>1. PICK stack : stack = <<"STACK", NoChannel>>
  OBVIOUS
<1>2. stack \in Frames /\ stack \in Plain
  BY <1>1, FrameSets DEF Plain, FrameKinds, Turns, Provisioning, Answered
<1>3. PICK s : s = Superseded(frames)
  OBVIOUS
<1>4. s \in Seq(Frames)
  BY <1>1, <1>2, <1>3, SupersededIn
<1>5. DOMAIN s = DOMAIN frames /\ \A i \in DOMAIN frames : s[i] \in {stack, frames[i]}
  BY <1>1, <1>3 DEF Superseded
<1>6. Items(s) \subseteq Items(frames) \union Plain
  BY <1>2, <1>5 DEF Items
<1>7. QED
  BY <1>3, <1>4, <1>6

(* A modem that has ranged for the first time starts to be provisioned.     *)
LEMMA StartDhcpProvisions ==
    ASSUME NEW m \in Modems, Orderly(m), Listening(m), ~m.registered, m.ucd # NoUcd,
           NoTurn(m), NEW n, n = StartDhcp(m)
    PROVE  Provisioned(n) /\ n.state = "dhcp"
<1>1. PICK queue : queue = Superseded(m.queue)
  OBVIOUS
<1>2. PICK bursts : bursts = [i \in DOMAIN m.bursts |-> Withdrawn(m.bursts[i])]
  OBVIOUS
<1>3. PICK x : x = [m EXCEPT !.state = "dhcp", !.queue = queue, !.bursts = bursts]
  OBVIOUS
<1>4. n = Enqueue(x, "DISCOVER")
  BY <1>1, <1>2, <1>3 DEF StartDhcp
<1>5. m.queue \in Seq(Frames) /\ m.bursts \in Seq(Bursts)
  BY DEF Modems
<1>6. queue \in Seq(Frames) /\ Items(queue) \subseteq Items(m.queue) \union Plain
  BY <1>1, <1>5, SupersededItems
<1>7. ASSUME NEW i \in DOMAIN m.bursts
      PROVE  /\ bursts[i] \in Bursts
             /\ Items(bursts[i].frames) \subseteq Items(m.bursts[i].frames) \union Plain
  <2>1. PICK b : b = m.bursts[i]
    OBVIOUS
  <2>2. b \in Bursts
    BY <1>5, <2>1
  <2>3. PICK frames : frames = Superseded(b.frames)
    OBVIOUS
  <2>4. frames \in Seq(Frames) /\ Items(frames) \subseteq Items(b.frames) \union Plain
    BY <2>2, <2>3, SupersededItems DEF Bursts
  <2>5. bursts[i] = [b EXCEPT !.frames = frames]
    BY <1>2, <2>1, <2>3 DEF Withdrawn
  <2>6. bursts[i] \in Bursts /\ bursts[i].frames = frames
    BY <2>2, <2>4, <2>5 DEF Bursts
  <2>7. QED
    BY <2>1, <2>4, <2>6
<1>8. DOMAIN bursts = DOMAIN m.bursts
  BY <1>2
<1>9. bursts \in Seq(Bursts)
  <2>1. PICK k \in Nat : DOMAIN m.bursts = 1 .. k
    BY <1>5, SeqDef
  <2>2. bursts \in [1 .. k -> Bursts]
    BY <1>2, <1>7, <2>1
  <2>3. QED
    BY <2>2, SeqDef
<1>10. Aloft(bursts) \subseteq Aloft(m.bursts) \union Plain
  BY <1>7, <1>8 DEF Aloft
<1>11. /\ x \in Modems /\ x.state = "dhcp" /\ x.registered = m.registered /\ x.ucd = m.ucd
       /\ x.queue = queue /\ x.bursts = bursts
  <2>1. "dhcp" \in States
    BY DEF States
  <2>2. QED
    BY <1>3, <1>6, <1>9, <2>1 DEF Modems
<1>12. Held(x) \subseteq Held(m) \union Plain
  BY <1>6, <1>10, <1>11 DEF Held
<1>13. NoTurn(x)
  <2>1. \A f \in Held(x) : f[1] \notin Turns
    BY <1>12, NoTurnHeld DEF Plain
  <2>2. QED
    BY <2>1, NoTurnHeld
<1>14. FramesKept(m, x)
  BY <1>12, <1>13, NoTurnOne DEF FramesKept
<1>15. Orderly(x) /\ Listening(x)
  BY <1>11, <1>14, OrderlyAt DEF Listening
<1>16. Provisioned(x)
  BY <1>11, <1>15 DEF Provisioned, InService
<1>17. "DISCOVER" \in Turns /\ StateAt("DISCOVER") = "dhcp"
  BY DEF Turns, Provisioning, Answered, StateAt
<1>18. Provisioned(n) /\ n.state = "dhcp"
  BY <1>4, <1>11, <1>13, <1>15, <1>16, <1>17, ProvisionedTurn, TurnTaken
<1>19. QED
  BY <1>18

LEMMA OnRngRspProceeds ==
    ASSUME NEW m \in Modems, Orderly(m), Listening(m), NEW status \in {"continue", "success"},
           NEW sid \in Sids, NEW n, n = OnRngRsp(m, status, sid)
    PROVE  Proceeds(m, n) /\ Listening(n) /\ (Idles(m, n) \/ (Ranging(m) /\ status = "success"))
<1>1. PICK heard : heard = HearRngRsp(m, sid)
  OBVIOUS
<1>2. PICK level : level = [heard EXCEPT !.retries = 0]
  OBVIOUS
<1>3. /\ heard \in Modems /\ heard.state = m.state /\ heard.registered = m.registered
      /\ heard.ucd = m.ucd /\ heard.uccTarget = m.uccTarget
      /\ heard.queue = m.queue /\ heard.bursts = m.bursts
  BY <1>1 DEF HearRngRsp, Disarm, Modems
<1>4. /\ level \in Modems /\ level.state = m.state /\ level.registered = m.registered
      /\ level.ucd = m.ucd /\ level.uccTarget = m.uccTarget
      /\ level.queue = m.queue /\ level.bursts = m.bursts
  <2>1. 0 \in 0 .. (MaxRetries - 1)
    BY ModemAssumption
  <2>2. QED
    BY <1>2, <1>3, <2>1 DEF Modems
<1>5. Idles(m, heard) /\ Idles(m, level)
  BY <1>3, <1>4, SameIdles DEF Idles
<1>6. CASE status = "continue"
  <2>1. n = [heard EXCEPT !.state = IF Ranging(heard) THEN "ranging-station" ELSE @]
    BY <1>1, <1>6 DEF OnRngRsp, KeepRanging
  <2>2. /\ n.state = IF Ranging(m) THEN "ranging-station" ELSE m.state
        /\ n.registered = m.registered /\ n.ucd = m.ucd /\ n.uccTarget = m.uccTarget
        /\ n.queue = m.queue /\ n.bursts = m.bursts
    BY <1>3, <2>1 DEF Ranging, Modems
  <2>3. Ranging(m) => m.ucd # NoUcd /\ m.state \in RangingStates
    BY DEF Orderly, Ranging, RangingStates, Early
  <2>4. Idles(m, n)
    BY <2>2, <2>3, SameIdles DEF Idles, RangingStates
  <2>5. QED
    BY <2>4, IdlesProceeds
<1>7. CASE status = "success" /\ ~Ranging(m)
  <2>1. n = level
    BY <1>1, <1>2, <1>7 DEF OnRngRsp
  <2>2. QED
    BY <1>5, <2>1, IdlesProceeds
<1>8. CASE status = "success" /\ Ranging(m)
  <2>1. n = RangingComplete(level)
    BY <1>1, <1>2, <1>8 DEF OnRngRsp
  <2>2. PICK ranged : ranged = Arm(level, "T4")
    OBVIOUS
  <2>3. Idles(level, ranged) /\ ranged \in Modems /\ ranged.state = m.state
    BY <1>4, <2>2, ArmIdles, ArmFields DEF Timers, MacTimers
  <2>4. Idles(m, ranged)
    BY <1>5, <2>3, IdlesTransitive
  <2>5. /\ Orderly(ranged) /\ Listening(ranged) /\ ranged.ucd = m.ucd
        /\ ranged.registered = m.registered
    BY <2>4, IdlesProceeds DEF Proceeds, Idles
  <2>6. m.ucd # NoUcd /\ m.state \in RangingStates
    BY <1>8 DEF Orderly, Ranging, RangingStates, Early
  <2>7. NoTurn(ranged)
    BY <2>3, <2>5, <2>6, NoTurnHere DEF RangingStates
  <2>8. StageOf(m.state) = "ranging"
    BY <2>6, StageIs
  <2>9. m.state # "operational"
    BY <2>6 DEF RangingStates
  <2>10. CASE m.registered
    <3>1. n = [ranged EXCEPT !.state = "operational"]
      BY <1>4, <2>1, <2>2, <2>10 DEF RangingComplete
    <3>2. /\ n.state = "operational" /\ n.registered = m.registered /\ n.ucd = m.ucd
          /\ n.queue = ranged.queue /\ n.bursts = ranged.bursts
      BY <2>3, <2>5, <3>1 DEF Modems
    <3>3. FramesKept(ranged, n) /\ Listening(n)
      BY <3>2, SameIdles DEF Listening
    <3>4. Orderly(n)
      BY <2>5, <2>6, <2>7, <2>10, <3>2, <3>3, OrderlyAt
    <3>5. StageOf(n.state) = "online"
      BY <3>2, StageIs
    <3>6. QED
      BY <1>8, <2>8, <2>9, <2>10, <3>2, <3>3, <3>4, <3>5 DEF Proceeds, Climbs, KeepsUpstream
  <2>11. CASE ~m.registered
    <3>1. n = StartDhcp(ranged)
      BY <1>4, <2>1, <2>2, <2>11 DEF RangingComplete
    <3>2. Provisioned(n) /\ n.state = "dhcp"
      BY <2>3, <2>5, <2>6, <2>7, <2>11, <3>1, StartDhcpProvisions
    <3>3. ~n.registered /\ n.registered \in BOOLEAN /\ m.registered \in BOOLEAN
      BY <3>2 DEF Provisioned, Orderly, RangingStates, Modems
    <3>4. StageOf(n.state) = "provisioning"
      BY <3>2, StageIs DEF Provisioned
    <3>5. QED
      BY <1>8, <2>8, <2>9, <2>11, <3>2, <3>3, <3>4
         DEF Proceeds, Climbs, KeepsUpstream, Provisioned
  <2>12. QED
    BY <2>10, <2>11
<1>9. QED
  BY <1>6, <1>7, <1>8

-----------------------------------------------------------------------------
(* A modem goes its way, and one that has its turn, or waits for it, stays. *)
Continues(m, n) ==
    /\ Proceeds(m, n)
    /\ Listening(n) =>
          /\ Listening(m)
          /\ m.state \in {"dhcp", "tftp-config", "registering"}
                => n.state = m.state /\ (NoTurn(m) => NoTurn(n))

LEMMA IdlesContinues ==
    ASSUME NEW m, Orderly(m), NEW n, Idles(m, n)
    PROVE  Continues(m, n)
BY IdlesProceeds DEF Continues, RangingStates

LEMMA ReinitializeContinues ==
    ASSUME NEW l, NEW m \in Modems, NEW n, n = Reinitialize(m)
    PROVE  Continues(l, n)
<1>1. n.state = "ds-scan" /\ ~n.registered /\ Orderly(n) /\ ~Listening(n)
  BY ReinitializeFields, ReinitializeProceeds DEF Proceeds
<1>2. StageOf(n.state) = "down"
  BY <1>1, StageIs
<1>3. Proceeds(l, n)
  BY <1>1, <1>2 DEF Proceeds, Climbs, KeepsUpstream
<1>4. QED
  BY <1>1, <1>3 DEF Continues

(* A timer that is started as well makes no difference.                     *)
LEMMA ArmContinues ==
    ASSUME NEW l, NEW m \in Modems, Continues(l, m), NEW timer \in Timers,
           NEW n, n = Arm(m, timer)
    PROVE  Continues(l, n)
<1>1. /\ n.state = m.state /\ SameBasics(m, n)
      /\ n.queue = m.queue /\ n.bursts = m.bursts
  BY ArmFields DEF SameUpstream
<1>2. Orderly(n) /\ (NoTurn(m) => NoTurn(n)) /\ Listening(n) = Listening(m)
  BY <1>1, SameIdles, IdlesProceeds DEF Continues, Proceeds
<1>3. QED
  BY <1>1, <1>2 DEF Continues, Proceeds, KeepsUpstream, SameBasics

LEMMA HostFrameContinues ==
    ASSUME NEW m \in Modems, Orderly(m), NEW n, (n = FromLan(m)) \/ (n = AnswerHost(m))
    PROVE  Continues(m, n)
<1>1. {"CPE", "STACK"} \subseteq FrameKinds \ Turns
  BY DEF FrameKinds, Turns, Provisioning, Answered
<1>2. CASE n = m
  BY <1>2, SameIdles, IdlesContinues DEF SameBasics
<1>3. CASE n # m
  <2>1. n = Enqueue(m, "CPE") \/ n = Enqueue(m, "STACK")
    BY <1>3 DEF FromLan, AnswerHost
  <2>2. Idles(m, n)
    BY <1>1, <2>1, EnqueueIdles
  <2>3. QED
    BY <2>2, IdlesContinues
<1>4. QED
  BY <1>2, <1>3

(* A modem in service is asked to move.                                     *)
LEMMA OnUccReqContinues ==
    ASSUME NEW m \in Modems, Orderly(m), m.state = "operational", NEW ch \in Channels,
           NEW n, n = OnUccReq(m, ch)
    PROVE  Continues(m, n)
<1>1. PICK f : f = <<"UCC-RSP", IF m.ucd.ch = ch THEN NoChannel ELSE ch>>
  OBVIOUS
<1>2. PICK q : q = Queued(m, f)
  OBVIOUS
<1>3. n = q \/ n = [q EXCEPT !.uccTarget = ch]
  BY <1>1, <1>2 DEF OnUccReq, Enqueue
<1>4. f \in Frames /\ f[1] \notin Turns
  BY <1>1 DEF Frames, FrameKinds, Turns, Provisioning, Answered
<1>5. /\ q \in Modems /\ q.state = m.state /\ SameBasics(m, q)
      /\ q.queue = Append(m.queue, f) /\ q.bursts = m.bursts
  BY <1>2, <1>4, QueuedFields
<1>6. /\ n.state = "operational" /\ n.registered = m.registered /\ n.ucd = m.ucd
      /\ n.queue = Append(m.queue, f) /\ n.bursts = m.bursts
  BY <1>3, <1>5 DEF SameBasics, Modems
<1>7. Listening(m) /\ Listening(n) /\ m.registered /\ m.ucd # NoUcd
  BY <1>6 DEF Listening, Orderly, Early
<1>8. NoTurn(m)
  BY <1>7, NoTurnHere
<1>9. NoTurn(n)
  <2>1. HasTurn(n.queue) => HasTurn(m.queue)
    <3>1. m.queue \in Seq(Frames)
      BY DEF Modems
    <3>2. QED
      BY <1>4, <1>6, <3>1, TurnAppend
  <2>2. QED
    BY <1>6, <1>8, <2>1 DEF NoTurn
<1>10. Orderly(n)
  <2>1. OneTurn(n) /\ \A g \in Held(n) : g[1] \notin Turns
    BY <1>9, NoTurnOne, NoTurnHeld
  <2>2. QED
    BY <1>6, <1>7, <2>1 DEF Orderly
<1>11. QED
  BY <1>6, <1>7, <1>10 DEF Continues, Proceeds, Climbs, KeepsUpstream

LEMMA T3ExpiredContinues ==
    ASSUME NEW m, GoodModem(m), Orderly(m), "T3" \in m.timers, NEW n, n = T3Expired(m)
    PROVE  Continues(m, n) /\ n \in Modems
<1>1. "T3" \in Timers /\ m \in Modems
  BY DEF GoodModem, Timers, MacTimers
<1>2. PICK missed : missed = Disarm(m, "T3")
  OBVIOUS
<1>3. Idles(m, missed) /\ missed \in Modems /\ missed.state = m.state
      /\ SameBasics(m, missed) /\ SameUpstream(m, missed)
  BY <1>1, <1>2, ArmIdles, DisarmFields
<1>4. CASE n = missed
  BY <1>3, <1>4, IdlesContinues
<1>5. CASE n = Reinitialize(m)
  BY <1>1, <1>5, ReinitializeContinues, ReinitializeFields
<1>6. CASE m.state \notin InService /\ m.retries + 1 < MaxRetries
  <2>1. n = [missed EXCEPT !.retries = @ + 1, !.state = "ranging-wait"]
    <3>1. ~(m.retries + 1 >= MaxRetries)
      BY <1>6, ModemAssumption DEF GoodModem, Modems
    <3>2. QED
      BY <1>2, <1>6, <3>1 DEF T3Expired
  <2>2. m.retries + 1 \in 0 .. (MaxRetries - 1) /\ "ranging-wait" \in States
    BY <1>1, <1>6, ModemAssumption DEF Modems, States
  <2>3. PICK k : k = m.retries + 1
    OBVIOUS
  <2>4. n = [missed EXCEPT !.retries = k, !.state = "ranging-wait"]
    BY <1>3, <2>1, <2>3 DEF SameBasics, Modems
  <2>5. /\ n \in Modems /\ n.state = "ranging-wait" /\ n.registered = m.registered
        /\ n.ucd = m.ucd /\ n.uccTarget = m.uccTarget
        /\ n.queue = m.queue /\ n.bursts = m.bursts
    BY <1>3, <2>2, <2>3, <2>4 DEF Modems, SameBasics, SameUpstream
  <2>6. m.state \in RangingStates \union {"rejected"} /\ Listening(m)
    BY <1>1, <1>6 DEF GoodModem, Modems, States, Off, Early, InService, RangingStates, Listening
  <2>7. FramesKept(m, n)
    BY <2>5, SameIdles
  <2>8. CASE m.state \in RangingStates
    <3>1. n.state = m.state \/ m.ucd # NoUcd
      BY <2>5, <2>6, <2>8 DEF Orderly, Early, RangingStates
    <3>2. Idles(m, n)
      BY <2>5, <2>7, <2>8, <3>1 DEF Idles, RangingStates
    <3>3. QED
      BY <2>5, <3>2, IdlesContinues
  <2>9. CASE m.state = "rejected"
    <3>1. NoTurn(m) /\ ~m.registered
      BY <2>6, <2>9, NoTurnHere DEF Orderly, RangingStates
    <3>2. Listening(n)
      BY <2>5 DEF Listening
    <3>3. Orderly(n)
      BY <2>5, <2>6, <2>7, <3>1, <3>2, OrderlyAt
    <3>4. StageOf(m.state) = "rejected" /\ StageOf(n.state) = "ranging"
      BY <2>5, <2>9, StageIs DEF RangingStates
    <3>5. QED
      BY <2>5, <2>6, <2>9, <3>3, <3>4 DEF Continues, Proceeds, Climbs, KeepsUpstream
  <2>10. QED
    BY <2>6, <2>8, <2>9
<1>7. m.retries \in Int /\ MaxRetries \in Int
  BY <1>1, ModemAssumption DEF Modems
<1>8. QED
  BY <1>2, <1>4, <1>5, <1>6, <1>7 DEF T3Expired

LEMMA ExpiredContinues ==
    ASSUME NEW m, GoodModem(m), Orderly(m), NEW timer \in m.timers, timer # "ds-scan",
           NEW n, n = Expired(m, timer)
    PROVE  Continues(m, n) /\ n \in Modems
<1>1. timer \in Timers /\ {"tod", "tftp", "lost-T6"} \subseteq Timers /\ m \in Modems
  BY DEF GoodModem, Modems, Timers, MacTimers
<1>2. n \in Modems
  BY ExpiredGood DEF Quietly, Keeps, GoodModem
<1>3. CASE timer = "T3"
  BY <1>3, T3ExpiredContinues DEF Expired
<1>4. CASE timer = "tod"
  <2>1. n = TodTimeout(m)
    BY <1>4 DEF Expired, MacTimers
  <2>2. CASE m.state # "time-of-day"
    <3>1. n = Disarm(m, "tod")
      BY <2>1, <2>2 DEF TodTimeout
    <3>2. QED
      BY <1>1, <1>2, <3>1, ArmIdles, IdlesContinues
  <2>3. CASE m.state = "time-of-day"
    <3>1. Listening(m)
      BY <2>3 DEF Listening
    <3>2. Proceeds(m, n)
      BY <1>1, <2>1, <3>1, OnTodProceeds
    <3>3. QED
      BY <1>2, <2>3, <3>1, <3>2 DEF Continues
  <2>4. QED
    BY <2>2, <2>3
<1>5. CASE timer = "tftp"
  <2>1. PICK fired : fired = Disarm(m, "tftp")
    OBVIOUS
  <2>2. Idles(m, fired) /\ fired \in Modems
    BY <1>1, <2>1, ArmIdles, DisarmFields
  <2>3. n = fired \/ n = Reinitialize(fired)
    BY <1>5, <2>1 DEF Expired, TftpTimeout, MacTimers
  <2>4. QED
    BY <1>2, <2>2, <2>3, IdlesContinues, ReinitializeContinues
<1>6. CASE timer = "lost-T6"
  <2>1. n = Reinitialize(Disarm(m, "lost-T6")) /\ Disarm(m, "lost-T6") \in Modems
    BY <1>1, <1>6, DisarmFields DEF Expired, MacTimers
  <2>2. QED
    BY <1>2, <2>1, ReinitializeContinues
<1>7. CASE timer \in MacTimers \ {"T3"}
  <2>1. n = Reinitialize(m)
    BY <1>7 DEF Expired, MacTimers
  <2>2. QED
    BY <1>1, <1>2, <2>1, ReinitializeContinues
<1>8. QED
  BY <1>1, <1>3, <1>4, <1>5, <1>6, <1>7 DEF Timers

-----------------------------------------------------------------------------
(* Bursts that leave.  What they carried is held no more.                   *)
LEMMA BurstLeaves ==
    ASSUME NEW m \in Modems, m.bursts # <<>>, NEW frames, frames = Head(m.bursts).frames,
           NEW n, n = [m EXCEPT !.bursts = Tail(@)]
    PROVE  /\ n \in Modems /\ n.state = m.state /\ SameBasics(m, n) /\ n.queue = m.queue
           /\ Idles(m, n)
           /\ frames \in Seq(Frames) /\ frames \in Seq(Items(frames))
           /\ Items(frames) \subseteq Held(m)
           /\ OneTurn(m) /\ HasTurn(frames) => OneTurnIn(frames) /\ NoTurn(n)
<1>1. m.bursts \in Seq(Bursts)
  BY DEF Modems
<1>2. PICK bursts : bursts = m.bursts
  OBVIOUS
<1>3. PICK rest : rest = Tail(bursts)
  OBVIOUS
<1>4. rest \in Seq(Bursts) /\ Head(bursts) \in Bursts
  BY <1>1, <1>2, <1>3, SequencesOf
<1>5. /\ n \in Modems /\ n.state = m.state /\ SameBasics(m, n) /\ n.queue = m.queue
      /\ n.bursts = rest
  BY <1>2, <1>3, <1>4 DEF Modems, SameBasics
<1>6. /\ Aloft(rest) \subseteq Aloft(bursts) /\ Items(frames) \subseteq Aloft(bursts)
      /\ TurnAloft(rest) \/ HasTurn(frames) => TurnAloft(bursts)
      /\ OneAloft(bursts) => /\ OneAloft(rest) /\ OneTurnIn(frames)
                             /\ ~(TurnAloft(rest) /\ HasTurn(frames))
  <2>1. bursts \in Seq(Bursts) /\ bursts # <<>> /\ frames = Head(bursts).frames
    BY <1>1, <1>2
  <2>2. QED
    BY <1>3, <2>1, AloftTail
<1>7. FramesKept(m, n)
  BY <1>2, <1>5, <1>6 DEF FramesKept, Held, OneTurn
<1>8. Idles(m, n)
  BY <1>5, <1>7 DEF Idles, SameBasics
<1>9. Items(frames) \subseteq Held(m)
  BY <1>2, <1>6 DEF Held
<1>10. frames \in Seq(Frames) /\ frames \in Seq(Items(frames))
  <2>1. frames \in Seq(Frames)
    BY <1>2, <1>4 DEF Bursts
  <2>2. PICK k \in Nat : frames \in [1 .. k -> Frames]
    BY <2>1, SeqDef
  <2>3. frames \in [1 .. k -> Items(frames)]
    BY <2>2 DEF Items
  <2>4. QED
    BY <2>1, <2>2, <2>3, SeqDef
<1>11. OneTurn(m) /\ HasTurn(frames) => OneTurnIn(frames) /\ NoTurn(n)
  BY <1>2, <1>5, <1>6 DEF OneTurn, NoTurn
<1>12. QED
  BY <1>5, <1>8, <1>9, <1>10, <1>11

(* A modem on its way to service is registered by the REG-ACK that leaves.  *)
LEMMA RegistrationLeaves ==
    ASSUME NEW m \in Modems, Orderly(m), Listening(m), ~m.registered, m.bursts # <<>>,
           NEW n, n = Transmit(m), NEW sent, sent = [m EXCEPT !.bursts = Tail(@)], n # sent
    PROVE  /\ Proceeds(m, n) /\ Listening(n) /\ n \in Modems
           /\ \E i \in DOMAIN Head(m.bursts).frames : Head(m.bursts).frames[i][1] = "REG-ACK"
           /\ NoTurn(n)
<1>1. PICK frames : frames = Head(m.bursts).frames
  OBVIOUS
<1>2. PICK F : F = Items(frames)
  OBVIOUS
<1>3. /\ sent \in Modems /\ sent.state = m.state /\ SameBasics(m, sent) /\ sent.queue = m.queue
      /\ Idles(m, sent)
      /\ frames \in Seq(Frames) /\ frames \in Seq(F)
      /\ F \subseteq Held(m)
      /\ OneTurn(m) /\ HasTurn(frames) => OneTurnIn(frames) /\ NoTurn(sent)
  BY <1>1, <1>2, BurstLeaves
<1>4. n = AllSent(sent, frames)
  BY <1>1 DEF Transmit
<1>5. \A f \in F : ~(f[1] = "UCC-RSP" /\ f[2] # NoChannel)
  BY <1>3 DEF Orderly
<1>6. PICK done : done = [sent EXCEPT !.registered = TRUE, !.state = "operational"]
  OBVIOUS
<1>7. m.state # "operational"
  BY DEF Orderly
<1>8. /\ done \in Modems /\ done.state = "operational" /\ done.registered
      /\ done.ucd = m.ucd /\ done.queue = sent.queue /\ done.bursts = sent.bursts
  <2>1. "operational" \in States
    BY DEF States
  <2>2. QED
    BY <1>3, <1>6, <2>1 DEF Modems, SameBasics
<1>9. ASSUME \A f \in F : f[1] # "REG-ACK" PROVE FALSE
  <2>1. \A a \in {sent} : \A f \in F : OnSent(a, f) \in {sent}
    BY <1>5, <1>9 DEF OnSent
  <2>2. AllSent(sent, frames) \in {sent}
    BY <1>3, <2>1, AllSentIn
  <2>3. QED
    BY <1>4, <2>2
<1>10. PICK i \in DOMAIN frames : frames[i][1] = "REG-ACK"
  BY <1>2, <1>9 DEF Items
<1>11. n = done
  <2>1. ASSUME NEW a \in {sent, done}, NEW f \in F PROVE OnSent(a, f) \in {sent, done}
    <3>1. OnSent(a, f) = a \/ OnSent(a, f) = RegistrationComplete(a)
      BY <1>5 DEF OnSent
    <3>2. RegistrationComplete(sent) = done /\ RegistrationComplete(done) = done
      BY <1>3, <1>6, <1>7, <1>8 DEF RegistrationComplete
    <3>3. QED
      BY <3>1, <3>2
  <2>2. AllSent(sent, frames) \in {sent, done}
    BY <1>3, <2>1, AllSentIn
  <2>3. QED
    BY <1>4, <2>2
<1>12. "REG-ACK" \in Turns /\ StateAt("REG-ACK") = "registering"
  BY DEF Turns, Provisioning, Answered, StateAt
<1>13. m.state = "registering"
  <2>1. frames[i] \in Held(m)
    BY <1>2, <1>3, <1>10 DEF Items
  <2>2. QED
    BY <1>10, <1>12, <2>1 DEF Orderly
<1>14. NoTurn(sent) /\ NoTurn(done)
  <2>1. HasTurn(frames) /\ OneTurn(m)
    BY <1>10, <1>12 DEF HasTurn, Orderly
  <2>2. QED
    BY <1>3, <1>8, <2>1 DEF NoTurn
<1>15. Orderly(n) /\ Listening(n)
  <2>1. Orderly(sent) /\ Listening(sent)
    BY <1>3, IdlesProceeds DEF Proceeds
  <2>2. FramesKept(sent, done) /\ Listening(done)
    BY <1>8, SameIdles DEF Listening
  <2>3. m.ucd # NoUcd
    BY <1>13 DEF Orderly, Early
  <2>4. QED
    BY <1>8, <1>11, <1>14, <2>1, <2>2, <2>3, OrderlyAt
<1>16. StageOf(m.state) = "provisioning" /\ StageOf(n.state) = "online"
  BY <1>8, <1>11, <1>13, StageIs DEF InService
<1>17. Proceeds(m, n)
  BY <1>8, <1>11, <1>13, <1>15, <1>16 DEF Proceeds, Climbs, KeepsUpstream
<1>18. QED
  BY <1>1, <1>8, <1>10, <1>11, <1>14, <1>15, <1>17

(* A registered modem leaves its upstream with the UCC-RSP that leaves.     *)
LEMMA UpstreamLeft ==
    ASSUME NEW m \in Modems, Orderly(m), Listening(m), m.registered, m.bursts # <<>>,
           NEW n, n = Transmit(m), NEW sent, sent = [m EXCEPT !.bursts = Tail(@)], n # sent
    PROVE  Proceeds(m, n) /\ Listening(n) /\ n \in Modems /\ NoTurn(n)
<1>1. PICK frames : frames = Head(m.bursts).frames
  OBVIOUS
<1>2. PICK F : F = Items(frames)
  OBVIOUS
<1>3. /\ sent \in Modems /\ sent.state = m.state /\ SameBasics(m, sent) /\ sent.queue = m.queue
      /\ Idles(m, sent)
      /\ frames \in Seq(Frames) /\ frames \in Seq(F)
      /\ F \subseteq Held(m)
      /\ OneTurn(m) /\ HasTurn(frames) => OneTurnIn(frames) /\ NoTurn(sent)
  BY <1>1, <1>2, BurstLeaves
<1>4. n = AllSent(sent, frames)
  BY <1>1 DEF Transmit
<1>5. m.state \in RangingStates \union {"operational"} /\ NoTurn(m)
  <2>1. m.state \in RangingStates \union {"operational"}
    BY DEF Orderly
  <2>2. QED
    BY <2>1, NoTurnHere DEF RangingStates
<1>6. \A f \in F : f[1] # "REG-ACK"
  <2>1. "REG-ACK" \in Turns
    BY DEF Turns, Provisioning
  <2>2. \A f \in Held(m) : f[1] \notin Turns
    BY <1>5, NoTurnHeld
  <2>3. QED
    BY <1>3, <2>1, <2>2
<1>7. PICK left : left = LeaveUpstream(sent)
  OBVIOUS
<1>8. /\ left \in Modems /\ left.state = "ranging-wait" /\ left.ucd = NoUcd
      /\ left.registered = m.registered /\ left.queue = <<>> /\ left.bursts = sent.bursts
      /\ LeaveUpstream(left) = left
  <2>1. "ranging-wait" \in States /\ 0 \in 0 .. (MaxRetries - 1)
    BY ModemAssumption DEF States
  <2>2. PICK none : none = <<>>
    OBVIOUS
  <2>3. none \in Seq(Frames)
    BY <2>2, EmptySeq
  <2>4. left = [sent EXCEPT !.ucd = NoUcd, !.queue = none, !.outstanding = FALSE,
                            !.requestSlot = FALSE, !.grantPending = FALSE, !.retries = 0,
                            !.state = "ranging-wait"]
    BY <1>7, <2>2 DEF LeaveUpstream
  <2>5. /\ left \in Modems /\ left.state = "ranging-wait" /\ left.ucd = NoUcd
        /\ left.registered = m.registered /\ left.queue = none /\ left.bursts = sent.bursts
    <3>1. sent.registered = m.registered /\ NoUcd \in Ucds \union {NoUcd}
      BY <1>3 DEF SameBasics
    <3>2. left \in Modems
      BY SMTT(20), ZenonT(30), <1>3, <2>1, <2>3, <2>4, <3>1 DEF Modems
    <3>3. QED
      BY SMTT(20), ZenonT(30), <1>3, <2>4, <3>1, <3>2 DEF Modems
  <2>6. LeaveUpstream(left) = left
    BY <1>3, <2>2, <2>4 DEF LeaveUpstream, Modems
  <2>7. QED
    BY <2>2, <2>5, <2>6
<1>9. n = left
  <2>1. ASSUME NEW a \in {sent, left}, NEW f \in F PROVE OnSent(a, f) \in {sent, left}
    <3>1. OnSent(a, f) = a \/ OnSent(a, f) = LeaveUpstream(a)
      BY <1>6 DEF OnSent
    <3>2. QED
      BY <1>7, <1>8, <3>1
  <2>2. AllSent(sent, frames) \in {sent, left}
    BY <1>3, <2>1, AllSentIn
  <2>3. QED
    BY <1>4, <2>2
<1>10. Orderly(sent) /\ Listening(sent) /\ NoTurn(sent)
  BY <1>3, <1>5, IdlesProceeds DEF Proceeds
<1>11. Items(left.queue) = {} /\ ~HasTurn(left.queue)
  <2>1. DOMAIN left.queue = {}
    BY <1>8
  <2>2. QED
    BY <2>1 DEF Items, HasTurn
<1>12. NoTurn(left)
  BY <1>8, <1>10, <1>11 DEF NoTurn
<1>13. FramesKept(sent, left) /\ Listening(left)
  BY <1>8, <1>11, <1>12, NoTurnOne DEF FramesKept, Held, Listening
<1>14. Orderly(left)
  <2>1. left.registered => left.state \in RangingStates \union {"operational"}
    BY <1>8 DEF RangingStates
  <2>2. sent.registered => left.registered
    BY <1>8
  <2>3. QED
    BY <1>8, <1>10, <1>13, <2>1, <2>2, OrderlyAt
<1>15. StageOf(left.state) = "ranging" /\ StageOf(m.state) \in {"ranging", "online"}
  BY <1>5, <1>8, StageIs DEF RangingStates
<1>16. Proceeds(m, left)
  BY <1>8, <1>14, <1>15 DEF Proceeds, Climbs, KeepsUpstream
<1>17. QED
  BY <1>8, <1>9, <1>12, <1>13, <1>16

LEMMA TransmitProceeds ==
    ASSUME NEW m, GoodModem(m), Orderly(m), m.bursts # <<>>, NEW n, n = Transmit(m),
           NEW frames, frames = Head(m.bursts).frames
    PROVE  /\ Proceeds(m, n) /\ Listening(n) = Listening(m)
           /\ Listening(m) =>
                 \/ n.state = m.state /\ (NoTurn(m) \/ HasTurn(frames) => NoTurn(n))
                 \/ \E i \in DOMAIN frames : frames[i][1] = "REG-ACK"
                 \/ m.registered /\ NoTurn(n)
<1>1. PICK sent : sent = [m EXCEPT !.bursts = Tail(@)]
  OBVIOUS
<1>2. m \in Modems
  BY DEF GoodModem
<1>3. /\ sent.state = m.state /\ Idles(m, sent)
      /\ OneTurn(m) /\ HasTurn(frames) => NoTurn(sent)
  BY <1>1, <1>2, BurstLeaves
<1>4. CASE n = sent
  <2>1. Proceeds(m, n) /\ Listening(n) = Listening(m) /\ (NoTurn(m) => NoTurn(n))
    BY <1>3, <1>4, IdlesProceeds
  <2>2. Listening(m) => OneTurn(m)
    BY DEF Orderly
  <2>3. QED
    BY <1>3, <1>4, <2>1, <2>2
<1>5. CASE n # sent
  <2>1. Listening(m)
    BY <1>1, <1>5 DEF Transmit, GoodModem
  <2>2. CASE ~m.registered
    BY <1>1, <1>2, <1>5, <2>1, <2>2, RegistrationLeaves
  <2>3. CASE m.registered
    BY <1>1, <1>2, <1>5, <2>1, <2>3, UpstreamLeft
  <2>4. QED
    BY <2>2, <2>3
<1>6. QED
  BY <1>4, <1>5

-----------------------------------------------------------------------------
(* The modem and what is owed to it: one turn at a time, at its place, with *)
(* the modem or on its way to it as an answer.                              *)
DialogueInv ==
    /\ ModemInv
    /\ Orderly(modem)
    /\ Listening(modem) =>
          \A a \in owed \intersect TurnAnswers :
              /\ StateAt(a) = modem.state /\ NoTurn(modem)
              /\ owed \intersect TurnAnswers = {a}

LEMMA TurnPlaces ==
    /\ \A a \in Turns \union TurnAnswers :
           StateAt(a) \in {"dhcp", "tftp-config", "registering"}
    /\ \A kind \in Answered \intersect Turns : StateAt(AnswerTo(kind)) = StateAt(kind)
    /\ AnswerTo("TOD") \notin TurnAnswers /\ "REG-ACK" \notin Answered
<1>1. \A a \in Turns \union TurnAnswers :
          StateAt(a) \in {"dhcp", "tftp-config", "registering"}
  BY DEF Turns, TurnAnswers, Provisioning, Answered, StateAt
<1>2. ASSUME NEW kind \in Answered \intersect Turns
      PROVE  StateAt(AnswerTo(kind)) = StateAt(kind)
  <2>1. CASE kind = "DISCOVER"
    BY <2>1 DEF StateAt, AnswerTo
  <2>2. CASE kind = "REQUEST"
    BY <2>2 DEF StateAt, AnswerTo
  <2>3. CASE kind = "RRQ"
    BY <2>3 DEF StateAt, AnswerTo
  <2>4. CASE kind = "ACK"
    BY <2>4 DEF StateAt, AnswerTo
  <2>5. CASE kind = "REG-REQ"
    BY <2>5 DEF StateAt, AnswerTo
  <2>6. QED
    BY <2>1, <2>2, <2>3, <2>4, <2>5 DEF Answered, Turns
<1>3. AnswerTo("TOD") \notin TurnAnswers /\ "REG-ACK" \notin Answered
  BY DEF AnswerTo, TurnAnswers, Answered
<1>4. QED
  BY <1>1, <1>2, <1>3

LEMMA ContinuesDialogue ==
    ASSUME DialogueInv, ModemInv', Continues(modem, modem'),
           owed' \intersect TurnAnswers \subseteq owed
    PROVE  DialogueInv' /\ Proceeds(modem, modem')
<1>1. Proceeds(modem, modem') /\ Orderly(modem')
  BY DEF Continues, Proceeds
<1>2. ASSUME Listening(modem'), NEW a \in owed' \intersect TurnAnswers
      PROVE  /\ StateAt(a) = modem'.state /\ NoTurn(modem')
             /\ owed' \intersect TurnAnswers = {a}
  <2>1. Listening(modem) /\ a \in owed \intersect TurnAnswers
    BY <1>2 DEF Continues
  <2>2. StateAt(a) = modem.state /\ NoTurn(modem) /\ owed \intersect TurnAnswers = {a}
    BY <2>1 DEF DialogueInv
  <2>3. modem'.state = modem.state /\ NoTurn(modem')
    BY <1>2, <2>2, TurnPlaces DEF Continues
  <2>4. QED
    BY <1>2, <2>2, <2>3
<1>3. QED
  BY <1>1, <1>2 DEF DialogueInv

LEMMA DoneDialogue ==
    ASSUME DialogueInv, ModemInv', Proceeds(modem, modem'), owed' \intersect TurnAnswers = {}
    PROVE  DialogueInv' /\ Proceeds(modem, modem')
BY DEF DialogueInv, Proceeds

(* Nothing of the dialogue is owed to a modem that is elsewhere.            *)
LEMMA NothingOwed ==
    ASSUME DialogueInv, Listening(modem),
           modem.state \notin {"dhcp", "tftp-config", "registering"}
    PROVE  owed \intersect TurnAnswers = {}
BY TurnPlaces DEF DialogueInv

(* An answer comes to a modem whose turn it is next.                        *)
LEMMA TurnComes ==
    ASSUME DialogueInv, NEW answer \in TurnAnswers, NEW n, Receive(answer, n)
    PROVE  /\ Provisioned(modem) /\ NoTurn(modem) /\ modem.state = StateAt(answer)
           /\ modem' = n /\ owed' \intersect TurnAnswers = {}
<1>1. /\ Listening(modem) /\ answer \in owed /\ modem' = n /\ owed' = owed \ {answer}
  BY DEF Receive, Becomes
<1>2. /\ StateAt(answer) = modem.state /\ NoTurn(modem)
      /\ owed \intersect TurnAnswers = {answer}
  BY <1>1 DEF DialogueInv
<1>3. Provisioned(modem)
  BY <1>1, <1>2, TurnPlaces DEF DialogueInv, ModemInv, GoodModem, Provisioned, InService
<1>4. QED
  BY <1>1, <1>2, <1>3

(* What the CMTS hears gives the modem its next turn.                       *)
LEMMA SendBurstDialogue ==
    ASSUME DialogueInv, ModemInv', NEW heard, SendBurst(heard)
    PROVE  DialogueInv' /\ Proceeds(modem, modem')
<1>1. PICK frames : frames = Head(modem.bursts).frames
  OBVIOUS
<1>2. /\ modem.bursts # <<>> /\ modem' = Transmit(modem)
      /\ GoodModem(modem) /\ modem \in Modems /\ Orderly(modem)
  BY DEF SendBurst, Becomes, DialogueInv, ModemInv, GoodModem
<1>3. /\ Proceeds(modem, modem') /\ Listening(modem') = Listening(modem)
      /\ Listening(modem) =>
            \/ modem'.state = modem.state /\ (NoTurn(modem) \/ HasTurn(frames) => NoTurn(modem'))
            \/ \E i \in DOMAIN frames : frames[i][1] = "REG-ACK"
            \/ modem.registered /\ NoTurn(modem')
  BY <1>1, <1>2, TransmitProceeds
<1>4. PICK sent : sent = [modem EXCEPT !.bursts = Tail(@)]
  OBVIOUS
<1>5. /\ Items(frames) \subseteq Held(modem)
      /\ OneTurn(modem) /\ HasTurn(frames) => OneTurnIn(frames)
  BY <1>1, <1>2, <1>4, BurstLeaves
<1>6. owed' \intersect TurnAnswers \subseteq owed \union
          {AnswerTo(frames[i][1]) : i \in {j \in DOMAIN frames : frames[j][1] \in Answered}}
  <2>1. CASE UNCHANGED owed
    BY <2>1
  <2>2. CASE ~UNCHANGED owed
    <3>1. Heard(Head(modem.bursts), modem.ucd.ch)
      BY <2>2 DEF SendBurst
    <3>2. Head(modem.bursts).kind \in {"RNG-REQ", "REQ", "DATA"}
      <4>1. modem.bursts \in Seq(Bursts)
        BY <1>2 DEF Modems
      <4>2. Head(modem.bursts) \in Bursts
        BY <1>2, <4>1, SequencesOf
      <4>3. QED
        BY <4>2 DEF Bursts
    <3>3. CASE Head(modem.bursts).kind = "RNG-REQ"
      BY <3>1, <3>3 DEF Heard, TurnAnswers
    <3>4. CASE Head(modem.bursts).kind = "REQ"
      BY <3>1, <3>4 DEF Heard
    <3>5. CASE Head(modem.bursts).kind = "DATA"
      BY <1>1, <3>1, <3>5 DEF Heard
    <3>6. QED
      BY <3>2, <3>3, <3>4, <3>5
  <2>3. QED
    BY <2>1, <2>2
<1>7. CASE ~Listening(modem)
  BY <1>3, <1>7 DEF DialogueInv, Proceeds
<1>8. CASE Listening(modem) /\ ~HasTurn(frames)
  <2>1. \A i \in DOMAIN frames : frames[i][1] \in Answered => frames[i][1] = "TOD"
    BY <1>8 DEF HasTurn, Turns, Provisioning
  <2>2. owed' \intersect TurnAnswers \subseteq owed
    BY <1>6, <2>1, TurnPlaces
  <2>3. "REG-ACK" \in Turns
    BY DEF Turns, Provisioning
  <2>4. \/ modem'.state = modem.state /\ (NoTurn(modem) => NoTurn(modem'))
        \/ modem.registered
    BY <1>3, <1>8, <2>3 DEF HasTurn
  <2>5. modem.registered => modem.state \notin {"dhcp", "tftp-config", "registering"}
    BY <1>2, <1>8 DEF Orderly, RangingStates
  <2>6. Continues(modem, modem')
    BY <1>3, <1>8, <2>4, <2>5 DEF Continues
  <2>7. QED
    BY <2>2, <2>6, ContinuesDialogue
<1>9. CASE Listening(modem) /\ HasTurn(frames)
  <2>1. PICK i \in DOMAIN frames : frames[i][1] \in Turns
    BY <1>9 DEF HasTurn
  <2>2. PICK kind : kind = frames[i][1]
    OBVIOUS
  <2>3. kind \in Turns /\ frames[i] \in Held(modem)
    BY <1>5, <2>1, <2>2 DEF Items
  <2>4. StateAt(kind) = modem.state /\ ~NoTurn(modem)
    BY <1>2, <1>9, <2>2, <2>3, NoTurnHeld DEF Orderly
  <2>5. owed \intersect TurnAnswers = {}
    BY <1>9, <2>4 DEF DialogueInv
  <2>6. OneTurnIn(frames)
    BY <1>2, <1>5, <1>9 DEF Orderly
  <2>7. \A j \in DOMAIN frames : frames[j][1] \in Turns => frames[j][1] = kind
    BY <2>1, <2>2, <2>6 DEF OneTurnIn
  <2>8. \A j \in DOMAIN frames : frames[j][1] \in Answered => frames[j][1] \in {"TOD", kind}
    BY <2>7 DEF Turns, Provisioning
  <2>9. ASSUME NEW a \in owed' \intersect TurnAnswers PROVE kind \in Answered /\ a = AnswerTo(kind)
    <3>1. PICK j \in DOMAIN frames : frames[j][1] \in Answered /\ a = AnswerTo(frames[j][1])
      BY <1>6, <2>5
    <3>2. frames[j][1] # "TOD"
      BY <3>1, TurnPlaces
    <3>3. QED
      BY <2>8, <3>1, <3>2
  <2>10. CASE kind \in Answered
    <3>1. "REG-ACK" \in Turns
      BY DEF Turns, Provisioning
    <3>2. \A j \in DOMAIN frames : frames[j][1] # "REG-ACK"
      BY <2>7, <2>10, <3>1, TurnPlaces
    <3>3. ~modem.registered
      BY <1>2, <1>9, <2>3, <2>4, TurnPlaces DEF Orderly, RangingStates
    <3>4. modem'.state = modem.state /\ NoTurn(modem')
      BY <1>3, <1>9, <3>2, <3>3
    <3>5. StateAt(AnswerTo(kind)) = modem'.state
      BY <2>3, <2>4, <2>10, <3>4, TurnPlaces
    <3>6. \A a \in owed' \intersect TurnAnswers :
              /\ StateAt(a) = modem'.state /\ NoTurn(modem')
              /\ owed' \intersect TurnAnswers = {a}
      BY <2>9, <3>4, <3>5
    <3>7. QED
      BY <1>3, <3>6 DEF DialogueInv, Proceeds
  <2>11. CASE kind \notin Answered
    <3>1. owed' \intersect TurnAnswers = {}
      BY <2>9, <2>11
    <3>2. QED
      BY <1>3, <3>1, DoneDialogue
  <2>12. QED
    BY <2>10, <2>11
<1>10. QED
  BY <1>7, <1>8, <1>9

LEMMA StillDialogue ==
    ASSUME DialogueInv, ModemInv', modem' = modem, owed' \subseteq owed
    PROVE  DialogueInv' /\ Proceeds(modem, modem')
<1>1. Idles(modem, modem) /\ Orderly(modem)
  BY SameIdles DEF SameBasics, DialogueInv
<1>2. Continues(modem, modem')
  BY <1>1, IdlesContinues
<1>3. QED
  BY <1>2, ContinuesDialogue

LEMMA ReceiveDialogue ==
    ASSUME DialogueInv, ModemInv',
           \/ ReceiveOffer
           \/ ReceiveDhcpAck
           \/ \E block \in {"next", "last", "other"}, micOk \in BOOLEAN :
                 ReceiveTftpData(block, micOk)
           \/ \E ok \in BOOLEAN : ReceiveRegRsp(ok)
    PROVE  DialogueInv' /\ Proceeds(modem, modem')
<1> SUFFICES Proceeds(modem, modem') /\ owed' \intersect TurnAnswers = {}
  BY DoneDialogue
<1>1. CASE ReceiveOffer
  <2>1. "OFFER" \in TurnAnswers /\ StateAt("OFFER") = "dhcp"
    BY DEF TurnAnswers, StateAt
  <2>2. /\ Provisioned(modem) /\ NoTurn(modem) /\ modem.state = "dhcp"
        /\ modem' = OnOffer(modem) /\ owed' \intersect TurnAnswers = {}
    BY <1>1, <2>1, TurnComes DEF ReceiveOffer
  <2>3. QED
    BY <2>2, OnOfferProvisions, BothProvisioned
<1>2. CASE ReceiveDhcpAck
  <2>1. "DHCPACK" \in TurnAnswers
    BY DEF TurnAnswers
  <2>2. /\ Provisioned(modem) /\ NoTurn(modem)
        /\ modem' = OnDhcpAck(modem) /\ owed' \intersect TurnAnswers = {}
    BY <1>2, <2>1, TurnComes DEF ReceiveDhcpAck
  <2>3. QED
    BY <2>2, OnDhcpAckProvisions, BothProvisioned
<1>3. ASSUME NEW block \in {"next", "last", "other"}, NEW micOk \in BOOLEAN,
             ReceiveTftpData(block, micOk)
      PROVE  Proceeds(modem, modem') /\ owed' \intersect TurnAnswers = {}
  <2>1. "DATA" \in TurnAnswers /\ StateAt("DATA") = "tftp-config"
    BY DEF TurnAnswers, StateAt
  <2>2. /\ Provisioned(modem) /\ NoTurn(modem) /\ modem.state = "tftp-config"
        /\ modem' = OnTftpData(modem, block, micOk) /\ owed' \intersect TurnAnswers = {}
    BY <1>3, <2>1, TurnComes DEF ReceiveTftpData
  <2>3. Provisioned(modem') \/ Proceeds(modem, modem')
    BY <2>2, OnTftpDataProceeds
  <2>4. QED
    BY <2>2, <2>3, BothProvisioned
<1>4. ASSUME NEW ok \in BOOLEAN, ReceiveRegRsp(ok)
      PROVE  Proceeds(modem, modem') /\ owed' \intersect TurnAnswers = {}
  <2>1. "REG-RSP" \in TurnAnswers /\ StateAt("REG-RSP") = "registering"
    BY DEF TurnAnswers, StateAt
  <2>2. /\ Provisioned(modem) /\ NoTurn(modem) /\ modem.state = "registering"
        /\ modem' = OnRegRsp(modem, ok) /\ owed' \intersect TurnAnswers = {}
    BY <1>4, <2>1, TurnComes DEF ReceiveRegRsp
  <2>3. QED
    BY <2>2, OnRegRspProceeds
<1>5. QED
  BY <1>1, <1>2, <1>3, <1>4

(* Every step, with moves ordered only of modems in service.                *)
LEMMA NextDialogue ==
    ASSUME UccOnlyOnline \/ UccTargets = {}, DialogueInv, [Next]_vars
    PROVE  DialogueInv' /\ Proceeds(modem, modem')
<1>1. /\ ModemInv /\ ModemInv' /\ Orderly(modem) /\ GoodModem(modem) /\ modem \in Modems
  BY NextPreserved DEF DialogueInv, Preserved, ModemInv, GoodModem
<1>2. CASE UNCHANGED vars
  BY <1>1, <1>2, StillDialogue DEF vars
<1>3. CASE PowerUp
  <2>1. /\ modem.state = "offline" /\ modem' = PowerOn(modem) /\ ~Listening(modem')
    BY <1>1, <1>3 DEF PowerUp, Becomes, PowerOn, Arm, Listening, Modems
  <2>2. Proceeds(modem, modem')
    BY <1>1, <2>1, PowerOnProceeds
  <2>3. QED
    BY <1>1, <2>1, <2>2 DEF DialogueInv, Proceeds
<1>4. CASE Lock
  <2>1. modem' = LockDownstream(modem) /\ modem.bursts = <<>> /\ owed' = {}
    BY <1>4 DEF Lock, Becomes, Expired, MacTimers
  <2>2. Proceeds(modem, modem')
    BY <1>1, <2>1, LockDownstreamProceeds
  <2>3. QED
    BY <1>1, <2>1, <2>2, DoneDialogue
<1>5. CASE ReceiveSync
  <2>1. Listening(modem) /\ modem' = OnSync(modem) /\ owed' = owed
    BY <1>5 DEF ReceiveSync, Becomes
  <2>2. Continues(modem, modem')
    BY <1>1, <2>1, OnSyncProceeds DEF Continues, Early
  <2>3. QED
    BY <1>1, <2>1, <2>2, ContinuesDialogue
<1>6. ASSUME NEW u \in Ucds, ReceiveUcd(u) PROVE DialogueInv' /\ Proceeds(modem, modem')
  <2>1. Listening(modem) /\ modem' = OnUcd(modem, u) /\ owed' = owed
    BY <1>6 DEF ReceiveUcd, Becomes
  <2>2. Continues(modem, modem')
    BY <1>1, <2>1, OnUcdProceeds DEF Continues, Early
  <2>3. QED
    BY <1>1, <2>1, <2>2, ContinuesDialogue
<1>7. ASSUME NEW map \in Maps, ReceiveMap(map) PROVE DialogueInv' /\ Proceeds(modem, modem')
  <2>1. Listening(modem) /\ modem' \in OnMap(modem, map) /\ owed' = owed
    BY <1>7 DEF ReceiveMap, Becomes
  <2>2. Continues(modem, modem')
    BY <1>1, <2>1, OnMapIdles, IdlesContinues
  <2>3. QED
    BY <1>1, <2>1, <2>2, ContinuesDialogue
<1>8. CASE MissGrant
  BY <1>1, <1>8, StillDialogue DEF MissGrant
<1>9. ASSUME NEW heard \in BOOLEAN, SendBurst(heard)
      PROVE  DialogueInv' /\ Proceeds(modem, modem')
  BY <1>1, <1>9, SendBurstDialogue
<1>10. ASSUME NEW answer \in owed, NEW status \in {"continue", "success"}, NEW sid \in Sids,
              ReceiveRngRsp(answer, status, sid)
       PROVE  DialogueInv' /\ Proceeds(modem, modem')
  <2>1. Listening(modem) /\ modem' = OnRngRsp(modem, status, sid) /\ owed' \subseteq owed
    BY <1>10 DEF ReceiveRngRsp, Becomes
  <2>2. Proceeds(modem, modem') /\ (Idles(modem, modem') \/ Ranging(modem))
    BY <1>1, <2>1, OnRngRspProceeds
  <2>3. CASE Idles(modem, modem')
    <3>1. Continues(modem, modem')
      BY <1>1, <2>3, IdlesContinues
    <3>2. QED
      BY <1>1, <2>1, <3>1, ContinuesDialogue
  <2>4. CASE Ranging(modem)
    <3>1. owed \intersect TurnAnswers = {}
      BY <2>1, <2>4, NothingOwed DEF Ranging
    <3>2. QED
      BY <1>1, <2>1, <2>2, <3>1, DoneDialogue
  <2>5. QED
    BY <2>2, <2>3, <2>4
<1>11. CASE \/ ReceiveOffer
            \/ ReceiveDhcpAck
            \/ \E block \in {"next", "last", "other"}, micOk \in BOOLEAN :
                  ReceiveTftpData(block, micOk)
            \/ \E ok \in BOOLEAN : ReceiveRegRsp(ok)
  BY <1>1, <1>11, ReceiveDialogue
<1>12. CASE ReceiveTod
  <2>1. Listening(modem) /\ modem' = OnTod(modem) /\ owed' \subseteq owed
    BY <1>12 DEF ReceiveTod, Receive, Becomes
  <2>2. /\ Proceeds(modem, modem')
        /\ modem' = modem \/ Idles(modem, modem') \/ modem.state = "time-of-day"
    BY <1>1, <2>1, OnTodProceeds
  <2>3. CASE modem' = modem
    BY <1>1, <2>1, <2>3, StillDialogue
  <2>4. CASE Idles(modem, modem')
    <3>1. Continues(modem, modem')
      BY <1>1, <2>4, IdlesContinues
    <3>2. QED
      BY <1>1, <2>1, <3>1, ContinuesDialogue
  <2>5. CASE modem.state = "time-of-day"
    <3>1. owed \intersect TurnAnswers = {}
      BY <2>1, <2>5, NothingOwed
    <3>2. QED
      BY <1>1, <2>1, <2>2, <3>1, DoneDialogue
  <2>6. QED
    BY <2>2, <2>3, <2>4, <2>5
<1>13. ASSUME NEW answer \in owed, LoseAnswer(answer)
       PROVE  DialogueInv' /\ Proceeds(modem, modem')
  BY <1>1, <1>13, StillDialogue DEF LoseAnswer
<1>14. ASSUME NEW ch \in UccTargets, ReceiveUccReq(ch)
       PROVE  DialogueInv' /\ Proceeds(modem, modem')
  <2>1. /\ modem.state = "operational" /\ modem' = OnUccReq(modem, ch) /\ owed' = owed
        /\ ch \in Channels
    BY <1>14, NetworkAssumption DEF ReceiveUccReq, Becomes
  <2>2. Continues(modem, modem')
    BY <1>1, <2>1, OnUccReqContinues
  <2>3. QED
    BY <1>1, <2>1, <2>2, ContinuesDialogue
<1>15. CASE BridgeFromLan \/ AnswerToHost
  <2>1. (modem' = FromLan(modem) \/ modem' = AnswerHost(modem)) /\ owed' = owed
    BY <1>15 DEF BridgeFromLan, AnswerToHost, Becomes
  <2>2. Continues(modem, modem')
    BY <1>1, <2>1, HostFrameContinues
  <2>3. QED
    BY <1>1, <2>1, <2>2, ContinuesDialogue
<1>16. CASE ClearCableModem
  <2>1. modem' = Reinitialize(modem) /\ owed' = owed
    BY <1>16 DEF ClearCableModem, Becomes
  <2>2. Continues(modem, modem')
    BY <1>1, <2>1, ReinitializeContinues
  <2>3. QED
    BY <1>1, <2>1, <2>2, ContinuesDialogue
<1>17. ASSUME NEW timer \in modem.timers, NEW another \in BOOLEAN, Expire(timer, another)
       PROVE  DialogueInv' /\ Proceeds(modem, modem')
  <2>1. PICK n : n = Expired(modem, timer)
    OBVIOUS
  <2>2. /\ timer # "ds-scan" /\ timer \in Timers /\ owed' = owed
        /\ modem' = n \/ modem' = Arm(n, timer)
    BY <1>1, <1>17, <2>1 DEF Expire, Becomes, Modems
  <2>3. Continues(modem, n) /\ n \in Modems
    BY <1>1, <2>1, <2>2, ExpiredContinues
  <2>4. Continues(modem, modem')
    BY <2>2, <2>3, ArmContinues
  <2>5. QED
    BY <1>1, <2>2, <2>4, ContinuesDialogue
<1>18. QED
  BY <1>2, <1>3, <1>4, <1>5, <1>6, <1>7, <1>8, <1>9, <1>10, <1>11, <1>12, <1>13, <1>14,
     <1>15, <1>16, <1>17 DEF Next

LEMMA InitDialogue == Init => DialogueInv
<1> SUFFICES ASSUME Init PROVE DialogueInv
  OBVIOUS
<1>1. ModemInv
  BY InitModem
<1>2. ~Listening(modem) /\ ~modem.registered
  BY DEF Init, PoweredOff, Listening
<1>3. QED
  BY <1>1, <1>2 DEF DialogueInv, Orderly

LEMMA StageThere == Stage = StageOf(modem.state)
BY DEF Stage, StageOf, RangingStates

-----------------------------------------------------------------------------
(* If the operator moves modems in service only, the modem goes through the *)
(* stages of ModemService in their order, for every plant, every number of  *)
(* retries and any losses: it is never in service without having been       *)
(* registered since it started over, and never provisioned twice.           *)
THEOREM ImplementsServiceCorrect ==
    ASSUME UccOnlyOnline \/ UccTargets = {}
    PROVE  Spec => ImplementsService
<1>1. Init => Service!Init
  <2> SUFFICES ASSUME Init PROVE Service!Init
    OBVIOUS
  <2>1. modem.state = "offline" /\ modem.registered = FALSE
    BY DEF Init, PoweredOff
  <2>2. Stage = "down"
    BY <2>1, StageIs, StageThere
  <2>3. QED
    BY <2>1, <2>2 DEF Service!Init
<1>2. DialogueInv /\ DialogueInv' /\ [Next]_vars => [Service!Next]_Service!vars
  <2> SUFFICES ASSUME DialogueInv, DialogueInv', [Next]_vars
               PROVE  [Service!Next]_Service!vars
    OBVIOUS
  <2>1. Climbs(StageOf(modem.state), StageOf(modem'.state), modem.registered, modem'.registered)
    BY NextDialogue DEF Proceeds
  <2>2. Stage = StageOf(modem.state) /\ Stage' = StageOf(modem'.state)
    BY StageThere DEF Stage, StageOf, RangingStates
  <2>3. modem.registered \in BOOLEAN /\ modem'.registered \in BOOLEAN
    BY DEF DialogueInv, ModemInv, GoodModem, Modems
  <2>4. QED
    BY <2>1, <2>2, <2>3
       DEF Climbs, Service!Next, Service!vars, Service!StartOver, Service!Advance,
           Service!FindDownstream, Service!FindUpstream, Service!Provision, Service!Register,
           Service!Refuse, Service!TryAgain, Service!Move, Service!Resume
<1>3. DialogueInv /\ [Next]_vars => DialogueInv'
  BY NextDialogue
<1>4. QED
  BY <1>1, <1>2, <1>3, InitDialogue, PTL DEF Spec, ImplementsService, Service!Spec

(* On the same condition, a modem in service keeps the upstream it took,    *)
(* whatever UCDs it hears, until a UCC-REQ or a re-initialisation moves it. *)
THEOREM StaysOnUpstreamCorrect ==
    ASSUME UccOnlyOnline \/ UccTargets = {}
    PROVE  Spec => StaysOnUpstream
<1>1. DialogueInv /\ [Next]_vars =>
          (modem.state = "operational" /\ modem'.ucd.ch # modem.ucd.ch
              => modem.uccTarget # NoChannel \/ modem'.state = "ds-scan" \/ modem'.ucd = NoUcd)
  BY NextDialogue DEF Proceeds, KeepsUpstream
<1>2. DialogueInv /\ [Next]_vars => DialogueInv'
  BY NextDialogue
<1>3. QED
  BY <1>1, <1>2, InitDialogue, PTL DEF Spec, StaysOnUpstream

-----------------------------------------------------------------------------
(* A modem that was not polled yet was not registered, and nobody moves it; *)
(* it is owed an answer, or told to go on ranging, only where it is polled  *)
(* or on a channel of a lower number.                                       *)
Unmoved(m) ==
    /\ ~m.registered /\ m.uccTarget = NoChannel
    /\ m.state \notin Off \union Early => m.ucd # NoUcd

PollsInv ==
    Listening(modem) /\ ~Reached(modem)
        => /\ Unmoved(modem)
           /\ owed # {} \/ modem.state = "ranging-station"
                  => pollsOn # NoChannel /\ modem.ucd.ch <= pollsOn

(* It goes to no channel of a higher number, and is not told to go on.      *)
Nears(m, n) ==
    Unmoved(m) => /\ Unmoved(n)
                  /\ m.ucd # NoUcd => n.ucd.ch <= m.ucd.ch
                  /\ n.state = "ranging-station" => m.state = "ranging-station"

LEMMA ChannelNumbers == Channels \union {NoChannel} \subseteq Int
BY ModemAssumption DEF NoChannel

LEMMA NearsPolls ==
    ASSUME ModemInv, ModemInv', PollsInv, Listening(modem), ~Reached(modem),
           Nears(modem, modem'), owed' \subseteq owed, pollsOn' = pollsOn
    PROVE  PollsInv'
<1>1. Unmoved(modem) /\ Unmoved(modem')
  BY DEF PollsInv, Nears
<1>2. /\ modem.ucd.ch \in Int /\ modem'.ucd.ch \in Int /\ pollsOn \in Int
  BY ChannelOf, ChannelNumbers DEF ModemInv, GoodModem
<1>3. ASSUME owed' # {} \/ modem'.state = "ranging-station"
      PROVE  pollsOn' # NoChannel /\ modem'.ucd.ch <= pollsOn'
  <2>1. owed # {} \/ modem.state = "ranging-station"
    BY <1>1, <1>3 DEF Nears
  <2>2. pollsOn # NoChannel /\ modem.ucd.ch <= pollsOn
    BY <2>1 DEF PollsInv
  <2>3. modem.ucd # NoUcd
    BY <1>1, <2>1 DEF Unmoved, ModemInv, Listening, Off, Early
  <2>4. modem'.ucd.ch <= modem.ucd.ch
    BY <1>1, <2>3 DEF Nears
  <2>5. QED
    BY <1>2, <2>2, <2>4
<1>4. QED
  BY <1>1, <1>3 DEF PollsInv

LEMMA SameNears ==
    ASSUME NEW m \in Modems, NEW n, n.ucd = m.ucd, n.uccTarget = m.uccTarget,
           n.registered = m.registered,
           n.state = "ranging-station" => m.state = "ranging-station",
           n.state \in Off \union Early \/ m.state \notin Off \union Early
    PROVE  Nears(m, n)
<1>1. PICK c \in Int : c = m.ucd.ch
  BY ChannelOf, ChannelNumbers
<1>2. m.ucd.ch <= m.ucd.ch
  BY <1>1
<1>3. QED
  BY <1>2 DEF Nears, Unmoved

LEMMA IdlesNears ==
    ASSUME NEW m \in Modems, NEW n, Idles(m, n),
           n.state = "ranging-station" => m.state = "ranging-station"
    PROVE  Nears(m, n)
BY SameNears DEF Idles, RangingStates, Off, Early

LEMMA OnSyncNears ==
    ASSUME NEW m \in Modems, Listening(m), NEW n, n = OnSync(m)
    PROVE  Nears(m, n)
<1>1. /\ n.state = IF m.state = "sync-wait" THEN "ucd-wait" ELSE m.state
      /\ n.registered = m.registered /\ n.ucd = m.ucd /\ n.uccTarget = m.uccTarget
  <2>1. CASE m.state = "sync-wait"
    BY <2>1 DEF OnSync, Arm, Modems
  <2>2. CASE m.state # "sync-wait"
    BY <2>2 DEF OnSync, Arm, Modems
  <2>3. QED
    BY <2>1, <2>2
<1>2. QED
  BY <1>1, SameNears DEF Off, Early

(* A UCD that nobody told the modem of names no channel of a higher number. *)
LEMMA OnUcdNears ==
    ASSUME NEW m \in Modems, NEW u \in Ucds, NEW n, n = OnUcd(m, u)
    PROVE  Nears(m, n)
<1>1. CASE n = m
  BY <1>1, SameNears
<1>2. CASE n # m
  <2>1. /\ n.ucd = u /\ n.uccTarget = NoChannel /\ n.registered = m.registered
        /\ n.state = "ranging-station" => m.state = "ranging-station"
        /\ Wanted(m, u)
    BY <1>2 DEF OnUcd, Arm, Disarm, Modems
  <2>2. u.ch \in Channels /\ u.ch # NoChannel /\ u # NoUcd
    <3>1. u.ch \in Channels /\ NoUcd.ch = NoChannel
      BY DEF Ucds, NoUcd
    <3>2. QED
      BY <3>1, ModemAssumption
  <2>3. m.uccTarget = NoChannel /\ m.ucd # NoUcd => u.ch < m.ucd.ch \/ u.ch = m.ucd.ch
    BY <2>1, <2>2 DEF Wanted
  <2>4. u.ch \in Int /\ m.ucd.ch \in Int
    BY <2>2, ChannelOf, ChannelNumbers
  <2>5. m.uccTarget = NoChannel /\ m.ucd # NoUcd => u.ch <= m.ucd.ch
    BY <2>3, <2>4
  <2>6. QED
    BY <2>1, <2>2, <2>5 DEF Nears, Unmoved
<1>3. QED
  BY <1>1, <1>2

(* A burst of a modem that was not polled yet takes it nowhere.             *)
LEMMA SendBurstPolls ==
    ASSUME DialogueInv, ModemInv', PollsInv, Listening(modem), ~Reached(modem),
           NEW heard, SendBurst(heard)
    PROVE  PollsInv'
<1>1. PICK burst : burst = Head(modem.bursts)
  OBVIOUS
<1>2. PICK sent : sent = [modem EXCEPT !.bursts = Tail(@)]
  OBVIOUS
<1>3. /\ modem \in Modems /\ modem.bursts # <<>> /\ modem' = Transmit(modem)
      /\ Unserved(modem) /\ Unmoved(modem) /\ Orderly(modem)
  BY DEF DialogueInv, ModemInv, GoodModem, PollsInv, SendBurst, Becomes
<1>4. \A i \in DOMAIN burst.frames : burst.frames[i][1] # "REG-ACK"
  <2>1. burst \in BurstsOf(Quiet)
    BY <1>1, <1>3, SequencesOf DEF Unserved, Carries
  <2>2. burst.frames \in Seq(Quiet)
    BY <2>1 DEF BurstsOf
  <2>3. \A f \in Quiet : f[1] # "REG-ACK"
    BY DEF Quiet, Provisioning
  <2>4. QED
    BY <2>2, <2>3
<1>5. modem' = sent
  BY <1>1, <1>2, <1>3, <1>4, RegistrationLeaves DEF Unmoved
<1>6. /\ modem'.state = modem.state /\ modem'.ucd = modem.ucd
      /\ modem'.uccTarget = modem.uccTarget /\ modem'.registered = modem.registered
  BY <1>2, <1>3, <1>5 DEF Modems
<1>7. Nears(modem, modem')
  BY <1>3, <1>6, SameNears
<1>8. CASE owed' = owed /\ pollsOn' = pollsOn
  BY <1>7, <1>8, NearsPolls DEF DialogueInv
<1>9. CASE ~(owed' = owed /\ pollsOn' = pollsOn)
  <2>1. modem.ucd # NoUcd /\ pollsOn' = modem.ucd.ch
    <3>1. modem.ucd # NoUcd /\ Heard(Head(modem.bursts), modem.ucd.ch)
      BY <1>9 DEF SendBurst
    <3>2. QED
      BY <1>3, <1>9, <3>1, HeardOwed DEF DialogueInv
  <2>2. modem.ucd.ch \in Channels
    BY <1>3, <2>1 DEF Modems, Ucds
  <2>3. pollsOn' # NoChannel /\ modem'.ucd.ch <= pollsOn'
    BY <1>6, <2>1, <2>2, ModemAssumption, ChannelNumbers
  <2>4. Unmoved(modem')
    BY <1>3, <1>7 DEF Nears
  <2>5. QED
    BY <2>3, <2>4 DEF PollsInv
<1>10. QED
  BY <1>8, <1>9

(* Until it is polled, a modem that ranges is polled where it is, or on a   *)
(* channel of a higher number, if the operator moves modems in service only.*)
LEMMA NextPolls ==
    ASSUME UccOnlyOnline \/ UccTargets = {}, DialogueInv, PollsInv, [Next]_vars
    PROVE  PollsInv'
<1>1. /\ ModemInv /\ ModemInv' /\ Orderly(modem) /\ GoodModem(modem) /\ modem \in Modems
      /\ Listening(modem') => Lock \/ (Listening(modem) /\ (Reached(modem) => Reached(modem')))
  BY NextPreserved DEF DialogueInv, Preserved, ModemInv, GoodModem
<1> SUFFICES ASSUME Listening(modem'), ~Reached(modem')
             PROVE  PollsInv'
  BY DEF PollsInv
<1>2. CASE Lock
  <2>1. modem' = LockDownstream(modem) /\ owed' = {} /\ pollsOn' = pollsOn
    BY <1>2 DEF Lock, Becomes, Expired, MacTimers
  <2>2. CASE modem.state = "ds-scan"
    <3>1. /\ modem'.state = "sync-wait" /\ modem'.registered = modem.registered
          /\ modem'.uccTarget = modem.uccTarget
      BY <1>1, <2>1, <2>2 DEF LockDownstream, Arm, Disarm, Modems
    <3>2. ~modem.registered /\ modem.uccTarget = NoChannel
      BY <1>1, <2>2 DEF GoodModem, Orderly, Listening
    <3>3. QED
      BY <2>1, <3>1, <3>2 DEF PollsInv, Unmoved, Early
  <2>3. CASE modem.state # "ds-scan"
    <3>1. modem' = Disarm(modem, "ds-scan")
      BY <2>1, <2>3 DEF LockDownstream
    <3>2. /\ modem'.state = modem.state /\ modem'.ucd = modem.ucd /\ modem'.sid = modem.sid
          /\ modem'.uccTarget = modem.uccTarget /\ modem'.registered = modem.registered
          /\ modem'.timers = modem.timers \ {"ds-scan"}
      BY <1>1, <3>1 DEF Disarm, Modems
    <3>3. Listening(modem) /\ ~Reached(modem)
      BY <3>2 DEF Listening, Reached
    <3>4. QED
      BY <1>1, <2>1, <3>2, <3>3, SameNears, NearsPolls
  <2>4. QED
    BY <2>2, <2>3
<1> SUFFICES ASSUME ~Lock PROVE PollsInv'
  BY <1>2
<1>3. /\ Listening(modem) /\ ~Reached(modem) /\ Unserved(modem) /\ Unmoved(modem)
      /\ owed \subseteq RangingAnswers
  BY <1>1 DEF ModemInv, GoodModem, PollsInv
<1>4. ASSUME Nears(modem, modem'), owed' \subseteq owed, pollsOn' = pollsOn PROVE PollsInv'
  BY <1>1, <1>3, <1>4, NearsPolls
<1>5. CASE UNCHANGED modem /\ owed' \subseteq owed /\ pollsOn' = pollsOn
  BY <1>1, <1>4, <1>5, SameNears
<1>6. CASE ReceiveSync
  BY <1>1, <1>3, <1>4, <1>6, OnSyncNears DEF ReceiveSync, Becomes
<1>7. ASSUME NEW u \in Ucds, ReceiveUcd(u) PROVE PollsInv'
  BY <1>1, <1>4, <1>7, OnUcdNears DEF ReceiveUcd, Becomes
<1>8. ASSUME NEW map \in Maps, ReceiveMap(map) PROVE PollsInv'
  <2>1. modem' \in OnMap(modem, map) /\ owed' = owed /\ pollsOn' = pollsOn
    BY <1>8 DEF ReceiveMap, Becomes
  <2>2. modem'.state = "ranging-station" => modem.state = "ranging-station"
    BY <1>1, <1>3, <2>1, OnMapGood
  <2>3. Idles(modem, modem')
    BY <1>1, <1>3, <2>1, OnMapIdles
  <2>4. QED
    BY <1>1, <1>4, <2>1, <2>2, <2>3, IdlesNears
<1>9. ASSUME NEW heard \in BOOLEAN, SendBurst(heard) PROVE PollsInv'
  BY <1>1, <1>3, <1>9, SendBurstPolls
<1>10. ASSUME NEW answer \in owed, NEW status \in {"continue", "success"}, NEW sid \in Sids,
              ReceiveRngRsp(answer, status, sid)
       PROVE  PollsInv'
  <2>1. modem' = OnRngRsp(modem, status, sid) /\ pollsOn' = pollsOn
    BY <1>10 DEF ReceiveRngRsp, Becomes
  <2>2. modem.state \notin Early /\ pollsOn # NoChannel /\ modem.ucd.ch <= pollsOn
    BY <1>1, <1>3, <1>10 DEF ModemInv, PollsInv
  <2>3. ~(Ranging(modem) /\ status = "success")
    BY <1>1, <1>3, <2>1, <2>2, OnRngRspGood
  <2>4. Idles(modem, modem')
    BY <1>1, <1>3, <2>1, <2>3, OnRngRspProceeds
  <2>5. /\ modem'.ucd = modem.ucd /\ modem'.uccTarget = modem.uccTarget
        /\ modem'.registered = modem.registered
    BY <2>4 DEF Idles
  <2>6. modem.ucd # NoUcd
    BY <1>3, <2>2 DEF Unmoved, Listening, Off, Early
  <2>7. Unmoved(modem')
    BY <1>3, <2>5, <2>6 DEF Unmoved
  <2>8. QED
    BY <2>1, <2>2, <2>5, <2>7 DEF PollsInv
<1>11. ASSUME NEW answer \in Answers \ RangingAnswers, NEW n, Receive(answer, n)
       PROVE  PollsInv'
  BY <1>3, <1>11 DEF Receive
<1>12. CASE ReceiveOffer \/ ReceiveDhcpAck \/ ReceiveTod
            \/ (\E block, micOk : ReceiveTftpData(block, micOk))
            \/ (\E ok : ReceiveRegRsp(ok))
  <2>1. {"OFFER", "DHCPACK", "TOD", "DATA", "REG-RSP"} \subseteq Answers \ RangingAnswers
    BY DEF Answers, RangingAnswers
  <2>2. QED
    BY <1>11, <1>12, <2>1
       DEF ReceiveOffer, ReceiveDhcpAck, ReceiveTod, ReceiveTftpData, ReceiveRegRsp
<1>13. ASSUME NEW ch \in UccTargets, ReceiveUccReq(ch) PROVE PollsInv'
  BY <1>3, <1>13 DEF ReceiveUccReq, Unserved, InService
<1>14. CASE BridgeFromLan \/ AnswerToHost
  BY <1>3, <1>14 DEF BridgeFromLan, AnswerToHost, Unserved, InService
<1>15. CASE PowerUp
  BY <1>3, <1>15 DEF PowerUp, Listening
<1>16. CASE ClearCableModem
  BY <1>1, <1>16, ReinitializeProceeds DEF ClearCableModem, Becomes
<1>17. ASSUME NEW timer \in modem.timers, NEW another \in BOOLEAN, Expire(timer, another)
       PROVE  PollsInv'
  <2>1. PICK n : n = Expired(modem, timer)
    OBVIOUS
  <2>2. /\ timer \in Timers /\ timer # "ds-scan"
        /\ modem' = (IF another THEN Arm(n, timer) ELSE n)
        /\ owed' = owed /\ pollsOn' = pollsOn
    BY <1>1, <1>17, <2>1 DEF Expire, Becomes, Modems
  <2>3. n \in Modems
    BY <1>1, <2>1, <2>2, ExpiredContinues
  <2>4. n.state = modem'.state /\ SameBasics(n, modem')
    BY <2>2, <2>3, ArmFields DEF SameBasics
  <2>5. Listening(n)
    BY <2>4 DEF Listening
  <2>6. modem.state \notin InService
    BY <1>3 DEF Unserved
  <2>7. Nears(modem, n)
    <3>1. CASE timer = "T3"
      <4>1. n = T3Expired(modem) /\ modem.state \notin Off \union Early
        BY <1>1, <2>1, <3>1 DEF Expired, GoodModem
      <4>2. n # Reinitialize(modem)
        BY <1>1, <2>5, ReinitializeProceeds
      <4>3. n = [Disarm(modem, "T3") EXCEPT !.retries = @ + 1, !.state = "ranging-wait"]
        BY <1>1, <2>6, <4>1, <4>2 DEF T3Expired
      <4>4. /\ n.state = "ranging-wait" /\ n.ucd = modem.ucd
            /\ n.uccTarget = modem.uccTarget /\ n.registered = modem.registered
        BY <1>1, <4>3 DEF Disarm, Modems
      <4>5. QED
        BY <1>1, <4>1, <4>4, SameNears
    <3>2. CASE timer \in {"tod", "tftp"}
      <4>1. n = Disarm(modem, timer)
        <5>1. modem.state # "time-of-day" /\ modem.state # "tftp-config"
          BY <2>6 DEF InService
        <5>2. CASE timer = "tod"
          BY <2>1, <5>1, <5>2 DEF Expired, TodTimeout, MacTimers
        <5>3. CASE timer = "tftp"
          BY <2>1, <5>1, <5>3 DEF Expired, TftpTimeout, MacTimers
        <5>4. QED
          BY <3>2, <5>2, <5>3
      <4>2. Idles(modem, n) /\ n.state = modem.state
        BY <1>1, <2>2, <4>1, ArmIdles, DisarmFields
      <4>3. QED
        BY <1>1, <4>2, IdlesNears
    <3>3. CASE timer \notin {"T3", "tod", "tftp"}
      <4>1. n = Reinitialize(modem) \/ n = Reinitialize(Disarm(modem, "lost-T6"))
        BY <2>1, <2>2, <3>3 DEF Expired, Timers, MacTimers
      <4>2. Disarm(modem, "lost-T6") \in Modems
        BY <1>1, DisarmFields DEF Timers
      <4>3. QED
        BY <1>1, <2>5, <4>1, <4>2, ReinitializeProceeds
    <3>4. QED
      BY <3>1, <3>2, <3>3
  <2>8. Nears(modem, modem')
    BY <2>4, <2>7 DEF Nears, Unmoved, SameBasics
  <2>9. QED
    BY <1>4, <2>2, <2>8
<1>18. QED
  BY <1>5, <1>6, <1>7, <1>8, <1>9, <1>10, <1>12, <1>13, <1>14, <1>15, <1>16, <1>17
     DEF Next, vars, MissGrant, LoseAnswer

(* If the operator moves modems in service only, the modem is attended for  *)
(* every plant, any losses, late MAPs, resets and moves: lost-sync and T4   *)
(* watch it, the timed waits of its initialisation have their timers, the   *)
(* polls it ranges for come on its channel unless it went to one of a lower *)
(* number, and it transmits requests and data under a SID only.             *)
THEOREM AttendedCorrect ==
    ASSUME UccOnlyOnline \/ UccTargets = {}
    PROVE  Spec => []Attended
<1> DEFINE IInv == DialogueInv /\ Waits(modem) /\ PollsInv
<1>1. Init => IInv
  <2> SUFFICES ASSUME Init PROVE IInv
    OBVIOUS
  <2>1. modem.state = "offline"
    BY DEF Init, PoweredOff
  <2>2. PollsInv /\ Waits(modem)
    BY <2>1 DEF PollsInv, Waits, Listening
  <2>3. QED
    BY <2>2, InitDialogue
<1>2. IInv /\ [Next]_vars => IInv'
  BY NextDialogue, NextPolls, WaitsPreserved DEF DialogueInv
<1>3. IInv => Attended
  <2> SUFFICES ASSUME IInv PROVE Attended
    OBVIOUS
  <2>1. TypeOK
    BY DEF DialogueInv, ModemInv, GoodModem, TypeOK
  <2>2. TimedWaits
    BY DEF Waits, TimedWaits
  <2>3. PollsCome
    BY DEF PollsInv, PollsCome, Listening, Reached
  <2>4. SidBeforeData
    <3>1. modem.bursts \in Seq(BurstsOf(Frames))
      BY DEF DialogueInv, ModemInv, GoodModem
    <3>2. \A i \in DOMAIN modem.bursts : modem.bursts[i] \in BurstsOf(Frames)
      BY <3>1
    <3>3. \A burst \in BurstsOf(Frames) : burst.kind # "RNG-REQ" => burst.sid # NoSid
      BY DEF BurstsOf
    <3>4. QED
      BY <3>2, <3>3 DEF SidBeforeData
  <2>5. Watched
    BY DEF DialogueInv, ModemInv, GoodModem, Watched, Reached, Unserved, Listening, InService
  <2>6. QED
    BY <2>1, <2>2, <2>3, <2>4, <2>5 DEF Attended
<1>4. QED
  BY <1>1, <1>2, <1>3, PTL DEF Spec

=============================================================================
