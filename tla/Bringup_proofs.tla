---------------------------- MODULE Bringup_proofs ----------------------------
(***************************************************************************)
(* Proofs about the plant: the CMTS's modem database, the upstream medium, *)
(* and the modems that come up over them, for any number of modems,        *)
(* channels, losses, resets and UCC-REQs.                                  *)
(***************************************************************************)
EXTENDS Bringup, UpstreamMedium, FiniteSetTheorems, TLAPS

(***************************************************************************)
(* What holds of the CMTS's modem database for any number of modems and    *)
(* channels, whatever the modems send and in whatever order.  The argument *)
(* for the SIDs: they are handed out in order and never taken back, so the *)
(* SIDs in use are the first ones, as many as there are records, and the   *)
(* allocator reaches a SID in use only when every modem has one.           *)
(***************************************************************************)

Allocated == Cardinality({m \in Macs : Known(m)})

(* The SIDs in use are the first ones, and the next one follows them.       *)
SidsInOrder ==
    /\ \A s \in Sids : bySid[s] # NoMac <=> s <= Allocated
    /\ nextSid = AfterSid(Allocated)

(* A channel polls no SID that nobody has.                                  *)
TrackedOwned == \A c \in Channels : \A s \in tracked[c] : bySid[s] # NoMac

Inv ==
    /\ CmtsTypeOK
    /\ SidsInOrder
    /\ SidsOwned
    /\ TrackedOwned
    /\ PolledOnItsChannel

-----------------------------------------------------------------------------
LEMMA Counted == Allocated \in Nat /\ Allocated <= MaxSid
<1>1. IsFiniteSet({m \in Macs : Known(m)})
      /\ Cardinality({m \in Macs : Known(m)}) <= Cardinality(Macs)
  BY MacsAssumption, FS_Subset
<1>2. Cardinality(Macs) \in Nat /\ Allocated \in Nat
  BY <1>1, MacsAssumption, FS_CardinalityType DEF Allocated
<1> QED BY <1>1, <1>2, EnoughSids DEF Allocated

(* A modem with no record leaves a SID for it.                              *)
LEMMA NextIsFree ==
    ASSUME CmtsTypeOK, SidsInOrder, NEW m \in Macs, ~Known(m)
    PROVE  /\ nextSid = Allocated + 1
           /\ nextSid \in Sids
           /\ bySid[nextSid] = NoMac
<1> DEFINE known == {k \in Macs : Known(k)}
<1>1. /\ IsFiniteSet(known)
      /\ Cardinality(known) <= Cardinality(Macs)
      /\ Cardinality(known) = Cardinality(Macs) => known = Macs
  <2>1. known \subseteq Macs OBVIOUS
  <2>2. IsFiniteSet(Macs) BY MacsAssumption
  <2> HIDE DEF known
  <2> QED BY <2>1, <2>2, FS_Subset
<1>2. known # Macs OBVIOUS
<1>3. Allocated < Cardinality(Macs)
  <2>1. Cardinality(known) # Cardinality(Macs) BY <1>1, <1>2
  <2>2. Cardinality(known) \in Nat /\ Cardinality(Macs) \in Nat
    BY <1>1, MacsAssumption, FS_CardinalityType
  <2> QED BY <1>1, <2>1, <2>2 DEF Allocated
<1>4. Allocated \in Nat /\ Cardinality(Macs) \in Nat /\ MaxSid \in Nat
  BY Counted, MacsAssumption, FS_CardinalityType, EnoughSids
<1>5. nextSid = Allocated + 1 /\ nextSid \in 1..MaxSid
  BY <1>3, <1>4, EnoughSids DEF SidsInOrder, AfterSid
<1> QED BY <1>4, <1>5 DEF SidsInOrder, Sids

(* A new record is one more.                                                *)
LEMMA OneMore ==
    ASSUME CmtsTypeOK, NEW m \in Macs, ~Known(m), NEW s \in Sids,
           sid' = [sid EXCEPT ![m] = s]
    PROVE  Allocated' = Allocated + 1
<1> DEFINE known == {k \in Macs : Known(k)}
<1>1. {k \in Macs : Known(k)}' = known \union {m}
  BY DEF Known, CmtsTypeOK, NoSid, Sids
<1>2. IsFiniteSet(known) /\ m \notin known
  <2>1. known \subseteq Macs /\ m \notin known OBVIOUS
  <2>2. IsFiniteSet(Macs) BY MacsAssumption
  <2> HIDE DEF known
  <2> QED BY <2>1, <2>2, FS_Subset
<1>3. Cardinality(known \union {m}) = Cardinality(known) + 1
  <2> HIDE DEF known
  <2> QED BY <1>2, FS_AddElement
<1> QED BY <1>1, <1>3 DEF Allocated

-----------------------------------------------------------------------------
(* Whatever a ranging exchange makes of a record's state is a state, and a  *)
(* modem in service stays there.                                            *)
LEMMA RangedState ==
    ASSUME NEW before \in RecordStates, NEW created \in BOOLEAN, NEW converged \in BOOLEAN
    PROVE  /\ Ranged(before, created, converged) \in RecordStates
           /\ before \in Online => Ranged(before, created, converged) = before
BY DEF Ranged, RecordStates, Online

LEMMA InitInv == CmtsInit => Inv
<1> SUFFICES ASSUME CmtsInit PROVE Inv
  OBVIOUS
<1>1. {m \in Macs : Known(m)} = {}
  BY DEF CmtsInit, Known
<1>2. Allocated = 0
  BY <1>1, FS_EmptySet DEF Allocated
<1>3. CmtsTypeOK
  BY EnoughSids DEF CmtsInit, CmtsTypeOK, Known, RecordStates, Sids
<1>4. SidsInOrder
  BY <1>2, EnoughSids DEF CmtsInit, SidsInOrder, AfterSid, Sids
<1>5. SidsOwned /\ TrackedOwned /\ PolledOnItsChannel
  BY DEF CmtsInit, SidsOwned, TrackedOwned, PolledOnItsChannel, Known
<1> QED BY <1>3, <1>4, <1>5 DEF Inv

(* The first RNG-REQ of a modem.                                            *)
LEMMA CreatedKeepsInv ==
    ASSUME Inv, NEW m \in Macs, NEW c \in Channels, NEW initial \in BOOLEAN,
           NEW usable \in BOOLEAN, RngReq(m, c, initial, usable), ~Known(m)
    PROVE  Inv'
<1> DEFINE s == nextSid
<1>1. s \in Sids /\ s = Allocated + 1 /\ bySid[s] = NoMac
  BY NextIsFree DEF Inv
<1>2. /\ sid' = [sid EXCEPT ![m] = s]
      /\ bySid' = [bySid EXCEPT ![s] = m]
      /\ nextSid' = AfterSid(s)
      /\ channel' = [channel EXCEPT ![m] = c]
      /\ tracked' = [tracked EXCEPT ![c] = @ \union {s}]
      /\ access' = access
  BY DEF RngReq, Creates, Moves, Untracked
<1>3. ranging' \in [Channels -> SUBSET Sids] /\ state' \in [Macs -> RecordStates]
  <2>1. state[m] \in RecordStates /\ Converged(initial, usable) \in BOOLEAN
    BY DEF Inv, CmtsTypeOK, Converged
  <2>2. Ranged(state[m], TRUE, Converged(initial, usable)) \in RecordStates
    BY <2>1, RangedState
  <2>3. Creates(m, initial) = TRUE
    BY DEF Creates
  <2>4. state' = [state EXCEPT ![m] = Ranged(@, TRUE, Converged(initial, usable))]
    BY <2>3 DEF RngReq
  <2>5. ranging' = [ranging EXCEPT ![c] = IF Converged(initial, usable) THEN @ \ {s}
                                          ELSE @ \union {s}]
    BY DEF RngReq, Creates, Moves, Untracked
  <2> QED BY ZenonT(40), <1>1, <2>2, <2>4, <2>5 DEF Inv, CmtsTypeOK
<1>4. AfterSid(s) \in Sids
  BY <1>1, EnoughSids DEF AfterSid, Sids
<1>5. CmtsTypeOK'
  BY <1>1, <1>2, <1>3, <1>4, ChannelsAssumption DEF Inv, CmtsTypeOK, Known
<1>6. Allocated' = Allocated + 1
  BY <1>1, <1>2, OneMore DEF Inv
<1>7. SidsInOrder'
  <2>1. Allocated \in Nat /\ m # NoMac
    BY Counted, MacsAssumption
  <2>2. \A t \in Sids : bySid'[t] # NoMac <=> t <= Allocated + 1
    BY <1>1, <1>2, <2>1 DEF Inv, CmtsTypeOK, SidsInOrder, Sids
  <2> QED BY <1>1, <1>2, <1>6, <2>2 DEF SidsInOrder
<1>8. \A k \in Macs : Known(k) => sid[k] # s /\ sid[k] \in Sids
  BY <1>1, MacsAssumption DEF Inv, CmtsTypeOK, Known, SidsOwned
<1>9. \A k \in Macs : Known(k)' <=> k = m \/ Known(k)
  BY <1>1, <1>2 DEF Known, Inv, CmtsTypeOK, NoSid, Sids
<1>10. SidsOwned'
  <2>1. \A k \in Macs : Known(k)' => bySid'[sid'[k]] = k
    BY <1>1, <1>2, <1>8, <1>9 DEF Inv, CmtsTypeOK, SidsOwned
  <2>2. \A t \in Sids : bySid'[t] # NoMac => sid'[bySid'[t]] = t
    <3> SUFFICES ASSUME NEW t \in Sids, bySid'[t] # NoMac PROVE sid'[bySid'[t]] = t
      OBVIOUS
    <3>1. CASE t = s
      BY <3>1, <1>1, <1>2 DEF Inv, CmtsTypeOK
    <3>2. CASE t # s
      <4>1. bySid'[t] = bySid[t] /\ bySid[t] \in Macs /\ sid[bySid[t]] = t
        BY <3>2, <1>2 DEF Inv, CmtsTypeOK, SidsOwned
      <4>2. bySid[t] # m
        BY <4>1 DEF Known, NoSid, Sids
      <4> QED BY <4>1, <4>2, <1>2 DEF Inv, CmtsTypeOK
    <3> QED BY <3>1, <3>2
  <2> QED BY <2>1, <2>2 DEF SidsOwned, Known
<1>11. TrackedOwned'
  BY <1>1, <1>2, MacsAssumption DEF Inv, CmtsTypeOK, TrackedOwned
<1>12. PolledOnItsChannel'
  <2> SUFFICES ASSUME NEW k \in Macs, NEW d \in Channels, Known(k)'
               PROVE  sid'[k] \in tracked'[d] <=> d = channel'[k]
    BY DEF PolledOnItsChannel, Known
  <2>1. CASE k = m
    BY <2>1, <1>1, <1>2 DEF Inv, CmtsTypeOK, TrackedOwned
  <2>2. CASE k # m
    <3>1. Known(k) /\ sid[k] # s
      BY <2>2, <1>8, <1>9
    <3>2. sid'[k] = sid[k] /\ channel'[k] = channel[k]
      BY <2>2, <1>2 DEF Inv, CmtsTypeOK
    <3>3. sid[k] \in tracked'[d] <=> sid[k] \in tracked[d]
      BY <3>1, <1>2 DEF Inv, CmtsTypeOK
    <3> QED BY <3>1, <3>2, <3>3 DEF Inv, PolledOnItsChannel
  <2> QED BY <2>1, <2>2
<1> QED BY <1>5, <1>7, <1>10, <1>11, <1>12 DEF Inv

(* A later one: its channel's scheduler polls it afterwards, and if it came *)
(* from another channel that one's does not.                                *)
LEMMA HeardAgainKeepsInv ==
    ASSUME Inv, NEW m \in Macs, NEW c \in Channels, NEW initial \in BOOLEAN,
           NEW usable \in BOOLEAN, RngReq(m, c, initial, usable), Known(m)
    PROVE  Inv'
<1> DEFINE done == Converged(initial, usable)
           s    == sid[m]
<1>1. /\ UNCHANGED <<bySid, nextSid, access>>
      /\ sid' = sid
      /\ channel' = [channel EXCEPT ![m] = c]
      /\ state' = [state EXCEPT ![m] = Ranged(@, FALSE, done)]
  <2>1. Creates(m, initial) = FALSE
    BY DEF Creates
  <2> QED BY <2>1 DEF RngReq, Inv, CmtsTypeOK
<1>2. s \in Sids /\ bySid[s] = m
  BY DEF Inv, CmtsTypeOK, SidsOwned, Known
<1>3. /\ ranging' \in [Channels -> SUBSET Sids]
      /\ state' \in [Macs -> RecordStates]
  <2>1. Ranged(state[m], FALSE, done) \in RecordStates
    BY RangedState DEF Inv, CmtsTypeOK, Converged
  <2>2. Untracked(ranging, m, c) \in [Channels -> SUBSET Sids]
    BY DEF Inv, CmtsTypeOK, Untracked
  <2>3. ranging' = [Untracked(ranging, m, c) EXCEPT
                       ![c] = IF done THEN @ \ {s}
                              ELSE IF Moves(m, c) THEN @ \union {s} ELSE @]
    BY DEF RngReq, Creates
  <2>4. ranging' \in [Channels -> SUBSET Sids]
    <3> HIDE DEF s, done
    <3> QED BY <1>2, <2>2, <2>3
  <2> QED BY <1>1, <2>1, <2>4 DEF Inv, CmtsTypeOK
<1>4. channel[m] \in Channels
  BY DEF Inv, CmtsTypeOK, Known
<1>5. \A d \in Channels :
         tracked'[d] = IF d = c THEN tracked[d] \union {s} ELSE tracked[d] \ {s}
  <2>1. \A d \in Channels : s \in tracked[d] <=> d = channel[m]
    BY DEF Inv, PolledOnItsChannel, Known
  <2>2. tracked' = [Untracked(tracked, m, c) EXCEPT
                       ![c] = IF Moves(m, c) \/ done THEN @ \union {s} ELSE @]
    BY DEF RngReq, Creates
  <2>3. CASE Moves(m, c)
    <3>1. channel[m] # c
          /\ Untracked(tracked, m, c) = [tracked EXCEPT ![channel[m]] = @ \ {s}]
      BY <2>3 DEF Moves, Untracked
    <3>2. tracked' = [[tracked EXCEPT ![channel[m]] = @ \ {s}] EXCEPT ![c] = @ \union {s}]
      BY <2>2, <2>3, <3>1
    <3>3. DOMAIN tracked = Channels
      BY DEF Inv, CmtsTypeOK
    <3> SUFFICES ASSUME NEW d \in Channels
                 PROVE  tracked'[d] = IF d = c THEN tracked[d] \union {s} ELSE tracked[d] \ {s}
      OBVIOUS
    <3> HIDE DEF s
    <3>4. CASE d = c
      BY <3>1, <3>2, <3>3, <3>4
    <3>5. CASE d # c
      <4>1. tracked'[d] = IF d = channel[m] THEN tracked[d] \ {s} ELSE tracked[d]
        BY <3>2, <3>3, <3>5
      <4>2. s \in tracked[d] <=> d = channel[m]
        BY <2>1
      <4> QED BY <4>1, <4>2, <3>5
    <3> QED BY <3>4, <3>5
  <2>4. CASE ~Moves(m, c)
    <3>1. channel[m] = c /\ Untracked(tracked, m, c) = tracked
      BY <2>4 DEF Moves, Untracked
    <3>2. s \in tracked[c]
      BY <2>1, <3>1
    <3> QED BY <2>1, <2>2, <2>4, <3>1, <3>2 DEF Inv, CmtsTypeOK
  <2> QED BY <2>3, <2>4
<1>6. DOMAIN tracked' = Channels /\ tracked' = [d \in Channels |-> tracked'[d]]
  BY DEF RngReq, Untracked, Inv, CmtsTypeOK
<1>7. CmtsTypeOK'
  <2>1. tracked' \in [Channels -> SUBSET Sids]
    <3> HIDE DEF s
    <3>1. \A d \in Channels : tracked'[d] \in SUBSET Sids
      BY <1>2, <1>5 DEF Inv, CmtsTypeOK
    <3> QED BY <1>6, <3>1
  <2> QED BY <1>1, <1>3, <2>1, ChannelsAssumption DEF Inv, CmtsTypeOK, Known
<1>8. SidsInOrder'
  <2>1. Allocated' = Allocated
    BY <1>1 DEF Allocated, Known
  <2> QED BY <1>1, <2>1 DEF Inv, SidsInOrder
<1>9. SidsOwned'
  BY <1>1 DEF Inv, SidsOwned, Known
<1>10. TrackedOwned'
  BY <1>1, <1>2, <1>5, MacsAssumption DEF Inv, TrackedOwned
<1>11. PolledOnItsChannel'
  <2> SUFFICES ASSUME NEW k \in Macs, NEW d \in Channels, Known(k)
               PROVE  sid[k] \in tracked'[d] <=> d = channel'[k]
    BY <1>1 DEF PolledOnItsChannel, Known
  <2>1. CASE k = m
    BY <2>1, <1>1, <1>5 DEF Inv, CmtsTypeOK
  <2>2. CASE k # m
    <3>1. sid[k] # s
      BY <2>2, <1>2 DEF Inv, SidsOwned
    <3>2. channel'[k] = channel[k]
      BY <2>2, <1>1 DEF Inv, CmtsTypeOK
    <3>3. sid[k] \in tracked'[d] <=> sid[k] \in tracked[d]
      BY <3>1, <1>5
    <3> QED BY <3>2, <3>3 DEF Inv, PolledOnItsChannel
  <2> QED BY <2>1, <2>2
<1> QED BY <1>7, <1>8, <1>9, <1>10, <1>11 DEF Inv

(* The handlers that leave the SIDs and the channels alone.                 *)
LEMMA StateOnlyKeepsInv ==
    ASSUME Inv, UNCHANGED <<sid, bySid, nextSid, channel, tracked, ranging>>,
           state' \in [Macs -> RecordStates], access' \in [Macs -> BOOLEAN]
    PROVE  Inv'
<1>1. Allocated' = Allocated
  BY DEF Allocated, Known
<1> QED BY <1>1 DEF Inv, CmtsTypeOK, SidsInOrder, SidsOwned, TrackedOwned,
                    PolledOnItsChannel, Known

LEMMA RegReqKeepsInv ==
    ASSUME Inv, NEW m \in Macs, NEW verdict, NEW gives \in BOOLEAN,
           RegReq(m, verdict, gives)
    PROVE  Inv'
<1>1. state' \in [Macs -> RecordStates]
  BY DEF RegReq, Refuses, Inv, CmtsTypeOK, RecordStates
<1>2. access' \in [Macs -> BOOLEAN]
  BY DEF RegReq, Inv, CmtsTypeOK
<1> QED BY <1>1, <1>2, StateOnlyKeepsInv DEF RegReq

LEMMA AdvanceKeepsInv ==
    ASSUME Inv, NEW m \in Macs, NEW from, NEW to \in RecordStates, Advance(m, from, to)
    PROVE  Inv'
<1>1. state' \in [Macs -> RecordStates] /\ access' \in [Macs -> BOOLEAN]
  BY DEF Advance, Inv, CmtsTypeOK
<1> QED BY <1>1, StateOnlyKeepsInv DEF Advance

(* A REG-ACK moves nobody: its channel polled the modem already.            *)
LEMMA RegAckKeepsInv == ASSUME Inv, NEW m \in Macs, RegAck(m) PROVE Inv'
<1>1. channel[m] \in Channels /\ sid[m] \in tracked[channel[m]] /\ sid[m] \in Sids
  BY DEF RegAck, Inv, CmtsTypeOK, PolledOnItsChannel, Known
<1>2. tracked' = tracked
  BY <1>1 DEF RegAck, Inv, CmtsTypeOK
<1>3. ranging' \in [Channels -> SUBSET Sids]
  BY <1>1 DEF RegAck, Inv, CmtsTypeOK
<1>4. state' \in [Macs -> RecordStates]
  BY DEF RegAck, Inv, CmtsTypeOK, RecordStates
<1>5. Allocated' = Allocated
  BY DEF RegAck, Allocated, Known
<1> QED BY <1>2, <1>3, <1>4, <1>5
        DEF RegAck, Inv, CmtsTypeOK, SidsInOrder, SidsOwned, TrackedOwned,
            PolledOnItsChannel, Known

LEMMA NextInv == Inv /\ [CmtsNext]_cmtsVars => Inv'
<1> SUFFICES ASSUME Inv, [CmtsNext]_cmtsVars PROVE Inv'
  OBVIOUS
<1>1. CASE UNCHANGED cmtsVars
  BY <1>1, StateOnlyKeepsInv DEF cmtsVars, Inv, CmtsTypeOK
<1>2. CASE CmtsNext
  <2> PICK m \in Macs :
        \/ \E c \in Channels, initial, usable \in BOOLEAN : RngReq(m, c, initial, usable)
        \/ \E verdict \in {"ok", "mic", "class"}, gives \in BOOLEAN :
              RegReq(m, verdict, gives)
        \/ RegAck(m) \/ RelayFromCable(m) \/ RelayAck(m) \/ TrackTod(m) \/ TrackTftp(m)
    BY <1>2 DEF CmtsNext
  <2>1. CASE \E c \in Channels, initial, usable \in BOOLEAN : RngReq(m, c, initial, usable)
    BY <2>1, CreatedKeepsInv, HeardAgainKeepsInv
  <2>2. CASE \E verdict \in {"ok", "mic", "class"}, gives \in BOOLEAN :
               RegReq(m, verdict, gives)
    BY <2>2, RegReqKeepsInv
  <2>3. CASE RegAck(m)
    BY <2>3, RegAckKeepsInv
  <2>4. CASE RelayFromCable(m) \/ RelayAck(m) \/ TrackTod(m) \/ TrackTftp(m)
    BY <2>4, AdvanceKeepsInv DEF RelayFromCable, RelayAck, TrackTod, TrackTftp, RecordStates
  <2> QED BY <2>1, <2>2, <2>3, <2>4
<1> QED BY <1>1, <1>2

-----------------------------------------------------------------------------
(* The database keeps its types for any number of modems, channels and SIDs *)
(* as long as there is a SID for every modem.                               *)
THEOREM CmtsTypeCorrect == CmtsSpec => []CmtsTypeOK
<1>1. Inv => CmtsTypeOK
  BY DEF Inv
<1> QED BY <1>1, InitInv, NextInv, PTL DEF CmtsSpec

(* by_mac and by_sid agree and no two modems share a SID, for any number of *)
(* modems: allocate_sid, which never looks whether its SID is free, gives   *)
(* none out twice.                                                          *)
THEOREM SidsOwnedCorrect == CmtsSpec => []SidsOwned
<1>1. Inv => SidsOwned
  BY DEF Inv
<1> QED BY <1>1, InitInv, NextInv, PTL DEF CmtsSpec

(* Whatever RNG-REQs arrive on whatever channels, each modem is polled on   *)
(* the channel of its record and nowhere else.                              *)
THEOREM PolledOnItsChannelCorrect == CmtsSpec => []PolledOnItsChannel
<1>1. Inv => PolledOnItsChannel
  BY DEF Inv
<1> QED BY <1>1, InitInv, NextInv, PTL DEF CmtsSpec

(* One handler's step takes no modem but a refused one out of service.      *)
LEMMA ServiceKept ==
    ASSUME CmtsTypeOK, CmtsNext, NEW k \in Macs, state[k] \in Online, state'[k] \notin Online
    PROVE  state'[k] \in Rejected
<1> PICK m \in Macs :
      \/ \E c \in Channels, initial, usable \in BOOLEAN : RngReq(m, c, initial, usable)
      \/ \E verdict \in {"ok", "mic", "class"}, gives \in BOOLEAN : RegReq(m, verdict, gives)
      \/ RegAck(m) \/ RelayFromCable(m) \/ RelayAck(m) \/ TrackTod(m) \/ TrackTftp(m)
  BY DEF CmtsNext
<1>1. CASE \E c \in Channels, initial, usable \in BOOLEAN : RngReq(m, c, initial, usable)
  <2> PICK c \in Channels, initial \in BOOLEAN, usable \in BOOLEAN :
           RngReq(m, c, initial, usable)
    BY <1>1
  <2>1. state[k] \in RecordStates /\ Creates(m, initial) \in BOOLEAN
        /\ Converged(initial, usable) \in BOOLEAN
    BY DEF CmtsTypeOK, Creates, Converged
  <2>2. state' = [state EXCEPT ![m] = Ranged(state[m], Creates(m, initial),
                                             Converged(initial, usable))]
    BY DEF RngReq
  <2>3. Ranged(state[k], Creates(m, initial), Converged(initial, usable)) = state[k]
    BY <2>1, RangedState
  <2>4. state'[k] = state[k]
    BY <2>2, <2>3 DEF CmtsTypeOK
  <2> QED BY <2>4
<1>2. CASE \E verdict \in {"ok", "mic", "class"}, gives \in BOOLEAN : RegReq(m, verdict, gives)
  BY <1>2 DEF RegReq, CmtsTypeOK, Rejected
<1>3. CASE RegAck(m)
  BY <1>3 DEF RegAck, CmtsTypeOK, Online
<1>4. CASE RelayFromCable(m) \/ RelayAck(m) \/ TrackTod(m) \/ TrackTftp(m)
  BY <1>4 DEF RelayFromCable, RelayAck, TrackTod, TrackTftp, Advance, CmtsTypeOK, Online
<1> QED BY <1>1, <1>2, <1>3, <1>4

(* No order of the modems' messages takes a modem out of service, except a  *)
(* registration the CMTS refuses.                                           *)
THEOREM LeavesServiceRefusedCorrect == CmtsSpec => LeavesServiceRefused
<1>1. Inv /\ [CmtsNext]_cmtsVars
        => [\A m \in Macs : state[m] \in Online /\ state'[m] \notin Online
                               => state'[m] \in Rejected]_cmtsVars
  BY ServiceKept DEF Inv
<1> QED BY <1>1, InitInv, NextInv, PTL DEF CmtsSpec, LeavesServiceRefused

-----------------------------------------------------------------------------
(***************************************************************************)
(* What holds of the upstream medium for any number of modems at any       *)
(* distance, and any sequence of bursts.  The argument: a burst that has   *)
(* not fully arrived is still remembered (Remembers), so that a new one,   *)
(* which arrives from now on, is compared with all that it can hit; and    *)
(* one that was handed to the CMTS has arrived (Arrived), so that no later *)
(* one hits it.                                                            *)
(***************************************************************************)

(* A channel remembers every burst on it that has not fully arrived.        *)
Remembers ==
    \A i \in DOMAIN bursts : bursts[i].end > now => i \in inflight[bursts[i].ch]

(* It remembers bursts of its own only.                                     *)
OwnBursts ==
    \A ch \in UsChannels : \A i \in inflight[ch] :
        i \in DOMAIN bursts /\ bursts[i].ch = ch

(* The CMTS is handed a burst when it has arrived.                          *)
Arrived == \A i \in DOMAIN bursts : bursts[i].verdict # "flying" => bursts[i].end <= now

(* Nothing happens later than now.                                          *)
Past ==
    /\ \A i \in DOMAIN bursts : bursts[i].sent <= now
    /\ \A w \in noise : w.start <= now

MediumInv ==
    /\ MediumTypeOK
    /\ Remembers
    /\ OwnBursts
    /\ Arrived
    /\ Past
    /\ OverlappingCollide
    /\ CollisionHasCause
    /\ VerdictStands
    /\ NoiseDestroys

(* The bursts after a transmission: one more, and of the others nothing is  *)
(* changed but that those it hits have collided.                            *)
LEMMA Transmitted ==
    ASSUME MediumInv, NEW m \in Modems, NEW ch \in UsChannels, NEW duration \in Durations,
           NEW dropped \in BOOLEAN, TransmitUpstream(m, ch, duration, dropped)
    PROVE  LET n == Len(bursts) + 1
               hit == Hits(ch, [start |-> now + Delay[m], end |-> now + Delay[m] + duration])
           IN  /\ bursts' \in Seq(Bursts)
               /\ DOMAIN bursts = 1..(n - 1)
               /\ DOMAIN bursts' = 1..n
               /\ \A i \in 1..(n - 1) :
                      /\ bursts'[i].ch = bursts[i].ch
                      /\ bursts'[i].sent = bursts[i].sent
                      /\ bursts'[i].start = bursts[i].start
                      /\ bursts'[i].end = bursts[i].end
                      /\ bursts'[i].lost = bursts[i].lost
                      /\ bursts'[i].verdict = bursts[i].verdict
                      /\ bursts'[i].collided = (bursts[i].collided \/ i \in hit)
               /\ bursts'[n].ch = ch
               /\ bursts'[n].sent = now
               /\ bursts'[n].start = now + Delay[m]
               /\ bursts'[n].end = now + Delay[m] + duration
               /\ bursts'[n].verdict = "flying"
               /\ bursts'[n].collided = (hit # {})
               /\ bursts'[n].lost = (dropped \/
                      Noisy(ch, [start |-> now + Delay[m], end |-> now + Delay[m] + duration]))
<1> DEFINE n == Len(bursts) + 1
           window == [start |-> now + Delay[m], end |-> now + Delay[m] + duration]
           hit == Hits(ch, window)
           marked == [i \in DOMAIN bursts |-> [bursts[i] EXCEPT !.collided = @ \/ i \in hit]]
           burst == [ch |-> ch, sent |-> now, start |-> now + Delay[m],
                     end |-> now + Delay[m] + duration,
                     collided |-> hit # {},
                     lost |-> dropped \/ Noisy(ch, window),
                     verdict |-> "flying"]
<1>1. bursts' = Append(marked, burst)
  BY DEF TransmitUpstream
<1>2. bursts \in Seq(Bursts) /\ now \in Nat
  BY DEF MediumInv, MediumTypeOK
<1>3. Delay[m] \in Nat /\ duration \in Nat
  BY MediumAssumption
<1>4. burst \in Bursts
  <2>1. (hit # {}) \in BOOLEAN
    OBVIOUS
  <2>2. (dropped \/ Noisy(ch, window)) \in BOOLEAN
    OBVIOUS
  <2> QED BY <1>2, <1>3, <2>1, <2>2 DEF Bursts
<1>5. ASSUME NEW i \in DOMAIN bursts PROVE marked[i] \in Bursts
  <2>1. bursts[i] \in Bursts
    BY <1>2
  <2>2. (bursts[i].collided \/ i \in hit) \in BOOLEAN
    OBVIOUS
  <2> QED BY <2>1, <2>2 DEF Bursts
<1>6. marked \in Seq(Bursts) /\ Len(marked) = Len(bursts)
  BY <1>2, <1>5
<1>7. bursts' \in Seq(Bursts) /\ DOMAIN bursts' = 1..n /\ DOMAIN bursts = 1..(n - 1)
  BY <1>1, <1>2, <1>4, <1>6
<1>8. bursts'[n] = burst
  BY <1>1, <1>6
<1>9. ASSUME NEW i \in 1..(n - 1) PROVE bursts'[i] = marked[i]
  BY <1>1, <1>2, <1>6
<1>10. ASSUME NEW i \in 1..(n - 1)
       PROVE  /\ bursts'[i].ch = bursts[i].ch
              /\ bursts'[i].sent = bursts[i].sent
              /\ bursts'[i].start = bursts[i].start
              /\ bursts'[i].end = bursts[i].end
              /\ bursts'[i].lost = bursts[i].lost
              /\ bursts'[i].verdict = bursts[i].verdict
              /\ bursts'[i].collided = (bursts[i].collided \/ i \in hit)
  <2>1. i \in DOMAIN bursts /\ bursts[i] \in Bursts
    BY <1>2, <1>7
  <2>2. bursts'[i] = [bursts[i] EXCEPT !.collided = @ \/ i \in hit]
    BY <1>9, <2>1
  <2> QED BY <2>1, <2>2 DEF Bursts
<1>11. /\ bursts'[n].ch = ch
       /\ bursts'[n].sent = now
       /\ bursts'[n].start = now + Delay[m]
       /\ bursts'[n].end = now + Delay[m] + duration
       /\ bursts'[n].verdict = "flying"
       /\ bursts'[n].collided = (hit # {})
       /\ bursts'[n].lost = (dropped \/ Noisy(ch, window))
  BY <1>8
<1> QED BY <1>7, <1>10, <1>11

(* A burst that the new one overlaps is among those it hits.                *)
LEMMA HitsAll ==
    ASSUME MediumInv, NEW m \in Modems, NEW ch \in UsChannels, NEW duration \in Durations,
           NEW i \in DOMAIN bursts
    PROVE  LET window == [start |-> now + Delay[m], end |-> now + Delay[m] + duration]
           IN  /\ bursts[i].ch = ch /\ Overlaps(window, bursts[i]) => i \in Hits(ch, window)
               /\ i \in Hits(ch, window) =>
                      /\ bursts[i].ch = ch
                      /\ Overlaps(window, bursts[i])
                      /\ bursts[i].end > now
<1> DEFINE window == [start |-> now + Delay[m], end |-> now + Delay[m] + duration]
<1>1. now \in Nat /\ bursts[i].end \in Nat /\ bursts[i].start \in Nat
  <2>1. bursts[i] \in Bursts
    BY DEF MediumInv, MediumTypeOK
  <2> QED BY <2>1 DEF MediumInv, MediumTypeOK, Bursts
<1>2. Delay[m] \in Nat /\ duration \in Nat /\ Linger \in Nat
  BY MediumAssumption
<1>3. Overlaps(window, bursts[i]) => bursts[i].end > now
  BY <1>1, <1>2 DEF Overlaps
<1>4. bursts[i].ch = ch /\ bursts[i].end > now => i \in Remembered(ch)
  BY <1>1, <1>2 DEF Remembered, MediumInv, Remembers
<1>5. i \in Remembered(ch) => bursts[i].ch = ch
  BY DEF Remembered, MediumInv, OwnBursts
<1> QED BY <1>3, <1>4, <1>5 DEF Hits

LEMMA TransmitKeepsInv ==
    ASSUME MediumInv, NEW m \in Modems, NEW ch \in UsChannels, NEW duration \in Durations,
           NEW dropped \in BOOLEAN, TransmitUpstream(m, ch, duration, dropped)
    PROVE  MediumInv'
<1> DEFINE n == Len(bursts) + 1
           window == [start |-> now + Delay[m], end |-> now + Delay[m] + duration]
           hit == Hits(ch, window)
<1>1. /\ bursts' \in Seq(Bursts)
      /\ DOMAIN bursts = 1..(n - 1)
      /\ DOMAIN bursts' = 1..n
  BY Transmitted
<1>2. ASSUME NEW i \in 1..(n - 1)
      PROVE  /\ bursts'[i].ch = bursts[i].ch
             /\ bursts'[i].sent = bursts[i].sent
             /\ bursts'[i].start = bursts[i].start
             /\ bursts'[i].end = bursts[i].end
             /\ bursts'[i].lost = bursts[i].lost
             /\ bursts'[i].verdict = bursts[i].verdict
             /\ bursts'[i].collided = (bursts[i].collided \/ i \in hit)
  BY Transmitted
<1>3. /\ bursts'[n].ch = ch
      /\ bursts'[n].sent = now
      /\ bursts'[n].start = window.start
      /\ bursts'[n].end = window.end
      /\ bursts'[n].verdict = "flying"
      /\ bursts'[n].collided = (hit # {})
      /\ bursts'[n].lost = (dropped \/ Noisy(ch, window))
  BY Transmitted
<1>4. n \in Nat /\ now \in Nat /\ now' = now /\ noise' = noise
  BY DEF MediumInv, MediumTypeOK, TransmitUpstream
<1>5. inflight' = [inflight EXCEPT ![ch] = Remembered(ch) \union {n}]
  BY DEF TransmitUpstream
<1>6. \A i \in 1..(n - 1) : bursts[i] \in Bursts
  BY <1>1 DEF MediumInv, MediumTypeOK
<1>7. \A c \in UsChannels : inflight[c] \in SUBSET Nat
  BY DEF MediumInv, MediumTypeOK
<1>8. MediumTypeOK'
  BY <1>1, <1>4, <1>5, <1>7 DEF MediumInv, MediumTypeOK, Remembered
<1>9. Remembers'
  <2> SUFFICES ASSUME NEW i \in 1..n, bursts'[i].end > now
               PROVE  i \in inflight'[bursts'[i].ch]
    BY <1>1, <1>4 DEF Remembers
  <2>1. CASE i = n
    BY <2>1, <1>3, <1>5 DEF MediumInv, MediumTypeOK
  <2>2. CASE i \in 1..(n - 1)
    <3>1. bursts[i].ch \in UsChannels /\ bursts[i].end \in Nat
      BY <2>2, <1>6 DEF Bursts
    <3>2. i \in inflight[bursts[i].ch]
      BY <2>2, <1>1, <1>2 DEF MediumInv, Remembers
    <3>3. bursts[i].ch = ch => i \in Remembered(ch)
      BY <2>2, <3>1, <3>2, <1>2, <1>4, MediumAssumption DEF Remembered
    <3> QED BY <2>2, <3>1, <3>2, <3>3, <1>2, <1>5 DEF MediumInv, MediumTypeOK
  <2> QED BY <2>1, <2>2, <1>4
<1>10. OwnBursts'
  <2> SUFFICES ASSUME NEW c \in UsChannels, NEW i \in inflight'[c]
               PROVE  i \in 1..n /\ bursts'[i].ch = c
    BY <1>1 DEF OwnBursts
  <2>1. CASE c = ch /\ i = n
    BY <2>1, <1>3, <1>4
  <2>2. CASE i \in inflight[c]
    <3>1. i \in 1..(n - 1) /\ bursts[i].ch = c
      BY <2>2, <1>1 DEF MediumInv, OwnBursts
    <3> QED BY <3>1, <1>2, <1>4
  <2> QED BY <2>1, <2>2, <1>5 DEF Remembered, MediumInv, MediumTypeOK
<1>11. Arrived'
  <2> SUFFICES ASSUME NEW i \in 1..n, bursts'[i].verdict # "flying"
               PROVE  bursts'[i].end <= now
    BY <1>1, <1>4 DEF Arrived
  <2>1. i \in 1..(n - 1)
    BY <1>3, <1>4
  <2> QED BY <2>1, <1>1, <1>2 DEF MediumInv, Arrived
<1>12. ASSUME NEW i \in 1..(n - 1)
       PROVE  /\ bursts'[i].ch = bursts'[n].ch /\ Overlaps(bursts'[n], bursts'[i]) <=> i \in hit
              /\ i \in hit => bursts[i].end > now
  BY <1>1, <1>2, <1>3, HitsAll DEF Overlaps
<1>13. OverlappingCollide'
  <2> SUFFICES ASSUME NEW i \in 1..n, NEW j \in 1..n, i # j,
                      bursts'[i].ch = bursts'[j].ch, Overlaps(bursts'[i], bursts'[j])
               PROVE  bursts'[i].collided /\ bursts'[j].collided
    BY <1>1 DEF OverlappingCollide, Overlaps
  <2>1. CASE i \in 1..(n - 1) /\ j \in 1..(n - 1)
    <3>1. bursts[i].collided /\ bursts[j].collided
      BY <2>1, <1>1, <1>2 DEF MediumInv, OverlappingCollide, Overlaps
    <3> QED BY <2>1, <3>1, <1>2
  <2>2. CASE i = n /\ j \in 1..(n - 1)
    BY <2>2, <1>2, <1>3, <1>12
  <2>3. CASE j = n /\ i \in 1..(n - 1)
    BY <2>3, <1>2, <1>3, <1>12 DEF Overlaps
  <2> QED BY <2>1, <2>2, <2>3, <1>4
<1>14. CollisionHasCause'
  <2> SUFFICES ASSUME NEW i \in 1..n, bursts'[i].collided
               PROVE  \E j \in 1..n : /\ j # i
                                      /\ bursts'[j].ch = bursts'[i].ch
                                      /\ Overlaps(bursts'[i], bursts'[j])
    BY <1>1 DEF CollisionHasCause, Overlaps
  <2>1. CASE i = n
    <3>1. PICK j \in hit : TRUE
      BY <2>1, <1>3
    <3>2. j \in 1..(n - 1)
      BY <3>1, <1>1 DEF Hits, Remembered, MediumInv, OwnBursts
    <3> QED BY <2>1, <3>1, <3>2, <1>4, <1>12
  <2>2. CASE i \in hit
    <3>1. i \in 1..(n - 1)
      BY <2>2, <1>1 DEF Hits, Remembered, MediumInv, OwnBursts
    <3>2. n \in 1..n /\ n # i
      BY <3>1, <1>4
    <3>3. bursts'[n].ch = bursts'[i].ch /\ Overlaps(bursts'[n], bursts'[i])
      BY <2>2, <3>1, <1>12
    <3>4. Overlaps(bursts'[i], bursts'[n])
      BY <3>3 DEF Overlaps
    <3> QED BY <3>2, <3>3, <3>4
  <2>3. CASE i \in 1..(n - 1) /\ bursts[i].collided
    <3>1. PICK j \in 1..(n - 1) : /\ j # i
                                  /\ bursts[j].ch = bursts[i].ch
                                  /\ Overlaps(bursts[i], bursts[j])
      BY <2>3, <1>1 DEF MediumInv, CollisionHasCause
    <3>2. j \in 1..n
      BY <1>4
    <3>3. bursts'[j].ch = bursts'[i].ch
      BY <2>3, <3>1, <1>2
    <3>4. Overlaps(bursts'[i], bursts'[j])
      BY <2>3, <3>1, <1>2 DEF Overlaps
    <3> QED BY <3>1, <3>2, <3>3, <3>4
  <2>4. i = n \/ i \in 1..(n - 1)
    BY <1>4
  <2>5. i \in 1..(n - 1) => bursts[i].collided \/ i \in hit
    <3> SUFFICES ASSUME i \in 1..(n - 1) PROVE bursts[i].collided \/ i \in hit
      OBVIOUS
    <3>1. bursts'[i].collided = (bursts[i].collided \/ i \in hit)
      BY <1>2
    <3> QED BY <3>1, Zenon
  <2> QED BY <2>1, <2>2, <2>3, <2>4, <2>5
<1>15. VerdictStands'
  <2> SUFFICES ASSUME NEW i \in 1..n
               PROVE  /\ bursts'[i].verdict = "intact"
                             => ~bursts'[i].collided /\ ~bursts'[i].lost
                      /\ bursts'[i].verdict = "lost" => ~bursts'[i].collided
    BY <1>1 DEF VerdictStands
  <2>1. CASE i = n
    BY <2>1, <1>3
  <2>2. CASE i \in 1..(n - 1)
    <3>1. bursts[i].verdict # "flying" => i \notin hit
      <4>1. bursts[i].end \in Nat
        BY <2>2, <1>6 DEF Bursts
      <4>2. bursts[i].verdict # "flying" => bursts[i].end <= now
        BY <2>2, <1>1 DEF MediumInv, Arrived
      <4>3. i \in hit => bursts[i].end > now
        BY <2>2, <1>12
      <4> QED BY <4>1, <4>2, <4>3, <1>4
    <3> QED BY <2>2, <3>1, <1>1, <1>2 DEF MediumInv, VerdictStands
  <2> QED BY <2>1, <2>2, <1>4
<1>16. Past'
  <2>1. ASSUME NEW i \in 1..n PROVE bursts'[i].sent <= now
    <3>1. i \in 1..(n - 1) => bursts'[i].sent <= now
      BY <1>1, <1>2 DEF MediumInv, Past
    <3> QED BY <3>1, <1>3, <1>4
  <2> QED BY <2>1, <1>1, <1>4 DEF MediumInv, Past
<1>17. NoiseDestroys'
  <2> SUFFICES ASSUME NEW i \in 1..n, NEW w \in noise, bursts'[i].ch \in w.on,
                      Overlaps(bursts'[i], w), w.start < bursts'[i].sent
               PROVE  bursts'[i].lost
    BY <1>1, <1>4 DEF NoiseDestroys
  <2>1. CASE i = n
    <3>1. Noisy(ch, window)
      BY <2>1, <1>3 DEF Noisy, Overlaps
    <3> QED BY <2>1, <3>1, <1>3
  <2>2. CASE i \in 1..(n - 1)
    <3>1. bursts[i].lost
      BY <2>2, <1>1, <1>2 DEF MediumInv, NoiseDestroys, Overlaps
    <3> QED BY <2>2, <3>1, <1>2
  <2> QED BY <2>1, <2>2, <1>4
<1> QED BY <1>8, <1>9, <1>10, <1>11, <1>13, <1>14, <1>15, <1>16, <1>17 DEF MediumInv

LEMMA DeliverKeepsInv == ASSUME MediumInv, NEW k \in DOMAIN bursts, Deliver(k) PROVE MediumInv'
<1>1. bursts \in Seq(Bursts) /\ bursts[k] \in Bursts
  BY DEF MediumInv, MediumTypeOK
<1>2. /\ DOMAIN bursts' = DOMAIN bursts
      /\ \A i \in DOMAIN bursts :
             /\ bursts'[i].ch = bursts[i].ch
             /\ bursts'[i].sent = bursts[i].sent
             /\ bursts'[i].start = bursts[i].start
             /\ bursts'[i].end = bursts[i].end
             /\ bursts'[i].lost = bursts[i].lost
             /\ bursts'[i].collided = bursts[i].collided
             /\ i # k => bursts'[i].verdict = bursts[i].verdict
  BY <1>1 DEF Deliver, Bursts
<1>3. /\ bursts[k].end <= now
      /\ bursts'[k].verdict = IF bursts[k].collided THEN "collided"
                              ELSE IF bursts[k].lost THEN "lost" ELSE "intact"
      /\ now' = now /\ inflight' = inflight /\ noise' = noise
  BY <1>1 DEF Deliver, Bursts
<1>4. bursts' \in Seq(Bursts)
  <2>1. ASSUME NEW i \in DOMAIN bursts PROVE bursts'[i] \in Bursts
    <3>1. bursts[i] \in Bursts
      BY <1>1
    <3>2. i # k => bursts'[i] = bursts[i]
      BY <1>1 DEF Deliver
    <3>3. bursts'[k] = [bursts[k] EXCEPT !.verdict =
              IF bursts[k].collided THEN "collided"
              ELSE IF bursts[k].lost THEN "lost" ELSE "intact"]
      BY <1>1 DEF Deliver
    <3>4. bursts'[k] \in Bursts
      BY <1>1, <3>3 DEF Bursts
    <3> QED BY <3>1, <3>2, <3>4
  <2>2. \E len \in Nat : DOMAIN bursts' = 1..len
    BY <1>1, <1>2
  <2> QED BY <1>1, <1>2, <2>1, <2>2 DEF Deliver
<1>5. MediumTypeOK'
  BY <1>3, <1>4 DEF MediumInv, MediumTypeOK
<1>6. Remembers' /\ OwnBursts'
  BY <1>2, <1>3 DEF MediumInv, Remembers, OwnBursts
<1>7. Arrived'
  BY <1>2, <1>3 DEF MediumInv, Arrived
<1>8. OverlappingCollide' /\ CollisionHasCause'
  BY <1>2 DEF MediumInv, OverlappingCollide, CollisionHasCause, Overlaps
<1>9. VerdictStands'
  BY <1>2, <1>3 DEF MediumInv, VerdictStands
<1>10. Past'
  BY <1>2, <1>3 DEF MediumInv, Past
<1>11. NoiseDestroys'
  BY <1>2, <1>3 DEF MediumInv, NoiseDestroys, Overlaps
<1> QED BY <1>5, <1>6, <1>7, <1>8, <1>9, <1>10, <1>11 DEF MediumInv

LEMMA MediumInitInv == MediumInit => MediumInv
<1> SUFFICES ASSUME MediumInit PROVE MediumInv
  OBVIOUS
<1>1. bursts = <<>> /\ DOMAIN bursts = {} /\ bursts \in Seq(Bursts)
  BY DEF MediumInit
<1> QED BY <1>1 DEF MediumInit, MediumInv, MediumTypeOK, Remembers, OwnBursts, Arrived, Past,
                    OverlappingCollide, CollisionHasCause, VerdictStands, NoiseDestroys

LEMMA MediumNextInv == MediumInv /\ [MediumNext]_mediumVars => MediumInv'
<1> SUFFICES ASSUME MediumInv, [MediumNext]_mediumVars PROVE MediumInv'
  OBVIOUS
<1>1. CASE \E m \in Modems, ch \in UsChannels, duration \in Durations, dropped \in BOOLEAN :
               TransmitUpstream(m, ch, duration, dropped)
  BY <1>1, TransmitKeepsInv
<1>2. CASE \E k \in DOMAIN bursts : Deliver(k)
  BY <1>2, DeliverKeepsInv
<1>3. CASE \E length \in NoiseLengths, on \in {{ch} : ch \in UsChannels} \union {UsChannels} :
               InjectNoise(length, on)
  <2>1. PICK length \in NoiseLengths, on \in {{ch} : ch \in UsChannels} \union {UsChannels} :
            InjectNoise(length, on)
    BY <1>3
  <2>2. now \in Nat /\ length \in Nat
    BY MediumAssumption DEF MediumInv, MediumTypeOK
  <2>3. UNCHANGED <<now, bursts, inflight>>
    BY <2>1 DEF InjectNoise
  <2>4. noise' = noise \union {[start |-> now, end |-> now + length, on |-> on]}
    BY <2>1 DEF InjectNoise
  <2>5. MediumTypeOK'
    BY <2>2, <2>3, <2>4 DEF MediumInv, MediumTypeOK, Windows
  <2>6. Past'
    BY <2>2, <2>3, <2>4 DEF MediumInv, Past
  <2>7. NoiseDestroys'
    <3>1. \A i \in DOMAIN bursts : bursts[i] \in Bursts
      BY DEF MediumInv, MediumTypeOK
    <3>2. \A i \in DOMAIN bursts : ~(now < bursts[i].sent)
      BY <2>2, <3>1 DEF MediumInv, Past, Bursts
    <3> QED BY <2>3, <2>4, <3>2 DEF MediumInv, NoiseDestroys, Overlaps
  <2> QED BY <2>3, <2>5, <2>6, <2>7 DEF MediumInv, Remembers, OwnBursts, Arrived,
                OverlappingCollide, CollisionHasCause, VerdictStands
<1>4. CASE ClearNoise
  BY <1>4 DEF ClearNoise, MediumInv, MediumTypeOK, Remembers, OwnBursts, Arrived, Past,
              OverlappingCollide, CollisionHasCause, VerdictStands, NoiseDestroys
<1>5. CASE Tick
  <2>1. \A i \in DOMAIN bursts : bursts[i].end \in Nat /\ bursts[i].sent \in Nat
    <3>1. \A i \in DOMAIN bursts : bursts[i] \in Bursts
      BY DEF MediumInv, MediumTypeOK
    <3> QED BY <3>1 DEF Bursts
  <2>2. now \in Nat /\ now' = now + 1 /\ UNCHANGED <<bursts, inflight, noise>>
    BY <1>5 DEF Tick, MediumInv, MediumTypeOK
  <2>3. Remembers' /\ Arrived'
    BY <2>1, <2>2 DEF MediumInv, Remembers, Arrived
  <2>4. \A w \in noise : w.start \in Nat
    BY DEF MediumInv, MediumTypeOK, Windows
  <2>5. Past'
    BY <2>1, <2>2, <2>4 DEF MediumInv, Past
  <2> QED BY <2>2, <2>3, <2>5 DEF MediumInv, MediumTypeOK, OwnBursts, OverlappingCollide,
                CollisionHasCause, VerdictStands, NoiseDestroys
<1>6. CASE UNCHANGED mediumVars
  BY <1>6 DEF mediumVars, MediumInv, MediumTypeOK, Remembers, OwnBursts, Arrived, Past, OverlappingCollide,
              CollisionHasCause, VerdictStands, NoiseDestroys
<1> QED BY <1>1, <1>2, <1>3, <1>4, <1>5, <1>6 DEF MediumNext

(* The plant keeps its types, whatever is transmitted.                      *)
THEOREM MediumTypeCorrect == MediumSpec => []MediumTypeOK
<1>1. MediumInv => MediumTypeOK
  BY DEF MediumInv
<1> QED BY <1>1, MediumInitInv, MediumNextInv, PTL DEF MediumSpec

(* For any number of modems at any distance: two bursts that overlap at the *)
(* CMTS both collide.                                                       *)
THEOREM OverlappingCollideCorrect == MediumSpec => []OverlappingCollide
<1>1. MediumInv => OverlappingCollide
  BY DEF MediumInv
<1> QED BY <1>1, MediumInitInv, MediumNextInv, PTL DEF MediumSpec

(* ... no burst collides without one that overlaps it ...                   *)
THEOREM CollisionHasCauseCorrect == MediumSpec => []CollisionHasCause
<1>1. MediumInv => CollisionHasCause
  BY DEF MediumInv
<1> QED BY <1>1, MediumInitInv, MediumNextInv, PTL DEF MediumSpec

(* ... so exactly the bursts that overlap at the CMTS collide ...           *)
THEOREM CollideAsOverlapCorrect == MediumSpec => []CollideAsOverlap
<1>1. OverlappingCollide /\ CollisionHasCause => CollideAsOverlap
  BY DEF CollideAsOverlap
<1> QED BY <1>1, OverlappingCollideCorrect, CollisionHasCauseCorrect, PTL

(* ... and what the CMTS was told of a burst is never contradicted later.   *)
THEOREM VerdictStandsCorrect == MediumSpec => []VerdictStands
<1>1. MediumInv => VerdictStands
  BY DEF MediumInv
<1> QED BY <1>1, MediumInitInv, MediumNextInv, PTL DEF MediumSpec

(* A burst sent into noise that overlaps its arrival is lost, for any noise. *)
THEOREM NoiseDestroysCorrect == MediumSpec => []NoiseDestroys
<1>1. MediumInv => NoiseDestroys
  BY DEF MediumInv
<1> QED BY <1>1, MediumInitInv, MediumNextInv, PTL DEF MediumSpec

-----------------------------------------------------------------------------
(***************************************************************************)
(* The modems and the network drive the CMTS only through its handlers, so *)
(* what is shown above of any sequence of RNG-REQs, REG-REQs and REG-ACKs  *)
(* holds of the plant.  What a handler is called with is what a modem put  *)
(* in a burst: a channel it was on, and the file it registers with.        *)
(*                                                                         *)
(* The rest is about a modem's life: what it holds, has in the air and has *)
(* yet to hear agrees with what the CMTS's record says of it.              *)
(***************************************************************************)

Frames == [kind : FrameKinds, n : Int]
OnAir == Frames \union [kind : RangingFrames, n : Channels]
Replies == {"OFFER", "ACK", "TOD", "FILE", "REG-OK", "REG-NO"}
MessageKinds == Replies \union RangingResponses \union {"UCC-REQ"}
Messages == [kind : MessageKinds, n : Int]

(* A queue holds no ranging frame, and a ranging burst names a channel.     *)
Sent ==
    /\ file \in [Macs -> Files]
    /\ us \in [Macs -> Channels \union {NoChannel}]
    /\ xid \in [Macs -> Int]
    /\ queue \in [Macs -> Seq(Frames)]
    /\ air \in [Macs -> Seq(OnAir)]
    /\ server \in [Macs -> [kind : Answers, n : Int]]
    /\ down \in [Macs -> Seq(Messages)]

-----------------------------------------------------------------------------
LEMMA InitSent == Init => Sent
<1> SUFFICES ASSUME Init PROVE Sent
  OBVIOUS
<1>1. <<>> \in Seq(Frames) /\ <<>> \in Seq(OnAir) /\ <<>> \in Seq(Messages)
  OBVIOUS
<1>2. Message("none", 0) \in [kind : Answers, n : Int]
  BY DEF Message, Answers
<1> QED BY <1>1, <1>2 DEF Init, Sent

(* A step that leaves the modem's queues as they are.                       *)
LEMMA SameSent ==
    ASSUME Sent, UNCHANGED <<file, us, xid, queue, air, server, down>>
    PROVE  Sent'
BY DEF Sent

LEMMA EnqueuedSent ==
    ASSUME Sent, NEW m \in Macs, NEW kind \in FrameKinds, NEW n \in Int, Enqueued(m, kind, n)
    PROVE  queue' \in [Macs -> Seq(Frames)]
<1>1. Frame(kind, n) \in Frames
  BY DEF Frame, Frames
<1>2. queue[m] \in Seq(Frames) /\ Append(queue[m], Frame(kind, n)) \in Seq(Frames)
  BY <1>1 DEF Sent
<1> QED BY <1>2 DEF Enqueued, Sent

LEMMA ReinitializeSent == ASSUME Sent, NEW m \in Macs, Reinitialize(m) PROVE Sent'
<1>1. \A S : <<>> \in Seq(S)
  OBVIOUS
<1>2. file' \in [Macs -> Files]
  BY DEF Reinitialize, Sent
<1> QED BY <1>1, <1>2 DEF Reinitialize, Sent

LEMMA SaysSent ==
    ASSUME Sent, NEW m \in Macs, NEW kind \in MessageKinds, NEW n \in Int, Says(m, kind, n)
    PROVE  down' \in [Macs -> Seq(Messages)]
<1>1. Message(kind, n) \in Messages
  BY DEF Message, Messages
<1>2. down[m] \in Seq(Messages) /\ Append(down[m], Message(kind, n)) \in Seq(Messages)
  BY <1>1 DEF Sent
<1>3. DOMAIN down = Macs /\ DOMAIN down' = Macs
  BY DEF Sent, Says
<1>4. \A k \in Macs : down'[k] \in Seq(Messages)
  BY <1>2, <1>3 DEF Says, Sent
<1> QED BY <1>3, <1>4 DEF Says

(* The modem's own steps: nothing changes at the CMTS.                      *)
LEMMA ModemSteps ==
    ASSUME Sent, NEW m \in Macs,
           \/ Lock(m) \/ (\E c \in Channels : HearUcd(m, c))
           \/ InitialMaintenance(m) \/ StationMaintenance(m)
           \/ T3(m) \/ T4(m) \/ T6(m) \/ TodTimeout(m) \/ TftpTimeout(m) \/ Reset(m)
    PROVE  Sent' /\ UNCHANGED cmtsVars
<1>1. CASE Lock(m)
  BY <1>1, SameSent DEF Lock
<1>2. CASE \E c \in Channels : HearUcd(m, c)
  BY <1>2 DEF HearUcd, Sent
<1>3. CASE InitialMaintenance(m)
  <2>1. us[m] \in Channels /\ Frame("RNG-REQ0", us[m]) \in OnAir
    BY <1>3 DEF InitialMaintenance, Sent, Frame, OnAir, RangingFrames
  <2>2. Append(air[m], Frame("RNG-REQ0", us[m])) \in Seq(OnAir)
    BY <2>1 DEF Sent
  <2> QED BY <1>3, <2>2 DEF InitialMaintenance, Sent
<1>4. CASE StationMaintenance(m)
  <2>1. us[m] \in Channels /\ Frame("RNG-REQ", us[m]) \in OnAir
    BY <1>4 DEF StationMaintenance, Sent, Frame, OnAir, RangingFrames
  <2>2. Append(air[m], Frame("RNG-REQ", us[m])) \in Seq(OnAir)
    BY <2>1 DEF Sent
  <2>3. air' \in [Macs -> Seq(OnAir)]
    BY <1>4, <2>2 DEF StationMaintenance, Sent
  <2> QED BY <1>4, <2>3 DEF StationMaintenance, Sent
<1>5. CASE T3(m)
  BY <1>5, SameSent DEF T3
<1>6. CASE T4(m) \/ T6(m) \/ TftpTimeout(m) \/ Reset(m)
  <2>1. Reinitialize(m)
    BY <1>6 DEF T4, T6, TftpTimeout, Reset
  <2> QED BY <2>1, ReinitializeSent DEF Reinitialize
<1>7. CASE TodTimeout(m)
  <2>1. queue' \in [Macs -> Seq(Frames)]
    BY <1>7, EnqueuedSent DEF TodTimeout, StartTftp, FrameKinds
  <2> QED BY <1>7, <2>1 DEF TodTimeout, Sent
<1> QED BY <1>1, <1>2, <1>3, <1>4, <1>5, <1>6, <1>7

LEMMA TransmitSent == ASSUME Sent, NEW m \in Macs, Transmit(m) PROVE Sent'
<1>1. /\ queue[m] \in Seq(Frames) /\ queue[m] # <<>> /\ air[m] \in Seq(OnAir)
      /\ us[m] \in Channels \union {NoChannel}
  BY DEF Transmit, Sent
<1>2. Head(queue[m]) \in Frames /\ Tail(queue[m]) \in Seq(Frames) /\ <<>> \in Seq(Frames)
  BY <1>1
<1>3. Append(air[m], Head(queue[m])) \in Seq(OnAir)
  BY <1>1, <1>2 DEF OnAir
<1>4. air' \in [Macs -> Seq(OnAir)]
  BY <1>3 DEF Transmit, Sent
<1>5. queue' \in [Macs -> Seq(Frames)]
  BY <1>2 DEF Transmit, Sent
<1>6. us' \in [Macs -> Channels \union {NoChannel}]
  BY <1>1 DEF Transmit, Sent
<1> QED BY <1>4, <1>5, <1>6 DEF Transmit, Sent

LEMMA HearRngRspSent ==
    ASSUME Sent, NEW m \in Macs, NEW msg \in Messages, HearRngRsp(m, msg)
    PROVE  /\ queue' \in [Macs -> Seq(Frames)] /\ xid' \in [Macs -> Int]
           /\ UNCHANGED <<us, file>>
<1>1. xid[m] \in Int /\ 1 - xid[m] \in Int
  BY DEF Sent
<1>2. CASE Enqueued(m, "DISCOVER", 1 - xid[m]) /\ xid' = [xid EXCEPT ![m] = 1 - @]
  <2>1. queue' \in [Macs -> Seq(Frames)]
    BY <1>1, <1>2, EnqueuedSent DEF FrameKinds
  <2> QED BY <1>1, <1>2, <2>1 DEF HearRngRsp, Sent
<1>3. CASE UNCHANGED <<xid, queue>>
  BY <1>3 DEF HearRngRsp, Sent
<1> QED BY <1>2, <1>3 DEF HearRngRsp

LEMMA HearUccReqSent ==
    ASSUME Sent, NEW m \in Macs, NEW c \in Int, HearUccReq(m, c)
    PROVE  queue' \in [Macs -> Seq(Frames)] /\ UNCHANGED <<us, file, xid>>
<1> DEFINE n == IF us[m] = c THEN NoChannel ELSE c
<1>1. n \in Int
  BY DEF NoChannel
<1>2. Enqueued(m, "UCC-RSP", n)
  BY DEF HearUccReq, Enqueued
<1> HIDE DEF n
<1> QED BY <1>1, <1>2, EnqueuedSent DEF HearUccReq, FrameKinds

LEMMA HearReplySent ==
    ASSUME Sent, NEW m \in Macs, NEW kind \in Replies, HearReply(m, kind)
    PROVE  queue' \in [Macs -> Seq(Frames)] /\ UNCHANGED <<us, file, xid>>
<1>1. xid[m] \in Int /\ 0 \in Int
  BY DEF Sent
<1>2. UNCHANGED <<us, file, xid>>
  BY DEF HearReply
<1>3. \/ UNCHANGED queue
      \/ Enqueued(m, "REQUEST", xid[m])
      \/ \E k \in {"TOD", "RRQ", "REG-REQ", "REG-ACK"} : Enqueued(m, k, 0)
  BY DEF HearReply, StartTftp, Replies
<1> QED BY SMTT(30), <1>1, <1>2, <1>3, EnqueuedSent DEF FrameKinds, Sent

LEMMA HearSent == ASSUME Sent, NEW m \in Macs, Hear(m) PROVE Sent'
<1> DEFINE msg == Head(down[m])
<1>1. /\ down[m] \in Seq(Messages) /\ down[m] # <<>>
      /\ msg \in Messages /\ Tail(down[m]) \in Seq(Messages)
  BY DEF Hear, Sent
<1>2. down' \in [Macs -> Seq(Messages)]
  BY <1>1 DEF Hear, Sent
<1>3. /\ queue' \in [Macs -> Seq(Frames)] /\ xid' \in [Macs -> Int]
      /\ UNCHANGED <<us, file>>
  <2>1. msg.kind \in MessageKinds /\ msg.n \in Int
    BY <1>1 DEF Messages
  <2>2. CASE msg.kind \in RangingResponses
    <3>1. HearRngRsp(m, msg)
      BY <2>2 DEF Hear, RangingResponses
    <3> QED BY <1>1, <3>1, HearRngRspSent
  <2>3. CASE msg.kind = "UCC-REQ"
    <3>1. HearUccReq(m, msg.n)
      BY <2>3 DEF Hear, RangingResponses
    <3> QED BY <2>1, <3>1, HearUccReqSent DEF Sent
  <2>4. CASE msg.kind \in Replies
    <3>1. UNCHANGED modemVars \/ HearReply(m, msg.kind)
      BY <2>4 DEF Hear, RangingResponses, Replies
    <3> QED BY <2>4, <3>1, HearReplySent DEF Sent, modemVars
  <2> QED BY <2>1, <2>2, <2>3, <2>4 DEF MessageKinds
<1> QED BY <1>2, <1>3 DEF Hear, Sent

-----------------------------------------------------------------------------
LEMMA BurstNumber == ASSUME NEW b \in OnAir PROVE b.n \in Int
<1>1. CASE b \in Frames
  BY <1>1 DEF Frames
<1>2. CASE b \in [kind : RangingFrames, n : Channels]
  <2>1. b.n \in Channels
    BY <1>2
  <2>2. Channels \subseteq Nat
    BY BringupAssumption
  <2>3. b.n \in Nat
    BY <2>1, <2>2
  <2>4. \A n \in Nat : n \in Int
    OBVIOUS
  <2> QED BY <2>3, <2>4
<1> QED BY <1>1, <1>2 DEF OnAir

(* The first burst on its way: at the CMTS one handler runs.                *)
LEMMA ReceiveStep ==
    ASSUME Sent, CmtsTypeOK, NEW m \in Macs, Receive(m)
    PROVE  Sent' /\ [CmtsNext]_cmtsVars
<1> DEFINE burst == Head(air[m])
<1>1. air[m] \in Seq(OnAir) /\ burst \in OnAir /\ Tail(air[m]) \in Seq(OnAir)
  BY DEF Receive, Sent
<1>2. /\ air' \in [Macs -> Seq(OnAir)]
      /\ UNCHANGED <<file, us, xid, queue>>
  BY <1>1 DEF Receive, Sent, modemVars
<1> SUFFICES /\ down' \in [Macs -> Seq(Messages)]
             /\ server' \in [Macs -> [kind : Answers, n : Int]]
             /\ [CmtsNext]_cmtsVars
  BY <1>2 DEF Sent
<1>3. CASE burst.kind \in RangingFrames /\ HandleRngReq(m, burst)
  <2>1. burst.n \in Channels
    BY <1>1, <1>3 DEF OnAir, Frames, RangingFrames, FrameKinds
  <2>2. PICK usable \in BOOLEAN :
          /\ RngReq(m, burst.n, burst.kind = "RNG-REQ0", usable)
          /\ Says(m, IF Converged(burst.kind = "RNG-REQ0", usable) THEN "SUCCESS"
                     ELSE "CONTINUE", sid'[m])
          /\ UNCHANGED server
    BY <1>3 DEF HandleRngReq
  <2>3. sid'[m] \in Int
    BY SMTT(30), <2>2 DEF RngReq, CmtsTypeOK, Sids, NoSid
  <2>4. down' \in [Macs -> Seq(Messages)]
    BY <2>2, <2>3, SaysSent DEF MessageKinds, RangingResponses
  <2>5. CmtsNext
    BY <2>1, <2>2 DEF CmtsNext
  <2> QED BY <2>2, <2>4, <2>5 DEF Sent
<1>4. CASE HandleRegistration(m, burst.kind)
  <2>1. file[m].verdict \in {"ok", "mic", "class"} /\ file[m].gives \in BOOLEAN
    BY BringupAssumption DEF Sent, Files
  <2>2. down' \in [Macs -> Seq(Messages)]
    <3>1. 0 \in Int
      OBVIOUS
    <3> QED BY <1>4, <3>1, SaysSent DEF HandleRegistration, MessageKinds, Replies, Sent
  <2>3. [CmtsNext]_cmtsVars
    BY <1>4, <2>1 DEF HandleRegistration, CmtsNext
  <2> QED BY <1>4, <2>2, <2>3 DEF HandleRegistration, Sent
<1>5. CASE HandleTraffic(m, burst)
  <2>1. CmtsNext
    <3>1. RelayFromCable(m) \/ TrackTod(m) \/ TrackTftp(m)
      BY <1>5 DEF HandleTraffic
    <3> QED BY <3>1 DEF CmtsNext
  <2>2. server' \in [Macs -> [kind : Answers, n : Int]]
    <3>1. burst.kind \in {"DISCOVER", "REQUEST", "TOD", "RRQ"}
      BY <1>5 DEF HandleTraffic
    <3>2. burst.n \in Int
      <4> HIDE DEF burst
      <4> QED BY <1>1, BurstNumber
    <3>3. Message(AnswerTo[burst.kind], burst.n) \in [kind : Answers, n : Int]
      BY <3>1, <3>2 DEF Message, AnswerTo, Answers
    <3> QED BY <1>5, <3>3 DEF HandleTraffic, Serves, Sent
  <2> QED BY <1>5, <2>1, <2>2 DEF HandleTraffic, Sent
<1> QED BY <1>3, <1>4, <1>5 DEF Receive

(* The faults, the answers and the operator.                                *)
LEMMA NetworkSteps ==
    ASSUME Sent, NEW m \in Macs,
           \/ Lose(m) \/ LoseDownstream(m) \/ RelayAnswer(m)
           \/ \E c \in Channels : TestUcc(m, c)
    PROVE  Sent' /\ [CmtsNext]_cmtsVars
<1>1. CASE Lose(m)
  <2>1. air[m] \in Seq(OnAir) /\ Tail(air[m]) \in Seq(OnAir)
    BY <1>1 DEF Lose, Sent
  <2> QED BY <1>1, <2>1 DEF Lose, Sent, modemVars
<1>2. CASE LoseDownstream(m)
  <2>1. down[m] \in Seq(Messages) /\ Tail(down[m]) \in Seq(Messages)
    BY <1>2 DEF LoseDownstream, Sent
  <2> QED BY <1>2, <2>1 DEF LoseDownstream, Sent, modemVars
<1>3. CASE RelayAnswer(m)
  <2>1. server[m].kind \in Replies /\ server[m].n \in Int
    BY <1>3 DEF RelayAnswer, Idle, Sent, Answers, Replies
  <2>2. down' \in [Macs -> Seq(Messages)]
    BY <1>3, <2>1, SaysSent DEF RelayAnswer, MessageKinds
  <2>3. server' \in [Macs -> [kind : Answers, n : Int]]
    BY <1>3 DEF RelayAnswer, Sent, Message, Answers
  <2>4. [CmtsNext]_cmtsVars
    BY <1>3 DEF RelayAnswer, CmtsNext
  <2> QED BY <1>3, <2>2, <2>3, <2>4 DEF RelayAnswer, Sent, modemVars
<1>4. CASE \E c \in Channels : TestUcc(m, c)
  <2> PICK c \in Channels : TestUcc(m, c)
    BY <1>4
  <2>1. c \in Int
    BY BringupAssumption
  <2>2. down' \in [Macs -> Seq(Messages)]
    BY <2>1, SaysSent DEF TestUcc, MessageKinds
  <2> QED BY <2>2 DEF TestUcc, Sent, modemVars
<1> QED BY <1>1, <1>2, <1>3, <1>4

LEMMA NextSent == ASSUME Sent, CmtsTypeOK, [Next]_vars PROVE Sent' /\ [CmtsNext]_cmtsVars
<1>1. CASE UNCHANGED vars
  BY <1>1, SameSent DEF vars, modemVars
<1>2. CASE Next
  <2> PICK m \in Macs :
        \/ Works(m)
        \/ Reset(m) \/ Lose(m) \/ LoseDownstream(m) \/ \E c \in Channels : TestUcc(m, c)
    BY <1>2 DEF Next
  <2>1. CASE Receive(m)
    BY <2>1, ReceiveStep
  <2>2. CASE Transmit(m)
    BY <2>2, TransmitSent DEF Transmit
  <2>3. CASE Hear(m)
    BY <2>3, HearSent DEF Hear
  <2>4. CASE Lose(m) \/ LoseDownstream(m) \/ RelayAnswer(m) \/ \E c \in Channels : TestUcc(m, c)
    BY <2>4, NetworkSteps
  <2>5. CASE \/ Lock(m) \/ (\E c \in Channels : HearUcd(m, c))
             \/ InitialMaintenance(m) \/ StationMaintenance(m)
             \/ T3(m) \/ T4(m) \/ T6(m) \/ TodTimeout(m) \/ TftpTimeout(m) \/ Reset(m)
    BY <2>5, ModemSteps
  <2> QED BY <2>1, <2>2, <2>3, <2>4, <2>5 DEF Works
<1> QED BY <1>1, <1>2

(* The plant's CMTS is the one of module Cmts: every step of the modems,    *)
(* the network and the operator is a step of one handler, or none.          *)
THEOREM ImplementsCmts == Spec => CmtsSpec
<1>1. Init => CmtsInit /\ Inv /\ Sent
  BY InitInv, InitSent DEF Init
<1>2. Inv /\ Sent /\ [Next]_vars => Sent' /\ [CmtsNext]_cmtsVars
  BY NextSent DEF Inv
<1>3. Inv /\ [CmtsNext]_cmtsVars => Inv'
  BY NextInv
<1> QED BY <1>1, <1>2, <1>3, PTL DEF Spec, CmtsSpec

(* In the plant no two modems ever share a SID, whatever is lost, reset or  *)
(* moved, however many modems there are.                                    *)
THEOREM PlantSidsOwned == Spec => []SidsOwned
BY ImplementsCmts, SidsOwnedCorrect, PTL

(* ... each modem is polled where its record says it is ...                 *)
THEOREM PlantPolledOnItsChannel == Spec => []PolledOnItsChannel
BY ImplementsCmts, PolledOnItsChannelCorrect, PTL

(* ... and only a refused registration takes one out of service.            *)
THEOREM PlantLeavesServiceRefused == Spec => LeavesServiceRefused
BY ImplementsCmts, LeavesServiceRefusedCorrect, PTL

-----------------------------------------------------------------------------
(* What the modem, the network and the CMTS's record say of one life of a   *)
(* modem, from the end of a scan to the next re-initialisation.             *)
Items(seq) == {seq[i] : i \in DOMAIN seq}

(* The CMTS has taken the modem's file, or has refused it.                  *)
Admitted(m) == ~Refuses(file[m].verdict) /\ access[m] = file[m].gives
Refused(m) == Refuses(file[m].verdict) /\ state[m] \notin Online

(* A ranging burst and a data burst at most are on their way.               *)
AtOnce(seq) ==
    \A i, j \in DOMAIN seq :
        (seq[i].kind \in RangingFrames <=> seq[j].kind \in RangingFrames) => i = j

(* A message says what the CMTS's record says.                              *)
Truthful(m, msg) ==
    /\ msg.kind \in RangingResponses => Known(m) /\ msg.n = sid[m]
    /\ msg.kind = "UCC-REQ" => msg.n \in Channels
    /\ msg.kind = "REG-OK" => Admitted(m)
    /\ msg.kind = "REG-NO" => Refused(m)

(* A modem that scans has nothing queued and hears nothing, so what is left *)
(* of its last life in the air does not reach into this one.                *)
Life(m) ==
    /\ own[m] # NoSid => own[m] = sid[m]
    /\ AtOnce(air[m])
    /\ \A msg \in Items(down[m]) : Truthful(m, msg)
    /\ \A f \in Items(queue[m]) : f.kind = "REG-ACK" => Admitted(m)
    /\ \A b \in Items(air[m]) : b.kind = "REG-ACK" => at[m] = "ds-scan" \/ Admitted(m)
    /\ at[m] = "ds-scan" => down[m] = <<>> /\ queue[m] = <<>> /\ us[m] = NoChannel
    /\ registered[m] => Admitted(m)
    /\ registered[m] /\ losses = 0 =>
           state[m] \in Online \/ \E b \in Items(air[m]) : b.kind = "REG-ACK"
    /\ at[m] = "operational" => registered[m]
    /\ at[m] = "rejected" => Refused(m)

ModemTypes ==
    /\ at \in [Macs -> States]
    /\ target \in [Macs -> Channels \union {NoChannel}]
    /\ own \in [Macs -> Sids \union {NoSid}]
    /\ registered \in [Macs -> BOOLEAN]
    /\ t3 \in [Macs -> BOOLEAN] /\ t4 \in [Macs -> BOOLEAN]
    /\ losses \in 0..MaxLosses /\ orders \in 0..MaxOrders

Types == CmtsTypeOK /\ Sent /\ ModemTypes

BringupInv == Types /\ \A m \in Macs : Life(m)

(* Nothing of the other modems changes.                                     *)
Elsewhere(m) ==
    \A k \in Macs \ {m} :
        /\ own'[k] = own[k] /\ sid'[k] = sid[k] /\ air'[k] = air[k] /\ down'[k] = down[k]
        /\ queue'[k] = queue[k] /\ file'[k] = file[k] /\ access'[k] = access[k]
        /\ state'[k] = state[k] /\ at'[k] = at[k] /\ us'[k] = us[k]
        /\ registered'[k] = registered[k]

LEMMA ElsewhereLife ==
    ASSUME NEW m \in Macs, NEW k \in Macs \ {m}, Life(k), Elsewhere(m), losses' = 0 => losses = 0
    PROVE  Life(k)'
BY DEF Life, Elsewhere, Truthful, Admitted, Refused, Known

(* Queues, as sets of what they hold.                                       *)
LEMMA ItemsTail ==
    ASSUME NEW S, NEW q \in Seq(S), q # <<>>
    PROVE  /\ Head(q) \in Items(q) /\ Items(Tail(q)) \subseteq Items(q)
           /\ Items(q) \subseteq Items(Tail(q)) \union {Head(q)}
           /\ Items(q) \subseteq S
<1>1. 1 \in DOMAIN q /\ Head(q) = q[1] /\ Len(q) \in Nat
  OBVIOUS
<1>2. \A i \in DOMAIN Tail(q) : i + 1 \in DOMAIN q /\ Tail(q)[i] = q[i + 1]
  OBVIOUS
<1>3. \A i \in DOMAIN q : i = 1 \/ (i - 1 \in DOMAIN Tail(q) /\ Tail(q)[i - 1] = q[i])
  OBVIOUS
<1>4. Items(Tail(q)) \subseteq Items(q)
  BY <1>2 DEF Items
<1>5. Items(q) \subseteq Items(Tail(q)) \union {Head(q)}
  BY <1>1, <1>3 DEF Items
<1> QED BY <1>1, <1>4, <1>5 DEF Items

LEMMA ItemsAppend ==
    ASSUME NEW S, NEW q \in Seq(S), NEW x
    PROVE  Items(Append(q, x)) = Items(q) \union {x}
<1>1. DOMAIN Append(q, x) = DOMAIN q \union {Len(q) + 1} /\ Len(q) + 1 \notin DOMAIN q
  OBVIOUS
<1>2. Append(q, x)[Len(q) + 1] = x /\ \A i \in DOMAIN q : Append(q, x)[i] = q[i]
  OBVIOUS
<1>3. \A y : y \in Items(Append(q, x)) <=> y \in Items(q) \union {x}
  BY <1>1, <1>2 DEF Items
<1> QED BY <1>3

LEMMA ItemsEmpty == Items(<<>>) = {}
BY DEF Items

LEMMA AtOnceTail ==
    ASSUME NEW S, NEW q \in Seq(S), q # <<>>, AtOnce(q)
    PROVE  AtOnce(Tail(q))
<1>1. \A i \in DOMAIN Tail(q) : i \in Nat /\ i + 1 \in DOMAIN q /\ Tail(q)[i] = q[i + 1]
  OBVIOUS
<1> QED BY <1>1 DEF AtOnce

LEMMA AtOnceAppend ==
    ASSUME NEW S, NEW q \in Seq(S), AtOnce(q), NEW x,
           \A y \in Items(q) : ~(x.kind \in RangingFrames <=> y.kind \in RangingFrames)
    PROVE  AtOnce(Append(q, x))
<1>1. DOMAIN Append(q, x) = DOMAIN q \union {Len(q) + 1} /\ Len(q) + 1 \notin DOMAIN q
  OBVIOUS
<1>2. Append(q, x)[Len(q) + 1] = x /\ \A i \in DOMAIN q : Append(q, x)[i] = q[i]
  OBVIOUS
<1>3. \A i \in DOMAIN q : ~(x.kind \in RangingFrames <=> q[i].kind \in RangingFrames)
  BY DEF Items
<1> QED BY <1>1, <1>2, <1>3 DEF AtOnce

LEMMA AtOnceTwo ==
    ASSUME NEW S, NEW q \in Seq(S), AtOnce(q)
    PROVE  Len(q) <= 2
<1>1. SUFFICES ASSUME Len(q) > 2 PROVE FALSE
  OBVIOUS
<1>2. 1 \in DOMAIN q /\ 2 \in DOMAIN q /\ 3 \in DOMAIN q
  BY <1>1
<1> QED BY <1>2 DEF AtOnce

-----------------------------------------------------------------------------
Stepped(m) == ModemTypes' /\ Life(m)' /\ Elsewhere(m) /\ (losses' = 0 => losses = 0)

LEMMA FaultsCounted ==
    ASSUME ModemTypes, Loss \/ Order \/ NoFault
    PROVE  /\ losses' \in 0..MaxLosses /\ orders' \in 0..MaxOrders
           /\ losses' = 0 => losses = 0 /\ ~Loss
BY BringupAssumption DEF ModemTypes, Loss, Order, NoFault

LEMMA ReinitializeStepped ==
    ASSUME Types, NEW m \in Macs, Life(m), Reinitialize(m), Order \/ NoFault
    PROVE  Stepped(m)
<1>1. ModemTypes'
  BY FaultsCounted DEF Types, ModemTypes, Reinitialize, Goes, States
<1>2. Elsewhere(m)
  BY DEF Types, ModemTypes, Sent, CmtsTypeOK, Reinitialize, Goes, Elsewhere, cmtsVars
<1>3. /\ own'[m] = NoSid /\ at'[m] = "ds-scan" /\ us'[m] = NoChannel /\ registered'[m] = FALSE
      /\ queue'[m] = <<>> /\ down'[m] = <<>> /\ air'[m] = air[m]
  BY DEF Types, ModemTypes, Sent, Reinitialize, Goes
<1>4. Life(m)'
  BY <1>3, ItemsEmpty DEF Life
<1> QED BY <1>1, <1>2, <1>4, FaultsCounted DEF Stepped, Types

LEMMA LockStepped == ASSUME Types, NEW m \in Macs, Life(m), Lock(m) PROVE Stepped(m)
<1>1. ModemTypes'
  BY DEF Types, ModemTypes, Lock, Goes, States
<1>2. Elsewhere(m)
  BY DEF Types, ModemTypes, Lock, Goes, Elsewhere, cmtsVars
<1>3. /\ at[m] = "ds-scan" /\ at'[m] = "ucd-wait" /\ air[m] = <<>> /\ air'[m] = <<>>
      /\ UNCHANGED <<own, sid, state, access, file, us, registered, queue, down, losses>>
  BY DEF Types, ModemTypes, Lock, Goes, cmtsVars
<1>4. Life(m)'
  BY <1>3, ItemsEmpty DEF Life, Truthful, Admitted, Refused, Known
<1> QED BY <1>1, <1>2, <1>3, <1>4 DEF Stepped

(* A step that only changes what Life does not look at, or the modem's      *)
(* state to another than those that mean something to it.                   *)
LEMMA QuietLife ==
    ASSUME NEW m \in Macs, Life(m),
           UNCHANGED <<own, sid, state, access, file, registered, queue, air, down>>,
           at[m] # "ds-scan", losses' = 0 => losses = 0,
           at'[m] = at[m] \/ at'[m] \notin {"ds-scan", "operational", "rejected"}
    PROVE  Life(m)'
BY DEF Life, Truthful, Admitted, Refused, Known

LEMMA HearUcdStepped ==
    ASSUME Types, NEW m \in Macs, Life(m), NEW c \in Channels, HearUcd(m, c)
    PROVE  Stepped(m)
<1>1. /\ Loss \/ NoFault
      /\ at[m] # "ds-scan" /\ at' = [at EXCEPT ![m] = IF at[m] = "ucd-wait" THEN "ranging-wait" ELSE at[m]]
      /\ us' = [us EXCEPT ![m] = c] /\ target' = [target EXCEPT ![m] = NoChannel]
      /\ UNCHANGED <<cmtsVars, own, registered, t3, t4, file, xid, queue, air, server, down>>
  BY DEF HearUcd, Goes
<1>2. UNCHANGED <<sid, state, access>>
  BY <1>1 DEF cmtsVars
<1>3. ModemTypes'
  BY <1>1, FaultsCounted DEF Types, ModemTypes, States
<1>4. Elsewhere(m)
  BY <1>1, <1>2 DEF Types, ModemTypes, Sent, Elsewhere
<1>5. losses' = 0 => losses = 0
  BY <1>1, FaultsCounted DEF Types
<1>6. Life(m)'
  BY <1>1, <1>2, <1>5, QuietLife DEF Types, ModemTypes
<1> QED BY <1>3, <1>4, <1>5, <1>6 DEF Stepped

LEMMA T3Stepped == ASSUME Types, NEW m \in Macs, Life(m), T3(m) PROVE Stepped(m)
<1>1. PICK next : next = IF at[m] \in BacksOff THEN "ranging-wait" ELSE at[m]
  OBVIOUS
<1>2. /\ at' = [at EXCEPT ![m] = next] /\ t3' = [t3 EXCEPT ![m] = FALSE]
      /\ UNCHANGED <<cmtsVars, us, target, own, registered, t4, file, queue, air, down, losses, orders>>
  BY <1>1 DEF T3, Goes
<1>3. UNCHANGED <<sid, state, access>> /\ at'[m] = next /\ us'[m] = us[m]
  BY <1>2 DEF cmtsVars, Types, ModemTypes
<1>4. ModemTypes' /\ Elsewhere(m)
  BY <1>1, <1>2, <1>3 DEF Types, ModemTypes, States, Elsewhere
<1>5. CASE at[m] \in BacksOff
  <2>1. next = "ranging-wait" /\ at[m] # "ds-scan"
    BY <1>1, <1>5 DEF BacksOff
  <2>2. Life(m)'
    BY <1>2, <1>3, <2>1, QuietLife
  <2> QED BY <1>2, <1>4, <2>2 DEF Stepped
<1>6. CASE at[m] \notin BacksOff
  <2>1. at'[m] = at[m]
    BY <1>1, <1>3, <1>6
  <2>2. Life(m)'
    BY <1>2, <1>3, <2>1 DEF Life, Truthful, Admitted, Refused, Known
  <2> QED BY <1>2, <1>4, <2>2 DEF Stepped
<1> QED BY <1>5, <1>6

(* The modem queues a frame and goes to another state, or stays in its own. *)
LEMMA EnqueuedLife ==
    ASSUME Types, NEW m \in Macs, Life(m), NEW kind, NEW n, Enqueued(m, kind, n),
           UNCHANGED <<own, sid, state, access, file, registered, air>>, losses' = losses,
           \A msg \in Items(down'[m]) : msg \in Items(down[m]),
           at[m] # "ds-scan", kind = "REG-ACK" => Admitted(m),
           at'[m] = at[m] \/ at'[m] \notin {"ds-scan", "operational", "rejected"}
                          \/ (at'[m] = "operational" /\ registered[m])
    PROVE  Life(m)'
<1>1. queue[m] \in Seq(Frames) /\ queue'[m] = Append(queue[m], Frame(kind, n))
  BY DEF Enqueued, Types, Sent
<1>2. Items(queue'[m]) = Items(queue[m]) \union {Frame(kind, n)} /\ Frame(kind, n).kind = kind
  BY <1>1, ItemsAppend DEF Frame
<1>3. \A msg \in Items(down'[m]) : Truthful(m, msg)'
  BY DEF Life, Truthful, Admitted, Refused, Known
<1>4. \A f \in Items(queue'[m]) : f.kind = "REG-ACK" => Admitted(m)'
  BY <1>2 DEF Life, Admitted
<1> QED BY <1>3, <1>4 DEF Life, Admitted, Refused

LEMMA TodTimeoutStepped == ASSUME Types, NEW m \in Macs, Life(m), TodTimeout(m) PROVE Stepped(m)
<1>1. /\ at[m] = "time-of-day" /\ at' = [at EXCEPT ![m] = "tftp-config"] /\ Enqueued(m, "RRQ", 0)
      /\ UNCHANGED <<cmtsVars, us, target, own, registered, t3, t4, file, air, down, losses, orders>>
  BY DEF TodTimeout, StartTftp, Goes
<1>2. UNCHANGED <<sid, state, access>>
  BY <1>1 DEF cmtsVars
<1>3. ModemTypes' /\ Elsewhere(m)
  BY <1>1, <1>2 DEF Types, ModemTypes, Sent, States, Elsewhere, Enqueued
<1>4. Life(m)'
  BY <1>1, <1>2, EnqueuedLife DEF Types, ModemTypes
<1> QED BY <1>1, <1>3, <1>4 DEF Stepped

LEMMA InitialMaintenanceStepped ==
    ASSUME Types, NEW m \in Macs, Life(m), InitialMaintenance(m)
    PROVE  Stepped(m)
<1>1. /\ at[m] = "ranging-wait" /\ air[m] = <<>>
      /\ at' = [at EXCEPT ![m] = "ranging-initial"] /\ t3' = [t3 EXCEPT ![m] = TRUE]
      /\ air' = [air EXCEPT ![m] = Append(@, Frame("RNG-REQ0", us[m]))]
      /\ UNCHANGED <<cmtsVars, us, target, own, registered, t4, file, queue, down, losses, orders>>
  BY DEF InitialMaintenance, Goes
<1>2. UNCHANGED <<sid, state, access>>
  BY <1>1 DEF cmtsVars
<1>3. ModemTypes' /\ Elsewhere(m)
  BY <1>1, <1>2 DEF Types, ModemTypes, Sent, States, Elsewhere
<1>4. PICK b : b = Frame("RNG-REQ0", us[m])
  OBVIOUS
<1>5. air'[m] = <<b>> /\ b.kind = "RNG-REQ0"
  BY <1>1, <1>4 DEF Types, Sent, Frame
<1>6. AtOnce(air'[m]) /\ \A x \in Items(air'[m]) : x.kind # "REG-ACK"
  BY <1>5 DEF AtOnce, Items
<1>7. at'[m] = "ranging-initial"
  BY <1>1 DEF Types, ModemTypes
<1>8. Items(air[m]) = {}
  BY <1>1, ItemsEmpty
<1>9. Life(m)'
  BY <1>1, <1>2, <1>6, <1>7, <1>8 DEF Life, Truthful, Admitted, Refused, Known
<1> QED BY <1>1, <1>3, <1>9 DEF Stepped

(* A burst more in the air, of the kind that is not there yet.              *)
LEMMA AirLife ==
    ASSUME Types, NEW m \in Macs, Life(m), NEW b, air' = [air EXCEPT ![m] = Append(@, b)],
           \A y \in Items(air[m]) : ~(b.kind \in RangingFrames <=> y.kind \in RangingFrames),
           b.kind = "REG-ACK" => Admitted(m),
           UNCHANGED <<own, sid, state, access, file, registered, queue, down, losses>>,
           at[m] # "ds-scan",
           at'[m] = at[m] \/ at'[m] \notin {"ds-scan", "operational", "rejected"}
    PROVE  Life(m)'
<1>1. air[m] \in Seq(OnAir) /\ air'[m] = Append(air[m], b)
  BY DEF Types, Sent
<1>2. Items(air'[m]) = Items(air[m]) \union {b} /\ AtOnce(air'[m])
  BY <1>1, ItemsAppend, AtOnceAppend DEF Life
<1> QED BY <1>2 DEF Life, Truthful, Admitted, Refused, Known

LEMMA BurstKinds ==
    ASSUME Types, NEW m \in Macs
    PROVE  \A i \in DOMAIN air[m] : air[m][i].kind \in FrameKinds \union RangingFrames
<1>1. air[m] \in Seq(OnAir)
  BY DEF Types, Sent
<1>2. \A b \in OnAir : b.kind \in FrameKinds \union RangingFrames
  BY DEF OnAir, Frames
<1> QED BY <1>1, <1>2

LEMMA StationMaintenanceStepped ==
    ASSUME Types, NEW m \in Macs, Life(m), StationMaintenance(m)
    PROVE  Stepped(m)
<1>1. /\ us[m] # NoChannel /\ ~RangingExchange(m)
      /\ t4' = [t4 EXCEPT ![m] = TRUE]
      /\ UNCHANGED <<cmtsVars, us, target, own, registered, file, queue, down, losses, orders>>
  BY DEF StationMaintenance
<1>2. UNCHANGED <<sid, state, access>>
  BY <1>1 DEF cmtsVars
<1>3. at[m] # "ds-scan"
  BY <1>1 DEF Life
<1>4. CASE UNCHANGED <<at, t3, air>>
  <2>1. ModemTypes' /\ Elsewhere(m)
    BY <1>1, <1>2, <1>4 DEF Types, ModemTypes, Elsewhere
  <2>2. Life(m)'
    BY <1>1, <1>2, <1>3, <1>4, QuietLife
  <2> QED BY <1>1, <2>1, <2>2 DEF Stepped
<1>5. CASE ~UNCHANGED <<at, t3, air>>
  <2>1. PICK b : b = Frame("RNG-REQ", us[m])
    OBVIOUS
  <2>2. PICK next : next = IF at[m] = "ranging-initial" THEN "ranging-station" ELSE at[m]
    OBVIOUS
  <2>4. /\ air' = [air EXCEPT ![m] = Append(@, b)] /\ at' = [at EXCEPT ![m] = next]
        /\ t3' = [t3 EXCEPT ![m] = TRUE]
    BY <1>5, <2>1, <2>2 DEF StationMaintenance, Goes
  <2>5. ModemTypes' /\ Elsewhere(m)
    BY <1>1, <1>2, <2>2, <2>4 DEF Types, ModemTypes, Sent, States, Elsewhere
  <2>6. \A y \in Items(air[m]) : y.kind \notin RangingFrames
    BY <1>1 DEF RangingExchange, Carries, Items
  <2>7. b.kind = "RNG-REQ"
    BY <2>1 DEF Frame
  <2>8. Life(m)'
    BY <1>1, <1>2, <1>3, <2>2, <2>4, <2>6, <2>7, AirLife DEF RangingFrames, Types, ModemTypes
  <2> QED BY <1>1, <2>5, <2>8 DEF Stepped
<1> QED BY <1>4, <1>5

LEMMA TransmitStepped == ASSUME Types, NEW m \in Macs, Life(m), Transmit(m) PROVE Stepped(m)
<1>1. PICK head : head = Head(queue[m])
  OBVIOUS
<1>2. PICK leaves \in BOOLEAN : leaves = (head.kind = "UCC-RSP" /\ head.n # NoChannel)
  OBVIOUS
<1>3. PICK acks \in BOOLEAN : acks = (head.kind = "REG-ACK")
  OBVIOUS
<1>4. PICK rest : rest = IF leaves THEN <<>> ELSE Tail(queue[m])
  OBVIOUS
<1>5. PICK next : next = IF leaves THEN "ranging-wait" ELSE IF acks THEN "operational" ELSE at[m]
  OBVIOUS
<1>6. PICK on : on = IF leaves THEN NoChannel ELSE us[m]
  OBVIOUS
<1>7. PICK done \in BOOLEAN : done = (registered[m] \/ acks)
  OBVIOUS
<1>9. /\ queue[m] # <<>> /\ us[m] # NoChannel /\ ~Carries(air[m], FrameKinds)
      /\ air' = [air EXCEPT ![m] = Append(@, head)]
      /\ queue' = [queue EXCEPT ![m] = rest] /\ at' = [at EXCEPT ![m] = next]
      /\ us' = [us EXCEPT ![m] = on]
      /\ UNCHANGED <<cmtsVars, target, own, t4, file, down, losses, orders>>
  BY <1>1, <1>2, <1>3, <1>4, <1>5, <1>6 DEF Transmit, Goes
<1>10. registered' = [registered EXCEPT ![m] = done] /\ t3' = t3
  BY <1>1, <1>2, <1>3, <1>7 DEF Transmit
<1>11. UNCHANGED <<sid, state, access>>
  BY <1>9 DEF cmtsVars
<1>12. ModemTypes' /\ Elsewhere(m)
  BY <1>5, <1>9, <1>10, <1>11 DEF Types, ModemTypes, Sent, States, Elsewhere
<1>13. /\ queue[m] \in Seq(Frames) /\ air[m] \in Seq(OnAir) /\ at[m] # "ds-scan"
  BY <1>9 DEF Types, Sent, Life
<1>14. /\ head \in Items(queue[m]) /\ Items(Tail(queue[m])) \subseteq Items(queue[m])
       /\ Items(queue[m]) \subseteq Frames
  BY <1>1, <1>9, <1>13, ItemsTail
<1>15. Items(rest) \subseteq Items(queue[m])
  BY <1>4, <1>14, ItemsEmpty
<1>16. head.kind \in FrameKinds /\ FrameKinds \intersect RangingFrames = {}
  BY <1>14 DEF Frames, FrameKinds, RangingFrames
<1>17. \A y \in Items(air[m]) : y.kind \in RangingFrames
  BY <1>9, BurstKinds DEF Carries, Items
<1>18. AtOnce(air'[m]) /\ Items(air'[m]) = Items(air[m]) \union {head}
  <2>1. air'[m] = Append(air[m], head)
    BY <1>9 DEF Types, Sent
  <2>2. \A y \in Items(air[m]) : ~(head.kind \in RangingFrames <=> y.kind \in RangingFrames)
    BY <1>16, <1>17
  <2> QED BY <1>13, <2>1, <2>2, AtOnceAppend, ItemsAppend DEF Life
<1>19. /\ at'[m] = next /\ queue'[m] = rest /\ registered'[m] = done
  BY <1>9, <1>10 DEF Types, ModemTypes, Sent
<1>20. acks => Admitted(m)
  BY <1>3, <1>14 DEF Life
<1>21. Admitted(m)' <=> Admitted(m)
  BY <1>9, <1>11 DEF Admitted
<1>22. Refused(m)' <=> Refused(m)
  BY <1>9, <1>11 DEF Refused
<1>23. \A msg \in Items(down'[m]) : Truthful(m, msg)'
  BY <1>9, <1>11, <1>21, <1>22 DEF Life, Truthful, Known
<1>24. done => Admitted(m)
  BY <1>7, <1>20 DEF Life, Types, ModemTypes
<1>25. done /\ losses = 0 => state[m] \in Online \/ \E b \in Items(air'[m]) : b.kind = "REG-ACK"
  <2>1. CASE acks
    BY <1>3, <1>18, <2>1
  <2>2. CASE ~acks
    BY <1>7, <1>18, <2>2 DEF Life, Types, ModemTypes
  <2> QED BY <2>1, <2>2
<1>26. /\ at'[m] # "ds-scan"
       /\ at'[m] = "operational" => done
       /\ at'[m] = "rejected" => Refused(m)
  BY <1>5, <1>7, <1>13, <1>19 DEF Life, Types, ModemTypes
<1>27. \A f \in Items(queue'[m]) : f.kind = "REG-ACK" => Admitted(m)
  BY <1>15, <1>19 DEF Life
<1>28. \A b \in Items(air'[m]) : b.kind = "REG-ACK" => Admitted(m)
  BY <1>3, <1>13, <1>18, <1>20 DEF Life
<1>29. own'[m] # NoSid => own'[m] = sid'[m]
  BY <1>9, <1>11 DEF Life
<1>30. Life(m)'
  BY <1>9, <1>11, <1>18, <1>19, <1>21, <1>22, <1>23, <1>24, <1>25, <1>26, <1>27, <1>28, <1>29,
     Zenon DEF Life
<1> QED BY <1>9, <1>12, <1>30 DEF Stepped

-----------------------------------------------------------------------------
(* What the modem hears is true, and it acts on it.                         *)
LEMMA HeardLife ==
    ASSUME Types, NEW m \in Macs, Life(m), at[m] # "ds-scan",
           UNCHANGED <<sid, state, access, file, registered, air, losses>>,
           own'[m] \in {own[m], sid[m]},
           Items(down'[m]) \subseteq Items(down[m]),
           \A f \in Items(queue'[m]) \ Items(queue[m]) : f.kind = "REG-ACK" => Admitted(m),
           \/ at'[m] = at[m] \/ at'[m] \notin {"ds-scan", "operational", "rejected"}
           \/ at'[m] = "operational" /\ registered[m]
           \/ at'[m] = "rejected" /\ Refused(m)
    PROVE  Life(m)'
<1>1. (Admitted(m)' <=> Admitted(m)) /\ (Refused(m)' <=> Refused(m))
  BY DEF Admitted, Refused
<1>2. \A msg \in Items(down'[m]) : Truthful(m, msg)'
  BY <1>1 DEF Life, Truthful, Known
<1>3. \A f \in Items(queue'[m]) : f.kind = "REG-ACK" => Admitted(m)'
  BY <1>1 DEF Life
<1> QED BY <1>1, <1>2, <1>3 DEF Life

(* The queue, when a frame joins it.                                        *)
LEMMA EnqueuedItems ==
    ASSUME Types, NEW m \in Macs, NEW kind, NEW n, Enqueued(m, kind, n)
    PROVE  /\ \A f \in Items(queue'[m]) \ Items(queue[m]) : f.kind = kind
           /\ \A k \in Macs \ {m} : queue'[k] = queue[k]
<1>1. queue[m] \in Seq(Frames) /\ queue'[m] = Append(queue[m], Frame(kind, n))
  BY DEF Enqueued, Types, Sent
<1>2. Items(queue'[m]) = Items(queue[m]) \union {Frame(kind, n)} /\ Frame(kind, n).kind = kind
  BY <1>1, ItemsAppend DEF Frame
<1> QED BY <1>2 DEF Enqueued, Types, Sent

LEMMA HearRngRspStepped ==
    ASSUME Types, NEW m \in Macs, Life(m), at[m] # "ds-scan", NEW msg, Truthful(m, msg),
           msg.kind \in RangingResponses, HearRngRsp(m, msg),
           Items(down'[m]) \subseteq Items(down[m]), \A k \in Macs \ {m} : down'[k] = down[k],
           UNCHANGED <<cmtsVars, air, losses, orders>>
    PROVE  Stepped(m)
<1>1. sid[m] # NoSid /\ msg.n = sid[m] /\ sid[m] \in Sids
  BY DEF Truthful, Known, Types, CmtsTypeOK
<1>2. PICK id : id = IF own[m] = NoSid THEN msg.n ELSE own[m]
  OBVIOUS
<1>3. PICK ranging_ \in BOOLEAN : ranging_ = (at[m] \in {"ranging-initial", "ranging-station"})
  <2>1. CASE at[m] \in {"ranging-initial", "ranging-station"}
    BY <2>1
  <2>2. CASE ~(at[m] \in {"ranging-initial", "ranging-station"})
    <3>1. (at[m] \in {"ranging-initial", "ranging-station"}) = FALSE
      BY <2>2
    <3> QED BY <3>1, Zenon
  <2> QED BY <2>1, <2>2
<1>4. PICK done \in BOOLEAN : done = (ranging_ /\ msg.kind = "SUCCESS")
  <2>1. CASE ranging_ /\ msg.kind = "SUCCESS"
    BY <2>1
  <2>2. CASE ~(ranging_ /\ msg.kind = "SUCCESS")
    BY <2>2
  <2> QED BY <2>1, <2>2
<1>5. PICK armed \in BOOLEAN : armed = (t4[m] \/ done)
  BY DEF Types, ModemTypes
<1>6. PICK next : next = IF done THEN "operational" ELSE IF ranging_ THEN "ranging-station" ELSE at[m]
  OBVIOUS
<1>7. /\ own' = [own EXCEPT ![m] = id] /\ t3' = [t3 EXCEPT ![m] = FALSE]
      /\ UNCHANGED <<us, target, registered, file>>
  BY <1>2 DEF HearRngRsp
<1>8. t4' = [t4 EXCEPT ![m] = armed]
  BY <1>3, <1>4, <1>5 DEF HearRngRsp
<1>9. \/ at' = [at EXCEPT ![m] = "dhcp"] /\ Enqueued(m, "DISCOVER", 1 - xid[m])
      \/ (done => registered[m]) /\ at' = [at EXCEPT ![m] = next] /\ UNCHANGED queue
  BY <1>3, <1>4, <1>6 DEF HearRngRsp, Goes
<1>10. UNCHANGED <<sid, state, access>>
  BY DEF cmtsVars
<1>11. own'[m] \in {own[m], sid[m]} /\ id \in Sids \union {NoSid}
  BY <1>1, <1>2, <1>7 DEF Types, ModemTypes
<1>12. /\ \A f \in Items(queue'[m]) \ Items(queue[m]) : f.kind # "REG-ACK"
       /\ \A k \in Macs \ {m} : queue'[k] = queue[k]
  BY <1>9, EnqueuedItems
<1>13. next \in States /\ "dhcp" \in States
  BY <1>6 DEF States, Types, ModemTypes
<1>14. /\ at' \in [Macs -> States] /\ \A k \in Macs \ {m} : at'[k] = at[k]
       /\ \/ at'[m] = "dhcp" \/ at'[m] = at[m] \/ at'[m] = "ranging-station"
          \/ at'[m] = "operational" /\ registered[m]
  BY <1>6, <1>9, <1>13 DEF Types, ModemTypes
<1>15. ModemTypes' /\ Elsewhere(m)
  BY <1>7, <1>8, <1>10, <1>11, <1>12, <1>14 DEF Types, ModemTypes, Elsewhere
<1>16. Life(m)'
  BY <1>7, <1>10, <1>11, <1>12, <1>14, HeardLife
<1> QED BY <1>15, <1>16 DEF Stepped

LEMMA HearUccReqStepped ==
    ASSUME Types, NEW m \in Macs, Life(m), at[m] # "ds-scan", NEW c \in Channels, HearUccReq(m, c),
           Items(down'[m]) \subseteq Items(down[m]), \A k \in Macs \ {m} : down'[k] = down[k],
           UNCHANGED <<cmtsVars, air, losses, orders>>
    PROVE  Stepped(m)
<1>1. PICK n : n = IF us[m] = c THEN NoChannel ELSE c
  OBVIOUS
<1>2. PICK to : to = IF us[m] = c THEN target[m] ELSE c
  OBVIOUS
<1>3. /\ Enqueued(m, "UCC-RSP", n) /\ target' = [target EXCEPT ![m] = to]
      /\ UNCHANGED <<at, us, own, registered, t3, t4, file>>
  BY <1>1, <1>2 DEF HearUccReq, Enqueued
<1>4. UNCHANGED <<sid, state, access>>
  BY DEF cmtsVars
<1>5. /\ \A f \in Items(queue'[m]) \ Items(queue[m]) : f.kind # "REG-ACK"
      /\ \A k \in Macs \ {m} : queue'[k] = queue[k]
  BY <1>3, EnqueuedItems
<1>6. ModemTypes' /\ Elsewhere(m)
  BY <1>2, <1>3, <1>4, <1>5 DEF Types, ModemTypes, Elsewhere
<1>7. Life(m)'
  BY <1>3, <1>4, <1>5, HeardLife
<1> QED BY <1>6, <1>7 DEF Stepped

LEMMA HearReplyStepped ==
    ASSUME Types, NEW m \in Macs, Life(m), at[m] # "ds-scan",
           NEW msg, Truthful(m, msg), msg.kind \in Replies,
           HearReply(m, msg.kind) \/ UNCHANGED modemVars,
           Items(down'[m]) \subseteq Items(down[m]), \A k \in Macs \ {m} : down'[k] = down[k],
           UNCHANGED <<cmtsVars, air, losses, orders>>
    PROVE  Stepped(m)
<1>1. UNCHANGED <<us, target, own, registered, t3, t4, file>>
  BY DEF HearReply, modemVars
<1>2. UNCHANGED <<sid, state, access>>
  BY DEF cmtsVars
<1>3. /\ \/ UNCHANGED queue
         \/ \E n : Enqueued(m, "REG-ACK", n) /\ msg.kind = "REG-OK"
         \/ \E kind, n : Enqueued(m, kind, n) /\ kind # "REG-ACK"
      /\ \/ UNCHANGED at
         \/ \E next \in {"time-of-day", "tftp-config", "registering"} : Goes(m, next)
         \/ Goes(m, "rejected") /\ msg.kind = "REG-NO"
  <2>1. CASE UNCHANGED modemVars
    BY <2>1 DEF modemVars
  <2>2. CASE HearReply(m, msg.kind)
    <3>1. CASE msg.kind = "OFFER"
      BY <2>2, <3>1 DEF HearReply
    <3>2. CASE msg.kind = "ACK"
      BY <2>2, <3>2 DEF HearReply, StartTftp
    <3>3. CASE msg.kind = "TOD"
      BY <2>2, <3>3 DEF HearReply, StartTftp
    <3>4. CASE msg.kind = "FILE"
      BY <2>2, <3>4 DEF HearReply
    <3>5. CASE msg.kind = "REG-OK"
      BY <2>2, <3>5 DEF HearReply
    <3>6. CASE msg.kind = "REG-NO"
      BY <2>2, <3>6 DEF HearReply
    <3> QED BY <3>1, <3>2, <3>3, <3>4, <3>5, <3>6 DEF Replies
  <2> QED BY <2>1, <2>2
<1>4. /\ \A f \in Items(queue'[m]) \ Items(queue[m]) : f.kind = "REG-ACK" => Admitted(m)
      /\ \A k \in Macs \ {m} : queue'[k] = queue[k]
  BY <1>3, EnqueuedItems DEF Truthful
<1>5. /\ at' \in [Macs -> States] /\ \A k \in Macs \ {m} : at'[k] = at[k]
      /\ \/ at'[m] = at[m] \/ at'[m] \in {"time-of-day", "tftp-config", "registering"}
         \/ at'[m] = "rejected" /\ Refused(m)
  BY <1>3 DEF Types, ModemTypes, Goes, States, Truthful
<1>6. ModemTypes' /\ Elsewhere(m)
  BY <1>1, <1>2, <1>4, <1>5 DEF Types, ModemTypes, Elsewhere
<1>7. Life(m)'
  BY <1>1, <1>2, <1>4, <1>5, HeardLife
<1> QED BY <1>6, <1>7 DEF Stepped

LEMMA HearStepped == ASSUME Types, NEW m \in Macs, Life(m), Hear(m) PROVE Stepped(m)
<1>1. PICK msg : msg = Head(down[m])
  OBVIOUS
<1>2. /\ down[m] # <<>> /\ down' = [down EXCEPT ![m] = Tail(@)]
      /\ UNCHANGED <<cmtsVars, air, losses, orders>>
  BY DEF Hear
<1>3. down[m] \in Seq(Messages) /\ down'[m] = Tail(down[m])
  BY <1>2 DEF Types, Sent
<1>4. /\ msg \in Items(down[m]) /\ Items(down'[m]) \subseteq Items(down[m]) /\ msg \in Messages
  BY <1>1, <1>2, <1>3, ItemsTail
<1>5. \A k \in Macs \ {m} : down'[k] = down[k]
  BY <1>2 DEF Types, Sent
<1>6. Truthful(m, msg) /\ at[m] # "ds-scan" /\ msg.kind \in MessageKinds
  BY <1>2, <1>4 DEF Life, Messages
<1>7. CASE msg.kind \in RangingResponses
  <2>1. HearRngRsp(m, msg)
    BY <1>1, <1>7 DEF Hear, RangingResponses
  <2> QED BY <1>2, <1>4, <1>5, <1>6, <1>7, <2>1, HearRngRspStepped
<1>8. CASE msg.kind = "UCC-REQ"
  <2>1. HearUccReq(m, msg.n) /\ msg.n \in Channels
    BY <1>1, <1>6, <1>8 DEF Hear, RangingResponses, Truthful
  <2> QED BY <1>2, <1>4, <1>5, <1>6, <2>1, HearUccReqStepped
<1>9. CASE msg.kind \in Replies
  <2>1. HearReply(m, msg.kind) \/ UNCHANGED modemVars
    BY <1>1, <1>9 DEF Hear, RangingResponses, Replies
  <2> QED BY <1>2, <1>4, <1>5, <1>6, <1>9, <2>1, HearReplyStepped
<1> QED BY <1>6, <1>7, <1>8, <1>9 DEF MessageKinds

-----------------------------------------------------------------------------
(* What the network and the CMTS do leaves the modem itself as it is.       *)
LEMMA NetworkLife ==
    ASSUME NEW m \in Macs, Life(m), UNCHANGED modemVars,
           AtOnce(air'[m]), Items(air'[m]) \subseteq Items(air[m]),
           Known(m) => sid'[m] = sid[m],
           Admitted(m) => Admitted(m)',
           at[m] # "ds-scan" /\ Refused(m) => Refused(m)',
           losses' = 0 => losses = 0,
           registered[m] /\ losses' = 0 /\ state[m] \in Online => state'[m] \in Online,
           registered[m] /\ losses' = 0 =>
               \A b \in Items(air[m]) :
                   b.kind = "REG-ACK" => b \in Items(air'[m]) \/ state'[m] \in Online,
           at[m] = "ds-scan" => down'[m] = down[m],
           \A msg \in Items(down'[m]) : msg \in Items(down[m]) \/ Truthful(m, msg)'
    PROVE  Life(m)'
<1>1. UNCHANGED <<at, us, own, registered, queue, file>>
  BY DEF modemVars
<1>2. own'[m] # NoSid => own'[m] = sid'[m]
  BY <1>1 DEF Life, Known
<1>3. \A msg \in Items(down'[m]) : Truthful(m, msg)'
  <2>1. CASE at[m] = "ds-scan"
    BY <2>1, ItemsEmpty DEF Life
  <2>2. CASE at[m] # "ds-scan"
    BY <2>2 DEF Life, Truthful, Known
  <2> QED BY <2>1, <2>2
<1>4. registered[m] /\ losses' = 0 =>
          state'[m] \in Online \/ \E b \in Items(air'[m]) : b.kind = "REG-ACK"
  BY DEF Life
<1>5. \A f \in Items(queue'[m]) : f.kind = "REG-ACK" => Admitted(m)'
  BY <1>1 DEF Life
<1>6. \A b \in Items(air'[m]) : b.kind = "REG-ACK" => at'[m] = "ds-scan" \/ Admitted(m)'
  BY <1>1 DEF Life
<1>7. at'[m] = "ds-scan" => down'[m] = <<>> /\ queue'[m] = <<>> /\ us'[m] = NoChannel
  BY <1>1 DEF Life
<1>8. /\ registered'[m] => Admitted(m)'
      /\ at'[m] = "operational" => registered'[m]
      /\ at'[m] = "rejected" => Refused(m)'
  BY <1>1 DEF Life
<1> QED BY <1>1, <1>2, <1>3, <1>4, <1>5, <1>6, <1>7, <1>8 DEF Life

LEMMA NetworkStepped ==
    ASSUME Types, NEW m \in Macs, UNCHANGED modemVars, Life(m)', Loss \/ Order \/ NoFault,
           \A k \in Macs \ {m} : /\ air'[k] = air[k] /\ down'[k] = down[k] /\ sid'[k] = sid[k]
                                 /\ access'[k] = access[k] /\ state'[k] = state[k]
    PROVE  Stepped(m)
<1>1. UNCHANGED <<at, us, target, own, registered, t3, t4, queue, file>>
  BY DEF modemVars
<1>2. ModemTypes' /\ (losses' = 0 => losses = 0)
  BY <1>1, FaultsCounted DEF Types, ModemTypes
<1>3. Elsewhere(m)
  BY <1>1 DEF Elsewhere
<1> QED BY <1>2, <1>3 DEF Stepped

LEMMA SaysItems ==
    ASSUME Types, NEW m \in Macs, NEW kind, NEW n, Says(m, kind, n)
    PROVE  /\ at[m] = "ds-scan" => down'[m] = down[m]
           /\ \A msg \in Items(down'[m]) :
                  msg \in Items(down[m]) \/ msg = [kind |-> kind, n |-> n]
           /\ \A k \in Macs \ {m} : down'[k] = down[k]
<1>1. PICK msg : msg = Message(kind, n)
  OBVIOUS
<1>2. /\ down' = [down EXCEPT ![m] = IF at[m] = "ds-scan" THEN @ ELSE Append(@, msg)]
      /\ down \in [Macs -> Seq(Messages)] /\ down[m] \in Seq(Messages)
  BY <1>1 DEF Says, Types, Sent
<1>3. CASE at[m] = "ds-scan"
  BY <1>2, <1>3
<1>4. CASE at[m] # "ds-scan"
  <2>1. down'[m] = Append(down[m], msg) /\ \A k \in Macs \ {m} : down'[k] = down[k]
    BY <1>2, <1>4
  <2>2. Items(down'[m]) = Items(down[m]) \union {msg}
    BY <1>2, <2>1, ItemsAppend
  <2> QED BY <1>1, <1>4, <2>1, <2>2 DEF Message
<1> QED BY <1>3, <1>4

(* The first burst leaves the air.                                          *)
LEMMA AirTail ==
    ASSUME Types, NEW m \in Macs, Life(m), air[m] # <<>>, air' = [air EXCEPT ![m] = Tail(@)]
    PROVE  /\ AtOnce(air'[m]) /\ Items(air'[m]) \subseteq Items(air[m])
           /\ Head(air[m]) \in Items(air[m])
           /\ \A b \in Items(air[m]) : b \in Items(air'[m]) \/ b = Head(air[m])
           /\ \A k \in Macs \ {m} : air'[k] = air[k]
<1>1. air[m] \in Seq(OnAir) /\ air'[m] = Tail(air[m])
  BY DEF Types, Sent
<1>2. AtOnce(Tail(air[m]))
  BY <1>1, AtOnceTail DEF Life
<1>3. /\ Items(Tail(air[m])) \subseteq Items(air[m]) /\ Head(air[m]) \in Items(air[m])
      /\ Items(air[m]) \subseteq Items(Tail(air[m])) \union {Head(air[m])}
  BY <1>1, ItemsTail
<1> QED BY <1>1, <1>2, <1>3 DEF Types, Sent

LEMMA RngReqRecord ==
    ASSUME Types, NEW m \in Macs, NEW c, NEW initial, NEW usable, RngReq(m, c, initial, usable)
    PROVE  /\ sid'[m] # NoSid /\ (Known(m) => sid'[m] = sid[m])
           /\ state'[m] \in Online <=> state[m] \in Online
           /\ UNCHANGED access
           /\ \A k \in Macs \ {m} : sid'[k] = sid[k] /\ state'[k] = state[k]
<1>1. PICK s : s = IF Creates(m, initial) THEN nextSid ELSE sid[m]
  OBVIOUS
<1>2. PICK new : new = Ranged(state[m], Creates(m, initial), Converged(initial, usable))
  OBVIOUS
<1>3. sid' = [sid EXCEPT ![m] = s] /\ state' = [state EXCEPT ![m] = new] /\ UNCHANGED access
  BY <1>1, <1>2 DEF RngReq
<1>4. s # NoSid /\ (Known(m) => s = sid[m])
  BY <1>1 DEF Creates, Known, Types, CmtsTypeOK, Sids, NoSid
<1>5. new \in Online <=> state[m] \in Online
  BY <1>2 DEF Ranged, Online
<1> QED BY <1>3, <1>4, <1>5 DEF Types, CmtsTypeOK

LEMMA HandleRngReqStepped ==
    ASSUME Types, NEW m \in Macs, Life(m), air[m] # <<>>, air' = [air EXCEPT ![m] = Tail(@)],
           UNCHANGED modemVars, NEW burst, burst = Head(air[m]), burst.kind \in RangingFrames,
           HandleRngReq(m, burst)
    PROVE  Stepped(m)
<1>1. PICK kind, initial, usable :
          /\ kind \in RangingResponses
          /\ Loss \/ NoFault
          /\ RngReq(m, burst.n, initial, usable) /\ Says(m, kind, sid'[m])
  BY DEF HandleRngReq, RangingResponses
<1>2. UNCHANGED <<file, at>>
  BY DEF modemVars
<1>3. /\ sid'[m] # NoSid /\ (Known(m) => sid'[m] = sid[m])
      /\ state'[m] \in Online <=> state[m] \in Online
      /\ UNCHANGED access
      /\ \A k \in Macs \ {m} : sid'[k] = sid[k] /\ state'[k] = state[k]
  BY <1>1, RngReqRecord
<1>4. (Admitted(m)' <=> Admitted(m)) /\ (Refused(m)' <=> Refused(m))
  BY <1>2, <1>3 DEF Admitted, Refused
<1>5. PICK said : said = [kind |-> kind, n |-> sid'[m]]
  OBVIOUS
<1>6. /\ at[m] = "ds-scan" => down'[m] = down[m]
      /\ \A k \in Macs \ {m} : down'[k] = down[k]
      /\ \A msg \in Items(down'[m]) : msg \in Items(down[m]) \/ msg = said
      /\ Truthful(m, said)'
  <2>1. PICK s : s = sid'[m]
    OBVIOUS
  <2>2. Says(m, kind, s)
    BY <1>1, <2>1
  <2>3. said.kind \in RangingResponses /\ said.n = sid'[m]
    BY <1>1, <1>5
  <2>4. Truthful(m, said)'
    BY <1>3, <2>3 DEF Truthful, Known, RangingResponses
  <2> QED BY <1>5, <2>1, <2>2, <2>4, SaysItems
<1>7. losses' = 0 => losses = 0
  BY <1>1, FaultsCounted DEF Types
<1>8. /\ AtOnce(air'[m]) /\ Items(air'[m]) \subseteq Items(air[m])
      /\ \A b \in Items(air[m]) : b.kind = "REG-ACK" => b \in Items(air'[m])
      /\ \A k \in Macs \ {m} : air'[k] = air[k]
  BY AirTail DEF RangingFrames
<1>9. Life(m)'
  BY <1>3, <1>4, <1>5, <1>6, <1>7, <1>8, NetworkLife
<1> QED BY <1>1, <1>3, <1>6, <1>8, <1>9, NetworkStepped

LEMMA RegReqStepped ==
    ASSUME Types, NEW m \in Macs, Life(m), air[m] # <<>>, air' = [air EXCEPT ![m] = Tail(@)],
           UNCHANGED modemVars, Head(air[m]).kind = "REG-REQ",
           RegReq(m, file[m].verdict, file[m].gives), NEW kind,
           kind = IF Refuses(file[m].verdict) THEN "REG-NO" ELSE "REG-OK",
           Says(m, kind, 0), UNCHANGED <<losses, orders>>
    PROVE  Stepped(m)
<1>1. UNCHANGED <<file, at>>
  BY DEF modemVars
<1>2. PICK gives : gives = IF file[m].verdict = "mic" THEN access[m] ELSE file[m].gives
  OBVIOUS
<1>3. PICK new : new = CASE ~Refuses(file[m].verdict) -> state[m]
                         [] file[m].verdict = "mic"   -> "reject(m)"
                         [] OTHER                     -> "reject(c)"
  OBVIOUS
<1>4. /\ access' = [access EXCEPT ![m] = gives] /\ state' = [state EXCEPT ![m] = new]
      /\ UNCHANGED sid
  BY <1>2, <1>3 DEF RegReq
<1>5. /\ access'[m] = gives /\ state'[m] = new
      /\ \A k \in Macs \ {m} : access'[k] = access[k] /\ state'[k] = state[k]
  BY <1>4 DEF Types, CmtsTypeOK
<1>6. CASE Refuses(file[m].verdict)
  <2>1. Refused(m)' /\ ~Admitted(m) /\ kind = "REG-NO"
    <3>1. new \notin Online
      BY <1>3, <1>6 DEF Refuses, Online
    <3> QED BY <1>1, <1>5, <1>6, <3>1 DEF Refused, Admitted
  <2>2. PICK said : said = [kind |-> kind, n |-> 0]
    OBVIOUS
  <2>3. Truthful(m, said)'
    BY <2>1, <2>2 DEF Truthful, RangingResponses
  <2>4. /\ AtOnce(air'[m]) /\ Items(air'[m]) \subseteq Items(air[m])
        /\ \A b \in Items(air[m]) : b.kind = "REG-ACK" => b \in Items(air'[m])
        /\ \A k \in Macs \ {m} : air'[k] = air[k]
    BY AirTail
  <2>5. /\ at[m] = "ds-scan" => down'[m] = down[m]
        /\ \A k \in Macs \ {m} : down'[k] = down[k]
        /\ \A msg \in Items(down'[m]) : msg \in Items(down[m]) \/ msg = said
    BY <2>2, SaysItems
  <2>6. ~registered[m]
    BY <2>1 DEF Life
  <2>7. Life(m)'
    BY <1>4, <2>1, <2>3, <2>4, <2>5, <2>6, NetworkLife
  <2> QED BY <1>4, <1>5, <2>4, <2>5, <2>7, NetworkStepped DEF NoFault
<1>7. CASE ~Refuses(file[m].verdict)
  <2>1. Admitted(m)' /\ ~Refused(m) /\ kind = "REG-OK" /\ state'[m] = state[m]
    BY <1>1, <1>2, <1>3, <1>5, <1>7 DEF Refused, Admitted, Refuses
  <2>2. PICK said : said = [kind |-> kind, n |-> 0]
    OBVIOUS
  <2>3. Truthful(m, said)'
    BY <2>1, <2>2 DEF Truthful, RangingResponses
  <2>4. /\ AtOnce(air'[m]) /\ Items(air'[m]) \subseteq Items(air[m])
        /\ \A b \in Items(air[m]) : b.kind = "REG-ACK" => b \in Items(air'[m])
        /\ \A k \in Macs \ {m} : air'[k] = air[k]
    BY AirTail
  <2>5. /\ at[m] = "ds-scan" => down'[m] = down[m]
        /\ \A k \in Macs \ {m} : down'[k] = down[k]
        /\ \A msg \in Items(down'[m]) : msg \in Items(down[m]) \/ msg = said
    BY <2>2, SaysItems
  <2>6. Life(m)'
    BY <1>4, <2>1, <2>3, <2>4, <2>5, NetworkLife
  <2> QED BY <1>4, <1>5, <2>4, <2>5, <2>6, NetworkStepped DEF NoFault
<1> QED BY <1>6, <1>7

(* A REG-ACK that is not left over from another life puts an admitted modem *)
(* in service.                                                              *)
LEMMA RegAckStepped ==
    ASSUME Types, NEW m \in Macs, Life(m), air[m] # <<>>, air' = [air EXCEPT ![m] = Tail(@)],
           UNCHANGED modemVars, Head(air[m]).kind = "REG-ACK", RegAck(m),
           UNCHANGED <<down, losses, orders>>
    PROVE  Stepped(m)
<1>1. UNCHANGED <<file, at>>
  BY DEF modemVars
<1>2. PICK new : new = IF access[m] THEN "online" ELSE "online(d)"
  OBVIOUS
<1>3. state' = [state EXCEPT ![m] = new] /\ UNCHANGED <<sid, access>>
  BY <1>2 DEF RegAck
<1>4. state'[m] \in Online /\ \A k \in Macs \ {m} : state'[k] = state[k]
  BY <1>2, <1>3 DEF Types, CmtsTypeOK, Online
<1>5. /\ AtOnce(air'[m]) /\ Items(air'[m]) \subseteq Items(air[m]) /\ Head(air[m]) \in Items(air[m])
      /\ \A k \in Macs \ {m} : air'[k] = air[k]
  BY AirTail
<1>6. at[m] = "ds-scan" \/ ~Refused(m)
  BY <1>5 DEF Life, Admitted, Refused
<1>7. Admitted(m)' <=> Admitted(m)
  BY <1>1, <1>3 DEF Admitted
<1>8. Life(m)'
  BY <1>3, <1>4, <1>5, <1>6, <1>7, NetworkLife
<1> QED BY <1>3, <1>4, <1>5, <1>8, NetworkStepped DEF NoFault

(* The modem's traffic advances the record of a modem out of service.       *)
LEMMA AdvanceRecord ==
    ASSUME Types, NEW m \in Macs,
           \/ RelayFromCable(m) \/ RelayAck(m) \/ TrackTod(m) \/ TrackTftp(m)
           \/ UNCHANGED cmtsVars
    PROVE  /\ UNCHANGED <<sid, access>>
           /\ state'[m] \in Online <=> state[m] \in Online
           /\ \A k \in Macs \ {m} : state'[k] = state[k]
<1>1. CASE UNCHANGED cmtsVars
  BY <1>1 DEF cmtsVars
<1>2. CASE ~UNCHANGED cmtsVars
  <2>1. PICK from, to : /\ Advance(m, from, to)
                        /\ from \intersect Online = {} /\ to \notin Online
    BY <1>2 DEF RelayFromCable, RelayAck, TrackTod, TrackTftp, Online
  <2> QED BY <2>1 DEF Advance, Types, CmtsTypeOK
<1> QED BY <1>1, <1>2

(* A step of the network that changes neither whether the modem is in       *)
(* service nor its access, and tells it nothing of its record.              *)
LEMMA CarriedStepped ==
    ASSUME Types, NEW m \in Macs, Life(m), UNCHANGED <<sid, access>>, UNCHANGED modemVars,
           Loss \/ Order \/ NoFault,
           state'[m] \in Online <=> state[m] \in Online,
           \A k \in Macs \ {m} : state'[k] = state[k] /\ air'[k] = air[k] /\ down'[k] = down[k],
           AtOnce(air'[m]), Items(air'[m]) \subseteq Items(air[m]),
           ~Loss => \A b \in Items(air[m]) : b.kind = "REG-ACK" => b \in Items(air'[m]),
           at[m] = "ds-scan" => down'[m] = down[m],
           \A msg \in Items(down'[m]) :
               \/ msg \in Items(down[m])
               \/ msg.kind \in {"OFFER", "ACK", "TOD", "FILE"}
               \/ msg.kind = "UCC-REQ" /\ msg.n \in Channels
    PROVE  Stepped(m)
<1>1. UNCHANGED <<file, at>>
  BY DEF modemVars
<1>2. (Admitted(m)' <=> Admitted(m)) /\ (Refused(m)' <=> Refused(m))
  BY <1>1 DEF Admitted, Refused
<1>3. \A msg \in Items(down'[m]) : msg \in Items(down[m]) \/ Truthful(m, msg)'
  BY DEF Truthful, RangingResponses
<1>4. losses' = 0 => losses = 0 /\ ~Loss
  BY FaultsCounted DEF Types
<1>5. Life(m)'
  BY <1>2, <1>3, <1>4, NetworkLife
<1> QED BY <1>5, NetworkStepped

LEMMA ReceiveStepped == ASSUME Types, NEW m \in Macs, Life(m), Receive(m) PROVE Stepped(m)
<1>1. PICK burst : burst = Head(air[m])
  OBVIOUS
<1>2. /\ air[m] # <<>> /\ air' = [air EXCEPT ![m] = Tail(@)] /\ UNCHANGED modemVars
      /\ \/ burst.kind \in RangingFrames /\ HandleRngReq(m, burst)
         \/ HandleRegistration(m, burst.kind)
         \/ HandleTraffic(m, burst)
  BY <1>1 DEF Receive
<1>3. /\ AtOnce(air'[m]) /\ Items(air'[m]) \subseteq Items(air[m])
      /\ \A b \in Items(air[m]) : b \in Items(air'[m]) \/ b = burst
      /\ \A k \in Macs \ {m} : air'[k] = air[k]
  BY <1>1, <1>2, AirTail
<1>4. CASE burst.kind \in RangingFrames /\ HandleRngReq(m, burst)
  BY <1>1, <1>2, <1>4, HandleRngReqStepped
<1>5. CASE HandleRegistration(m, burst.kind)
  <2>1. CASE burst.kind = "REG-REQ" /\ RegReq(m, file[m].verdict, file[m].gives)
    <3>1. PICK kind : kind = IF Refuses(file[m].verdict) THEN "REG-NO" ELSE "REG-OK"
      OBVIOUS
    <3>2. Says(m, kind, 0) /\ UNCHANGED <<losses, orders>>
      BY <1>5, <2>1, <3>1 DEF HandleRegistration
    <3> QED BY <1>1, <1>2, <2>1, <3>1, <3>2, RegReqStepped
  <2>2. CASE burst.kind = "REG-ACK" /\ RegAck(m) /\ UNCHANGED down
    <3>1. UNCHANGED <<losses, orders>>
      BY <1>5 DEF HandleRegistration
    <3> QED BY <1>1, <1>2, <2>2, <3>1, RegAckStepped
  <2>3. CASE burst.kind = "UCC-RSP" /\ UNCHANGED <<cmtsVars, down>>
    <3>1. NoFault /\ UNCHANGED <<sid, access, state>>
      BY <1>5, <2>3 DEF HandleRegistration, NoFault, cmtsVars
    <3> QED BY <1>2, <1>3, <2>3, <3>1, CarriedStepped
  <2> QED BY <1>5, <2>1, <2>2, <2>3 DEF HandleRegistration
<1>6. CASE HandleTraffic(m, burst)
  <2>1. burst.kind # "REG-ACK" /\ UNCHANGED down /\ (Loss \/ NoFault)
    BY <1>6 DEF HandleTraffic, Serves
  <2>2. RelayFromCable(m) \/ TrackTod(m) \/ TrackTftp(m)
    BY <1>6 DEF HandleTraffic
  <2>3. /\ UNCHANGED <<sid, access>> /\ (state'[m] \in Online <=> state[m] \in Online)
        /\ \A k \in Macs \ {m} : state'[k] = state[k]
    BY <2>2, AdvanceRecord
  <2> QED BY <1>2, <1>3, <2>1, <2>3, CarriedStepped
<1> QED BY <1>2, <1>4, <1>5, <1>6

LEMMA LossStepped ==
    ASSUME Types, NEW m \in Macs, Life(m), Lose(m) \/ LoseDownstream(m)
    PROVE  Stepped(m)
<1>1. Loss /\ UNCHANGED modemVars /\ UNCHANGED <<sid, access, state>>
  BY DEF Lose, LoseDownstream, cmtsVars
<1>2. CASE Lose(m)
  <2>1. /\ AtOnce(air'[m]) /\ Items(air'[m]) \subseteq Items(air[m])
        /\ \A k \in Macs \ {m} : air'[k] = air[k]
    BY <1>2, AirTail DEF Lose
  <2>2. UNCHANGED down
    BY <1>2 DEF Lose
  <2> QED BY <1>1, <2>1, <2>2, CarriedStepped
<1>3. CASE LoseDownstream(m)
  <2>1. /\ down[m] # <<>> /\ UNCHANGED air /\ down[m] \in Seq(Messages)
        /\ down'[m] = Tail(down[m]) /\ \A k \in Macs \ {m} : down'[k] = down[k]
    BY <1>3 DEF LoseDownstream, Types, Sent
  <2>2. Items(down'[m]) \subseteq Items(down[m])
    BY <2>1, ItemsTail
  <2>3. AtOnce(air'[m]) /\ at[m] # "ds-scan"
    BY <2>1 DEF Life
  <2> QED BY <1>1, <2>1, <2>2, <2>3, CarriedStepped
<1> QED BY <1>2, <1>3

LEMMA RelayAnswerStepped == ASSUME Types, NEW m \in Macs, Life(m), RelayAnswer(m) PROVE Stepped(m)
<1>1. PICK kind, n : kind = server[m].kind /\ n = server[m].n
  OBVIOUS
<1>2. /\ Says(m, kind, n) /\ NoFault /\ UNCHANGED modemVars /\ UNCHANGED air
      /\ RelayAck(m) \/ UNCHANGED cmtsVars
  BY <1>1 DEF RelayAnswer, NoFault
<1>3. kind \in {"OFFER", "ACK", "TOD", "FILE"}
  BY <1>1 DEF RelayAnswer, Idle, Types, Sent, Answers
<1>4. /\ UNCHANGED <<sid, access>> /\ (state'[m] \in Online <=> state[m] \in Online)
      /\ \A k \in Macs \ {m} : state'[k] = state[k]
  BY <1>2, AdvanceRecord
<1>5. /\ at[m] = "ds-scan" => down'[m] = down[m]
      /\ \A msg \in Items(down'[m]) : msg \in Items(down[m]) \/ msg = [kind |-> kind, n |-> n]
      /\ \A k \in Macs \ {m} : down'[k] = down[k]
  BY <1>2, SaysItems
<1>6. AtOnce(air'[m])
  BY <1>2 DEF Life
<1> QED BY <1>2, <1>3, <1>4, <1>5, <1>6, CarriedStepped

LEMMA TestUccStepped ==
    ASSUME Types, NEW m \in Macs, Life(m), NEW c \in Channels, TestUcc(m, c)
    PROVE  Stepped(m)
<1>1. /\ Says(m, "UCC-REQ", c) /\ Order /\ UNCHANGED modemVars /\ UNCHANGED air
      /\ UNCHANGED <<sid, access, state>>
  BY DEF TestUcc, cmtsVars
<1>2. /\ at[m] = "ds-scan" => down'[m] = down[m]
      /\ \A msg \in Items(down'[m]) : msg \in Items(down[m]) \/ msg = [kind |-> "UCC-REQ", n |-> c]
      /\ \A k \in Macs \ {m} : down'[k] = down[k]
  BY <1>1, SaysItems
<1>3. AtOnce(air'[m])
  BY <1>1 DEF Life
<1> QED BY <1>1, <1>2, <1>3, CarriedStepped

-----------------------------------------------------------------------------
LEMMA InitBringup == Init => BringupInv
<1> SUFFICES ASSUME Init PROVE BringupInv
  OBVIOUS
<1>1. CmtsTypeOK
  BY InitInv DEF Init, Inv
<1>2. Sent
  BY InitSent
<1>3. ModemTypes
  BY BringupAssumption DEF Init, ModemTypes, States
<1>4. ASSUME NEW m \in Macs PROVE Life(m)
  <2>1. /\ own[m] = NoSid /\ at[m] = "ds-scan" /\ us[m] = NoChannel /\ registered[m] = FALSE
        /\ queue[m] = <<>> /\ down[m] = <<>> /\ air[m] = <<>>
    BY DEF Init
  <2>2. AtOnce(air[m])
    BY <2>1 DEF AtOnce
  <2> QED BY <2>1, <2>2, ItemsEmpty DEF Life
<1> QED BY <1>1, <1>2, <1>3, <1>4 DEF BringupInv, Types

LEMMA NextStepped ==
    ASSUME BringupInv, Next
    PROVE  \E m \in Macs : Stepped(m)
<1> PICK m \in Macs :
      \/ Works(m)
      \/ Reset(m) \/ Lose(m) \/ LoseDownstream(m) \/ \E c \in Channels : TestUcc(m, c)
  BY DEF Next
<1>1. Types /\ Life(m)
  BY DEF BringupInv
<1>2. CASE Lock(m) \/ (\E c \in Channels : HearUcd(m, c))
  BY <1>1, <1>2, LockStepped, HearUcdStepped
<1>3. CASE InitialMaintenance(m) \/ StationMaintenance(m) \/ Transmit(m)
  BY <1>1, <1>3, InitialMaintenanceStepped, StationMaintenanceStepped, TransmitStepped
<1>4. CASE T4(m) \/ T6(m) \/ TftpTimeout(m) \/ Reset(m)
  <2>1. Reinitialize(m) /\ (Order \/ NoFault)
    BY <1>4 DEF T4, T6, TftpTimeout, Reset
  <2> QED BY <1>1, <2>1, ReinitializeStepped
<1>5. CASE T3(m) \/ TodTimeout(m)
  BY <1>1, <1>5, T3Stepped, TodTimeoutStepped
<1>6. CASE Hear(m) \/ Receive(m) \/ RelayAnswer(m)
  BY <1>1, <1>6, HearStepped, ReceiveStepped, RelayAnswerStepped
<1>7. CASE Lose(m) \/ LoseDownstream(m) \/ \E c \in Channels : TestUcc(m, c)
  BY <1>1, <1>7, LossStepped, TestUccStepped
<1> QED BY <1>2, <1>3, <1>4, <1>5, <1>6, <1>7 DEF Works

LEMMA NextBringup ==
    ASSUME Inv, BringupInv, [Next]_vars
    PROVE  Inv' /\ BringupInv'
<1>1. Sent' /\ Inv'
  <2>1. Sent' /\ [CmtsNext]_cmtsVars
    BY NextSent DEF BringupInv, Types
  <2> QED BY <2>1, NextInv
<1>2. CASE UNCHANGED vars
  <2>1. UNCHANGED <<own, sid, air, down, queue, file, access, state, at, us, registered, target,
                    t3, t4, losses, orders>>
    BY <1>2 DEF vars, modemVars, cmtsVars
  <2>2. ModemTypes'
    BY <2>1 DEF BringupInv, Types, ModemTypes
  <2>3. ASSUME NEW m \in Macs PROVE Life(m)'
    BY <2>1 DEF BringupInv, Life, Truthful, Admitted, Refused, Known
  <2> QED BY <1>1, <2>2, <2>3 DEF BringupInv, Types, Inv
<1>3. CASE Next
  <2>1. PICK m \in Macs : Stepped(m)
    BY <1>3, NextStepped
  <2>2. ASSUME NEW k \in Macs PROVE Life(k)'
    <3>1. CASE k = m
      BY <2>1, <3>1 DEF Stepped
    <3>2. CASE k # m
      BY <2>1, <3>2, ElsewhereLife DEF Stepped, BringupInv
    <3> QED BY <3>1, <3>2
  <2> QED BY <1>1, <2>1, <2>2 DEF BringupInv, Types, Stepped, Inv
<1> QED BY <1>2, <1>3

(* The modems, the frames in flight and the records of the CMTS keep their  *)
(* types, and every modem's life is in order, whatever is lost, reset or    *)
(* moved, for any number of modems, channels, losses and orders.            *)
THEOREM BringupInvCorrect == Spec => []BringupInv
<1>1. Init => Inv /\ BringupInv
  BY InitInv, InitBringup DEF Init
<1>2. Inv /\ BringupInv /\ [Next]_vars => (Inv /\ BringupInv)'
  BY NextBringup
<1> QED BY <1>1, <1>2, PTL DEF Spec

(* At most a ranging burst and a data burst of a modem are on their way.    *)
LEMMA BringupTypes == BringupInv => TypeOK
<1> SUFFICES ASSUME BringupInv PROVE TypeOK
  OBVIOUS
<1>1. ASSUME NEW m \in Macs PROVE server[m].kind \in Answers /\ Len(air[m]) <= 2
  <2>1. air[m] \in Seq(OnAir) /\ AtOnce(air[m])
    BY DEF BringupInv, Types, Sent, Life
  <2>2. Len(air[m]) <= 2
    BY <2>1, AtOnceTwo
  <2> QED BY <2>2 DEF BringupInv, Types, Sent
<1>2. {us[m] : m \in Macs} \union {target[m] : m \in Macs} \subseteq Channels \union {NoChannel}
  BY DEF BringupInv, Types, Sent, ModemTypes
<1> QED BY <1>1, <1>2 DEF BringupInv, Types, Sent, ModemTypes, TypeOK

(* A modem answers polls for, and sends data under, no SID but that of its  *)
(* record at the CMTS, through every loss, reset and change of channel.     *)
THEOREM SidsAgreeCorrect == Spec => []SidsAgree
<1>1. BringupInv => SidsAgree
  BY BringupTypes DEF BringupInv, Life, SidsAgree, SidKept
<1> QED BY <1>1, BringupInvCorrect, PTL

(* The CPEs' traffic of an operational modem is forwarded only if the file  *)
(* it registered with gives access, and that of a rejected one never.       *)
THEOREM ForwardsAsConfiguredCorrect == Spec => []ForwardsAsConfigured
<1>1. BringupInv => ForwardsAsConfigured
  BY DEF BringupInv, Life, Admitted, Refused, Forwards, Online, ForwardsAsConfigured
<1> QED BY <1>1, BringupInvCorrect, PTL

(* Without a loss, the CMTS has every operational modem in service once its *)
(* REG-ACK has arrived.                                                     *)
THEOREM InServiceTogetherCorrect == Spec => []InServiceTogether
<1>1. BringupInv => InServiceTogether
  BY DEF BringupInv, Life, Items, InServiceTogether, Pending, Carries
<1> QED BY <1>1, BringupInvCorrect, PTL
=============================================================================
