------------------------ MODULE Registration_proofs ------------------------
(***************************************************************************)
(* Proofs about the configuration file on its way to the service flows,    *)
(* for any modems, specifications, secrets, losses and edits.              *)
(***************************************************************************)
EXTENDS Registration, SequenceTheorems, WellFoundedInduction, TLAPS

(* Induction, for a set in the place of a predicate.                        *)
LEMMA InductionUpTo ==
    ASSUME NEW N \in Nat, NEW T, 0 \in T, \A k \in 0 .. N - 1 : k \in T => k + 1 \in T
    PROVE  0 .. N \subseteq T
<1> SUFFICES ASSUME ~(0 .. N \subseteq T) PROVE FALSE
  OBVIOUS
<1> DEFINE Out == {n \in 0 .. N : n \notin T}
<1>1. Out \in SUBSET Nat /\ Out # {}
  OBVIOUS
<1>2. \E x \in Out : \A y \in Out : ~ (<<y, x>> \in OpToRel(<, Nat))
  <2> HIDE DEF Out
  <2> QED BY <1>1, WFMin, NatLessThanWellFounded, Zenon
<1>3. PICK x \in Out : \A y \in Out : ~ (<<y, x>> \in OpToRel(<, Nat))
  BY <1>2, Zenon
<1>4. x \in Nat /\ x # 0 /\ x - 1 \in Nat /\ x - 1 < x
  OBVIOUS
<1>5. x - 1 \notin Out
  <2> HIDE DEF Out
  <2>1. <<x - 1, x>> \in OpToRel(<, Nat)
    BY <1>4, Zenon DEF OpToRel
  <2> QED BY <1>3, <2>1, Zenon
<1>6. QED
  BY <1>4, <1>5

-----------------------------------------------------------------------------
(* The flows of a file, one after the other: each gets the next SFID.       *)
Admitted(a, sfid) ==
    /\ \E T : a \in [refused : BOOLEAN, next : Nat, flows : Seq(T)]
    /\ a.next >= sfid
    /\ \A i \in DOMAIN a.flows : a.flows[i].sfid \in sfid .. a.next - 1
    /\ \A i, j \in DOMAIN a.flows : i # j => a.flows[i].sfid # a.flows[j].sfid

LEMMA AdmitFlowAdmitted ==
    ASSUME NEW sfid \in Nat, NEW a, Admitted(a, sfid), NEW t
    PROVE  Admitted(AdmitFlow(a, t), sfid)
<1>1. PICK T : a \in [refused : BOOLEAN, next : Nat, flows : Seq(T)]
  BY DEF Admitted
<1> DEFINE direction == Direction[t.type]
           rate == IntOr(t.value, "MAX_RATE", 0)
           flow == [sfid |-> a.next, direction |-> direction, rate |-> rate,
                    priority |-> IntOr(t.value, "PRIORITY", 0),
                    primary |-> First(a.flows, direction)]
           more == [a EXCEPT !.next = @ + 1, !.flows = Append(@, flow)]
<1>2. \/ AdmitFlow(a, t) = [a EXCEPT !.refused = TRUE]
      \/ AdmitFlow(a, t) = more
  BY Zenon DEF AdmitFlow
<1>3. Admitted([a EXCEPT !.refused = TRUE], sfid)
  <2>1. [a EXCEPT !.refused = TRUE] \in [refused : BOOLEAN, next : Nat, flows : Seq(T)]
    BY <1>1
  <2>2. QED
    BY <1>1, <2>1 DEF Admitted
<1>4. Admitted(more, sfid)
  <2>0. flow.sfid = a.next
    OBVIOUS
  <2> HIDE DEF flow
  <2> DEFINE W == T \union {flow}
  <2>1. a.flows \in Seq(W) /\ flow \in W
    BY <1>1
  <2>2. /\ Append(a.flows, flow) \in Seq(W)
        /\ Len(Append(a.flows, flow)) = Len(a.flows) + 1
        /\ \A i \in 1 .. Len(a.flows) : Append(a.flows, flow)[i] = a.flows[i]
        /\ Append(a.flows, flow)[Len(a.flows) + 1] = flow
    <3> HIDE DEF W
    <3> QED BY <2>1, AppendProperties
  <2> HIDE DEF W
  <2>3. more \in [refused : BOOLEAN, next : Nat, flows : Seq(W)]
    <3>1. [a EXCEPT !.next = @ + 1] \in [refused : BOOLEAN, next : Nat, flows : Seq(T)]
      BY <1>1
    <3>2. QED
      BY <2>2, <3>1
  <2>4. more.next = a.next + 1 /\ more.flows = Append(a.flows, flow) /\ a.next \in Nat
    BY <1>1
  <2> HIDE DEF more
  <2>5. DOMAIN a.flows = 1 .. Len(a.flows) /\ Len(a.flows) \in Nat
    BY <1>1
  <2>6. DOMAIN more.flows = 1 .. Len(a.flows) + 1
    BY <2>2, <2>4, <2>5
  <2>7. ASSUME NEW i \in DOMAIN more.flows
        PROVE  \/ i \in DOMAIN a.flows /\ more.flows[i] = a.flows[i]
               \/ i = Len(a.flows) + 1 /\ more.flows[i].sfid = a.next
    BY <2>0, <2>2, <2>4, <2>5, <2>6
  <2>8. ASSUME NEW i \in DOMAIN a.flows PROVE a.flows[i].sfid \in sfid .. a.next - 1
    BY DEF Admitted
  <2>9. a.next >= sfid
    BY DEF Admitted
  <2>10. ASSUME NEW i \in DOMAIN more.flows PROVE more.flows[i].sfid \in sfid .. more.next - 1
    BY <2>4, <2>7, <2>8, <2>9
  <2>11. ASSUME NEW i \in DOMAIN more.flows, NEW j \in DOMAIN more.flows, i # j
         PROVE  more.flows[i].sfid # more.flows[j].sfid
    <3>1. ASSUME NEW k \in DOMAIN a.flows PROVE a.flows[k].sfid # a.next
      BY <2>4, <2>8
    <3>2. CASE i \in DOMAIN a.flows /\ j \in DOMAIN a.flows
      <4>1. a.flows[i].sfid # a.flows[j].sfid
        BY <2>11, <3>2 DEF Admitted
      <4>2. more.flows[i] = a.flows[i] /\ more.flows[j] = a.flows[j]
        BY <2>5, <2>7, <3>2
      <4>3. QED
        BY <4>1, <4>2
    <3>3. QED
      BY <2>7, <2>11, <3>1, <3>2
  <2>12. QED
    BY <2>3, <2>4, <2>9, <2>10, <2>11 DEF Admitted
<1>5. QED
  BY <1>2, <1>3, <1>4

LEMMA AdmitFlowsAdmitted ==
    ASSUME NEW sfid \in Nat, NEW flows, Len(flows) \in Nat
    PROVE  Admitted(AdmitFlows(flows, sfid), sfid)
<1> DEFINE N == Len(flows)
           base == [refused |-> FALSE, next |-> sfid, flows |-> <<>>]
           Step(g, n) == IF n = 0 THEN base ELSE AdmitFlow(g[n - 1], flows[n])
           Fills(g, k) == \A n \in 0 .. k : g[n] = Step(g, n)
           Reached == {k \in 0 .. N : \E g : Fills(g, k)}
<1>1. N \in Nat
  OBVIOUS
<1>0. Admitted(base, sfid)
  <2>1. base \in [refused : BOOLEAN, next : Nat, flows : Seq({})]
    OBVIOUS
  <2>2. DOMAIN base.flows = {} /\ base.next = sfid
    OBVIOUS
  <2> HIDE DEF base
  <2>3. QED
    BY <2>1, <2>2 DEF Admitted
<1> HIDE DEF N, base
<1>2. 0 .. N \subseteq Reached
  <2>1. 0 \in Reached
    <3>1. Fills([n \in {0} |-> base], 0)
      OBVIOUS
    <3>2. \E g : Fills(g, 0)
      BY <3>1
    <3>3. QED
      BY <1>1, <3>2
  <2>2. ASSUME NEW k \in 0 .. N - 1, k \in Reached PROVE k + 1 \in Reached
    <3>1. PICK g : Fills(g, k)
      BY <2>2
    <3>2. PICK h : h = [n \in 0 .. k + 1 |->
                           IF n = k + 1 THEN AdmitFlow(g[k], flows[k + 1]) ELSE g[n]]
      OBVIOUS
    <3>3. ASSUME NEW n \in 0 .. k + 1 PROVE h[n] = Step(h, n)
      <4>1. CASE n = k + 1
        BY <1>1, <2>2, <3>2, <4>1
      <4>2. CASE n # k + 1
        <5>1. n \in 0 .. k /\ h[n] = g[n] /\ (n # 0 => h[n - 1] = g[n - 1])
          BY <1>1, <2>2, <3>2, <4>2
        <5>2. QED
          BY <3>1, <5>1
      <4>3. QED
        BY <4>1, <4>2
    <3>4. QED
      BY <1>1, <2>2, <3>3
  <2>3. QED
    <3> HIDE DEF Reached
    <3> QED BY <1>1, <2>1, <2>2, InductionUpTo
<1> DEFINE Recursive(g) == g = [n \in 0 .. N |-> Step(g, n)]
           admission == CHOOSE g : Recursive(g)
<1>3. Recursive(admission)
  <2>1. PICK g : Fills(g, N)
    BY <1>1, <1>2
  <2>2. PICK h : h = [n \in 0 .. N |-> g[n]]
    OBVIOUS
  <2>3. ASSUME NEW n \in 0 .. N PROVE h[n] = Step(h, n)
    BY <1>1, <2>1, <2>2
  <2>4. Recursive(h)
    BY <2>2, <2>3
  <2>5. QED
    BY <2>4
<1>4. AdmitFlows(flows, sfid) = admission[N]
  BY DEF AdmitFlows, N, base
<1> HIDE DEF admission
<1>5. ASSUME NEW n \in 0 .. N PROVE admission[n] = Step(admission, n)
  BY <1>3
<1> DEFINE T == {n \in 0 .. N : Admitted(admission[n], sfid)}
<1>6. 0 \in T
  <2>1. admission[0] = base
    BY <1>1, <1>5
  <2>2. QED
    BY <1>0, <1>1, <2>1
<1>7. ASSUME NEW k \in 0 .. N - 1, k \in T PROVE k + 1 \in T
  <2>1. k + 1 \in 0 .. N /\ k + 1 # 0 /\ (k + 1) - 1 = k
    BY <1>1
  <2>2. admission[k + 1] = AdmitFlow(admission[k], flows[k + 1])
    BY <1>5, <2>1
  <2>3. Admitted(admission[k], sfid)
    BY <1>7
  <2>4. QED
    BY <2>1, <2>2, <2>3, AdmitFlowAdmitted
<1>8. N \in T
  <2> HIDE DEF T
  <2>1. 0 .. N \subseteq T
    BY <1>1, <1>6, <1>7, InductionUpTo
  <2>2. QED
    BY <1>1, <2>1
<1>9. QED
  BY <1>4, <1>8

-----------------------------------------------------------------------------
(* The files there can be, the messages, and the records, whatever numbers  *)
(* and flows they hold.                                                     *)
Files ==
    {f \in [name : DOMAIN Specs, damage : UNION {Damageable(n) : n \in DOMAIN Specs}] :
        f.damage \in Damageable(f.name)}
Messages == [kind : {"REG-REQ"}, file : Files] \union [kind : {"REG-ACK"}]
Responses == {"OK", "AUTH_FAILURE", "CLASS_OF_SERVICE_FAILURE"}
RecordsOf(S) ==
    [state : RecordStates, access : BOOLEAN, maxCpe : S, privacy : BOOLEAN,
     advPhy : BOOLEAN, flows : S]
ModemStates == {"tftp-config", "registering", "operational", "rejected", "scanning"}

Typed ==
    /\ fileSecret \in FileSecrets
    /\ file \in [Macs -> Files] /\ asked \in [Macs -> Files]
    /\ modem \in [Macs -> ModemStates]
    /\ up \in [Macs -> Seq(Messages)] /\ down \in [Macs -> Seq(Responses)]
    /\ nextSfid \in Nat \ {0}
    /\ \E S : record \in [Macs -> RecordsOf(S)]

(* One message at most is on its way between a modem and the CMTS, and none *)
(* when the modem is about to register.                                     *)
OneMessage ==
    \A m \in Macs :
        /\ Len(up[m]) + Len(down[m]) <= 1
        /\ modem[m] = "tftp-config" => Len(up[m]) + Len(down[m]) = 0

(* The SFIDs of admitted flows have been handed out.                        *)
SfidsIssued ==
    \A m \in Macs : \A i \in DOMAIN record[m].flows :
        record[m].flows[i].sfid \in 1 .. nextSfid - 1

RegistrationInv == Typed /\ OneMessage /\ SfidsIssued /\ SfidsUnique

LEMMA InvImpliesFlowsIdentified ==
    ASSUME RegistrationInv
    PROVE  FlowsIdentified
<1>1. PICK S : record \in [Macs -> RecordsOf(S)]
  BY DEF RegistrationInv, Typed
<1>2. ASSUME NEW m \in Macs
      PROVE  /\ Len(up[m]) <= 1 /\ Len(down[m]) <= 1
             /\ record[m].state \in RecordStates
             /\ {record[m].access, record[m].privacy, record[m].advPhy} \subseteq BOOLEAN
  <2>1. Len(up[m]) \in Nat /\ Len(down[m]) \in Nat /\ Len(up[m]) + Len(down[m]) <= 1
    BY DEF RegistrationInv, Typed, OneMessage
  <2>2. record[m] \in RecordsOf(S)
    BY <1>1
  <2>3. \A a, b \in Nat : a + b <= 1 => a <= 1 /\ b <= 1
    OBVIOUS
  <2>4. Len(up[m]) <= 1 /\ Len(down[m]) <= 1
    BY <2>1, <2>3
  <2>5. QED
    BY <2>2, <2>4 DEF RecordsOf
<1>3. ASSUME NEW m \in Macs, NEW f \in {file[m], asked[m]}
      PROVE  f.name \in DOMAIN Specs /\ f.damage \in Damageable(f.name)
  <2>1. f \in Files
    BY DEF RegistrationInv, Typed
  <2>2. QED
    BY <2>1 DEF Files
<1>4. QED
  BY <1>2, <1>3
     DEF FlowsIdentified, TypeOK, RegistrationInv, Typed, SfidsIssued, ModemStates

(* A file that was not touched is one of those there can be.                *)
LEMMA WholeIsAFile ==
    ASSUME NEW name \in DOMAIN Specs, fileSecret \in FileSecrets
    PROVE  Whole(name) \in Files
<1>1. Intact \in Damageable(name)
  BY DEF Damageable, Damages
<1>2. QED
  BY <1>1 DEF Whole, Files

LEMMA InitInv ==
    ASSUME Init
    PROVE  RegistrationInv
<1>1. file \in [Macs -> Files]
  <2>1. ASSUME NEW m \in Macs PROVE Whole(ConfigFile[m]) \in Files
    BY WholeIsAFile, RegistrationAssumption DEF Init
  <2>2. QED
    BY <2>1 DEF Init
<1>2. record \in [Macs -> RecordsOf({1, <<>>})]
  BY DEF Init, NoRecord, RecordsOf, RecordStates
<1>3. Typed
  BY <1>1, <1>2 DEF Init, Typed, ModemStates
<1>4. OneMessage
  BY DEF Init, OneMessage
<1>5. ASSUME NEW m \in Macs PROVE DOMAIN record[m].flows = {}
  BY DEF Init, NoRecord
<1>6. SfidsIssued /\ SfidsUnique
  BY <1>5 DEF SfidsIssued, SfidsUnique, Sfids
<1>7. QED
  BY <1>3, <1>4, <1>6 DEF RegistrationInv

-----------------------------------------------------------------------------
(* What a step may do to the service flows: at one modem they are as they   *)
(* were, or all of them are new.                                            *)
FlowStep(m) ==
    /\ nextSfid' \in Nat /\ nextSfid' >= nextSfid
    /\ \A n \in Macs \ {m} : record'[n].flows = record[n].flows
    /\ \/ record'[m].flows = record[m].flows
       \/ /\ \A i \in DOMAIN record'[m].flows :
                 record'[m].flows[i].sfid \in nextSfid .. nextSfid' - 1
          /\ \A i, j \in DOMAIN record'[m].flows :
                 i # j => record'[m].flows[i].sfid # record'[m].flows[j].sfid

LEMMA FlowStepKeeps ==
    ASSUME RegistrationInv, NEW m \in Macs, FlowStep(m)
    PROVE  SfidsIssued' /\ SfidsUnique'
<1> DEFINE new == record'[m].flows
<1>1. nextSfid \in Nat \ {0} /\ nextSfid' \in Nat \ {0} /\ nextSfid' >= nextSfid
  BY DEF RegistrationInv, Typed, FlowStep
<1>2. ASSUME NEW n \in Macs, NEW i \in DOMAIN record[n].flows
      PROVE  record[n].flows[i].sfid \in 1 .. nextSfid - 1
  BY DEF RegistrationInv, SfidsIssued
<1>3. ASSUME NEW n \in Macs, n # m PROVE record'[n].flows = record[n].flows
  BY <1>3 DEF FlowStep
<1>4. ASSUME NEW n \in Macs, NEW i \in DOMAIN record'[n].flows
      PROVE  record'[n].flows[i].sfid \in 1 .. nextSfid' - 1
  BY <1>1, <1>2, <1>3 DEF FlowStep
<1>5. ASSUME NEW n \in Macs,
             NEW i \in DOMAIN record'[n].flows, NEW j \in DOMAIN record'[n].flows, i # j
      PROVE  record'[n].flows[i].sfid # record'[n].flows[j].sfid
  BY <1>3, <1>5 DEF FlowStep, RegistrationInv, SfidsUnique
<1>6. ASSUME NEW n \in Macs, n # m,
             NEW i \in DOMAIN new, NEW j \in DOMAIN record[n].flows
      PROVE  new[i].sfid # record[n].flows[j].sfid
  <2>1. CASE new = record[m].flows
    <3>1. record[m].flows[i].sfid \in Sfids(m) /\ record[n].flows[j].sfid \in Sfids(n)
      BY <1>6, <2>1 DEF Sfids
    <3>2. Sfids(m) \intersect Sfids(n) = {}
      BY <1>6 DEF RegistrationInv, SfidsUnique
    <3>3. QED
      BY <2>1, <3>1, <3>2
  <2>2. CASE \A k \in DOMAIN new : new[k].sfid \in nextSfid .. nextSfid' - 1
    BY <1>1, <1>2, <1>6, <2>2
  <2>3. QED
    BY <2>1, <2>2 DEF FlowStep
<1>7. ASSUME NEW n \in Macs, NEW k \in Macs, n # k PROVE (Sfids(n) \intersect Sfids(k))' = {}
  <2> SUFFICES ASSUME NEW x, x \in Sfids(n)', x \in Sfids(k)' PROVE FALSE
    OBVIOUS
  <2>1. PICK i \in DOMAIN record'[n].flows : x = record'[n].flows[i].sfid
    BY DEF Sfids
  <2>2. PICK j \in DOMAIN record'[k].flows : x = record'[k].flows[j].sfid
    BY DEF Sfids
  <2>3. CASE n = m
    BY <1>3, <1>6, <1>7, <2>1, <2>2, <2>3
  <2>4. CASE k = m
    BY <1>3, <1>6, <1>7, <2>1, <2>2, <2>4
  <2>5. CASE n # m /\ k # m
    <3>1. x \in Sfids(n) /\ x \in Sfids(k)
      BY <1>3, <2>1, <2>2, <2>5 DEF Sfids
    <3>2. QED
      BY <1>7, <3>1 DEF RegistrationInv, SfidsUnique
  <2>6. QED
    BY <2>3, <2>4, <2>5
<1>8. SfidsIssued'
  BY <1>4 DEF SfidsIssued
<1>9. SfidsUnique'
  BY <1>5, <1>7 DEF SfidsUnique
<1>10. QED
  BY <1>8, <1>9

LEMMA FilesStay ==
    ASSUME fileSecret' = fileSecret
    PROVE  Files' = Files /\ Messages' = Messages /\ \A n : Damageable(n)' = Damageable(n)
  BY DEF Files, Messages, Damageable, Settings

LEMMA Queues ==
    ASSUME NEW S, NEW s \in Seq(S)
    PROVE  /\ Len(s) \in Nat
           /\ s = <<>> => Len(s) = 0
           /\ s # <<>> => /\ Head(s) \in S /\ Tail(s) \in Seq(S)
                          /\ Len(s) >= 1 /\ Len(Tail(s)) = Len(s) - 1
           /\ \A x \in S : Append(s, x) \in Seq(S) /\ Len(Append(s, x)) = Len(s) + 1
<1>1. \A x \in S : Append(s, x) \in Seq(S) /\ Len(Append(s, x)) = Len(s) + 1
  BY AppendProperties
<1>2. s # <<>> => /\ Head(s) \in S /\ Tail(s) \in Seq(S)
                  /\ Len(s) >= 1 /\ Len(Tail(s)) = Len(s) - 1
  BY HeadTailProperties, EmptySeq, LenProperties
<1>3. QED
  BY <1>1, <1>2, LenProperties, EmptySeq

(* The steps that leave every record's flows alone, and the digests too.    *)
Keeps(m) == Typed' /\ OneMessage' /\ FlowStep(m)

LEMMA SameFlows ==
    ASSUME RegistrationInv, NEW m \in Macs, nextSfid' = nextSfid,
           \A n \in Macs : record'[n].flows = record[n].flows
    PROVE  FlowStep(m)
  BY DEF RegistrationInv, Typed, FlowStep

LEMMA EditKeeps ==
    ASSUME RegistrationInv, NEW m \in Macs,
           \/ \E name \in DOMAIN Specs : AddConfigFile(m, name)
           \/ \E damage \in Damageable(file[m].name) : AddRawFile(m, damage)
    PROVE  Keeps(m)
<1>0. /\ UNCHANGED <<fileSecret, modem, up, down, record, asked, nextSfid>>
      /\ Typed /\ OneMessage /\ fileSecret \in FileSecrets
  BY DEF AddConfigFile, AddRawFile, RegistrationInv, Typed
<1>1. file' \in [Macs -> Files]
  <2>1. ASSUME NEW name \in DOMAIN Specs, AddConfigFile(m, name) PROVE file' \in [Macs -> Files]
    BY <1>0, <2>1, WholeIsAFile DEF AddConfigFile, Typed
  <2>2. ASSUME NEW damage \in Damageable(file[m].name), AddRawFile(m, damage)
        PROVE  file' \in [Macs -> Files]
    <3>1. file[m] \in Files /\ file[m].name \in DOMAIN Specs
      BY <1>0 DEF Typed, Files
    <3>2. [file[m] EXCEPT !.damage = damage] \in Files
      BY <2>2, <3>1 DEF Files
    <3>3. file' = [file EXCEPT ![m] = [file[m] EXCEPT !.damage = damage]]
      BY <2>2 DEF AddRawFile
    <3>4. QED
      BY <1>0, <3>2, <3>3 DEF Typed
  <2>3. QED
    BY <2>1, <2>2
<1>2. Typed' /\ OneMessage'
  BY <1>0, <1>1, FilesStay DEF Typed, OneMessage
<1>3. FlowStep(m)
  BY <1>0, SameFlows
<1>4. QED
  BY <1>2, <1>3 DEF Keeps

LEMMA ModemKeeps ==
    ASSUME RegistrationInv, NEW m \in Macs,
           ProcessConfig(m) \/ Provision(m) \/ OnRegRsp(m) \/ T6Expired(m) \/ Reinitialize(m)
    PROVE  Keeps(m)
<1>0. /\ UNCHANGED <<fileSecret, file, asked, nextSfid>>
      /\ Typed /\ OneMessage
  BY DEF ProcessConfig, Provision, OnRegRsp, T6Expired, Reinitialize, RegistrationInv
<1>1. PICK S : record \in [Macs -> RecordsOf(S)]
  BY <1>0 DEF Typed
<1>2. /\ \E T : record' \in [Macs -> RecordsOf(T)]
      /\ \A n \in Macs : record'[n].flows = record[n].flows
  <2>1. CASE UNCHANGED record
    BY <1>1, <2>1
  <2>2. CASE Provision(m)
    <3>1. record' = [record EXCEPT ![m].state =
                        IF @ \in {"online", "online(d)"} THEN @ ELSE "init(rc)"]
      BY <2>2 DEF Provision, Reranged
    <3>2. PICK state \in RecordStates : record' = [record EXCEPT ![m].state = state]
      <4>1. record[m].state \in RecordStates
        BY <1>1 DEF RecordsOf
      <4>2. QED
        BY <3>1, <4>1 DEF RecordStates
    <3>3. [record[m] EXCEPT !.state = state] \in RecordsOf(S)
      BY <1>1 DEF RecordsOf
    <3>4. record' = [record EXCEPT ![m] = [record[m] EXCEPT !.state = state]]
      BY <3>2
    <3>5. record' \in [Macs -> RecordsOf(S)]
      BY <1>1, <3>3, <3>4
    <3>6. [record[m] EXCEPT !.state = state].flows = record[m].flows
      BY <1>1 DEF RecordsOf
    <3>7. QED
      BY <1>1, <3>4, <3>5, <3>6
  <2>3. QED
    BY <2>1, <2>2 DEF ProcessConfig, OnRegRsp, T6Expired, Reinitialize
<1>3. /\ up[m] \in Seq(Messages) /\ down[m] \in Seq(Responses) /\ modem[m] \in ModemStates
      /\ Len(up[m]) \in Nat /\ Len(down[m]) \in Nat
      /\ Len(up[m]) + Len(down[m]) <= 1
      /\ modem[m] = "tftp-config" => Len(up[m]) + Len(down[m]) = 0
  BY <1>0, Queues DEF Typed, OneMessage
<1> DEFINE u == Len(up[m])
           d == Len(down[m])
<1>11. u \in Nat /\ d \in Nat /\ u + d <= 1 /\ (modem[m] = "tftp-config" => u = 0 /\ d = 0)
  <2>1. u \in Nat /\ d \in Nat /\ u + d <= 1 /\ (modem[m] = "tftp-config" => u + d = 0)
    BY <1>3
  <2> HIDE DEF u, d
  <2>2. QED
    BY <2>1
<1>4. ASSUME NEW file1 \in Files PROVE [kind |-> "REG-REQ", file |-> file1] \in Messages
  BY DEF Messages
<1>5. [kind |-> "REG-ACK"] \in Messages /\ file[m] \in Files
  BY <1>0 DEF Messages, Typed
<1>6. \E state \in ModemStates, ups \in Seq(Messages), downs \in Seq(Responses) :
         /\ modem' = [modem EXCEPT ![m] = state]
         /\ up' = [up EXCEPT ![m] = ups] /\ down' = [down EXCEPT ![m] = downs]
         /\ Len(ups) + Len(downs) <= 1
         /\ state = "tftp-config" => Len(ups) + Len(downs) = 0
  <2> DEFINE Becomes(state, ups, downs) ==
                 /\ modem' = [modem EXCEPT ![m] = state]
                 /\ up' = [up EXCEPT ![m] = ups] /\ down' = [down EXCEPT ![m] = downs]
                 /\ Len(ups) + Len(downs) <= 1
                 /\ state = "tftp-config" => Len(ups) + Len(downs) = 0
  <2> HIDE DEF u, d
  <2>0. /\ modem = [modem EXCEPT ![m] = modem[m]] /\ up = [up EXCEPT ![m] = up[m]]
        /\ down = [down EXCEPT ![m] = down[m]]
    BY <1>0 DEF Typed
  <2>1. CASE ProcessConfig(m)
    <3> DEFINE req == [kind |-> "REG-REQ", file |-> file[m]]
    <3>1. req \in Messages
      BY <1>4, <1>5
    <3> HIDE DEF req
    <3>2. Append(up[m], req) \in Seq(Messages) /\ Len(Append(up[m], req)) = u + 1
      BY <1>3, <3>1, Queues DEF u
    <3>3. CASE CmMicOk(Decode(Settings(file[m])))
      <4>1. /\ modem' = [modem EXCEPT ![m] = "registering"]
            /\ up' = [up EXCEPT ![m] = Append(up[m], req)] /\ down' = down
            /\ modem[m] = "tftp-config"
        BY <2>1, <3>3 DEF ProcessConfig, Send, req
      <4>2. Len(Append(up[m], req)) = 1 /\ Len(down[m]) = 0
        BY <1>11, <3>2, <4>1 DEF d
      <4>3. Becomes("registering", Append(up[m], req), down[m])
        BY <2>0, <4>1, <4>2
      <4>4. QED
        BY <1>3, <3>2, <4>3 DEF ModemStates
    <3>4. CASE ~CmMicOk(Decode(Settings(file[m])))
      <4>1. Becomes("scanning", up[m], down[m])
        BY <1>3, <2>0, <2>1, <3>4 DEF ProcessConfig
      <4>2. QED
        BY <1>3, <4>1 DEF ModemStates
    <3>5. QED
      BY <3>3, <3>4
  <2>2. CASE Provision(m)
    <3>1. <<>> \in Seq(Responses) /\ Len(<<>>) = 0 /\ Len(up[m]) = 0
      BY <2>2 DEF Provision
    <3>2. Becomes("tftp-config", up[m], <<>>)
      BY <1>3, <2>0, <2>2, <3>1 DEF Provision
    <3>3. QED
      BY <1>3, <3>1, <3>2 DEF ModemStates
  <2>3. CASE OnRegRsp(m)
    <3> DEFINE ack == [kind |-> "REG-ACK"]
    <3>1. /\ Tail(down[m]) \in Seq(Responses) /\ Len(Tail(down[m])) = Len(down[m]) - 1
          /\ Len(down[m]) >= 1
      BY <1>3, <2>3, Queues DEF OnRegRsp
    <3>2. Append(up[m], ack) \in Seq(Messages) /\ Len(Append(up[m], ack)) = Len(up[m]) + 1
      <4> HIDE DEF ack
      <4>1. ack \in Messages
        BY <1>5 DEF ack
      <4>2. QED
        BY <1>3, <4>1, Queues
    <3> HIDE DEF ack
    <3>3. /\ down' = [down EXCEPT ![m] = Tail(down[m])]
          /\ Len(up[m]) = 0 /\ Len(Tail(down[m])) = 0 /\ modem[m] # "tftp-config"
          /\ Len(Append(up[m], ack)) = 1
          /\ Len(up[m]) + Len(Tail(down[m])) <= 1
          /\ Len(Append(up[m], ack)) + Len(Tail(down[m])) <= 1
      <4>1. down' = [down EXCEPT ![m] = Tail(down[m])]
        BY <2>3 DEF OnRegRsp
      <4>2. d >= 1 /\ Len(Tail(down[m])) = d - 1 /\ Len(Append(up[m], ack)) = u + 1
        BY <3>1, <3>2 DEF d, u
      <4>3. d = 1 /\ u = 0 /\ modem[m] # "tftp-config"
        BY <1>11, <4>2
      <4>4. /\ Len(up[m]) = 0 /\ Len(Tail(down[m])) = 0 /\ Len(Append(up[m], ack)) = 1
        BY <4>2, <4>3 DEF u
      <4>5. /\ Len(up[m]) + Len(Tail(down[m])) <= 1
            /\ Len(Append(up[m], ack)) + Len(Tail(down[m])) <= 1
        <5>1. 0 + 0 <= 1 /\ 1 + 0 <= 1
          OBVIOUS
        <5>2. QED
          BY <4>4, <5>1
      <4>6. QED
        BY <4>1, <4>3, <4>4, <4>5
    <3>4. CASE modem[m] # "registering"
      <4>1. Becomes(modem[m], up[m], Tail(down[m]))
        BY <2>0, <2>3, <3>3, <3>4 DEF OnRegRsp
      <4>2. QED
        BY <1>3, <3>1, <4>1
    <3>5. CASE modem[m] = "registering" /\ Head(down[m]) = "OK"
      <4>1. /\ modem' = [modem EXCEPT ![m] = "operational"]
            /\ up' = [up EXCEPT ![m] = Append(up[m], ack)]
        BY <2>3, <3>5 DEF OnRegRsp, Send, ack
      <4>2. Becomes("operational", Append(up[m], ack), Tail(down[m]))
        BY <3>3, <4>1
      <4>3. QED
        BY <3>1, <3>2, <4>2 DEF ModemStates
    <3>6. CASE modem[m] = "registering" /\ Head(down[m]) # "OK"
      <4>1. Becomes("rejected", up[m], Tail(down[m]))
        BY <2>0, <2>3, <3>3, <3>6 DEF OnRegRsp
      <4>2. QED
        BY <1>3, <3>1, <4>1 DEF ModemStates
    <3>7. QED
      BY <3>4, <3>5, <3>6
  <2>4. CASE T6Expired(m) \/ Reinitialize(m)
    <3>1. Becomes("scanning", up[m], down[m])
      BY <1>3, <2>0, <2>4 DEF T6Expired, Reinitialize
    <3>2. QED
      BY <1>3, <3>1 DEF ModemStates
  <2>5. QED
    BY <2>1, <2>2, <2>3, <2>4
<1>7. OneMessage'
  BY <1>0, <1>6 DEF OneMessage, Typed
<1>8. Typed'
  BY <1>0, <1>2, <1>6, FilesStay DEF Typed
<1>9. FlowStep(m)
  BY <1>0, <1>2, SameFlows
<1>10. QED
  BY <1>7, <1>8, <1>9 DEF Keeps

LEMMA LoseKeeps ==
    ASSUME RegistrationInv, NEW m \in Macs, Lose(m)
    PROVE  Keeps(m)
<1>0. /\ UNCHANGED <<file, fileSecret, modem, record, asked, nextSfid>>
      /\ Typed /\ OneMessage
  BY DEF Lose, RegistrationInv
<1>1. up[m] \in Seq(Messages) /\ down[m] \in Seq(Responses)
  BY <1>0 DEF Typed
<1>2. CASE up[m] # <<>> /\ up' = [up EXCEPT ![m] = Tail(@)] /\ UNCHANGED down
  <2>1. Tail(up[m]) \in Seq(Messages) /\ Len(Tail(up[m])) = Len(up[m]) - 1 /\ Len(up[m]) >= 1
    BY <1>1, <1>2, Queues
  <2>2. Typed'
    BY <1>0, <1>2, <2>1, FilesStay DEF Typed
  <2>3. OneMessage'
    BY <1>0, <1>1, <1>2, <2>1, Queues DEF OneMessage, Typed
  <2>4. QED
    BY <1>0, <2>2, <2>3, SameFlows DEF Keeps
<1>3. CASE down[m] # <<>> /\ down' = [down EXCEPT ![m] = Tail(@)] /\ UNCHANGED up
  <2>1. /\ Tail(down[m]) \in Seq(Responses)
        /\ Len(Tail(down[m])) = Len(down[m]) - 1 /\ Len(down[m]) >= 1
    BY <1>1, <1>3, Queues
  <2>2. Typed'
    BY <1>0, <1>3, <2>1, FilesStay DEF Typed
  <2>3. OneMessage'
    BY <1>0, <1>1, <1>3, <2>1, Queues DEF OneMessage, Typed
  <2>4. QED
    BY <1>0, <2>2, <2>3, SameFlows DEF Keeps
<1>4. QED
  BY <1>2, <1>3 DEF Lose

(* What the CMTS makes of a REG-REQ.                                        *)
LEMMA RegReqOutcome ==
    ASSUME RegistrationInv, NEW m \in Macs, NEW msg, HandleRegReq(m, msg)
    PROVE  /\ asked' = [asked EXCEPT ![m] = msg.file]
           /\ \E response \in Responses : down' = [down EXCEPT ![m] = Append(@, response)]
           /\ \E T : record' \in [Macs -> RecordsOf(T)]
           /\ FlowStep(m)
<1> DEFINE settings  == Echo(m, msg.file)
           capable   == [record[m] EXCEPT !.advPhy =
                            Find(Find(settings, "MODEM_CAPABILITIES"), "DOCSIS_VERSION")[1] >= 2]
           verified  == [capable EXCEPT
                            !.access = Access(settings), !.maxCpe = Cpes(settings),
                            !.privacy = Privacy(settings)]
           admission == AdmitServiceFlows(settings)
           Becomes(rec) == record' = [record EXCEPT ![m] = rec]
<1>1. /\ asked' = [asked EXCEPT ![m] = msg.file]
      /\ IF ~Verify(settings, Secret)
         THEN /\ Becomes([capable EXCEPT !.state = "reject(m)"])
              /\ Respond(m, "AUTH_FAILURE") /\ UNCHANGED nextSfid
         ELSE /\ nextSfid' = admission.next
              /\ IF admission.refused
                 THEN /\ Becomes([verified EXCEPT !.state = "reject(c)"])
                      /\ Respond(m, "CLASS_OF_SERVICE_FAILURE")
                 ELSE /\ Becomes([verified EXCEPT !.flows = admission.flows])
                      /\ Respond(m, "OK")
  BY Zenon DEF HandleRegReq
<1>2. PICK S : record \in [Macs -> RecordsOf(S)]
  BY DEF RegistrationInv, Typed
<1>3. Admitted(admission, nextSfid) /\ nextSfid \in Nat
  <2>1. Len(FlowsOf(settings)) \in Nat
    BY DEF FlowsOf, Of
  <2>2. nextSfid \in Nat
    BY DEF RegistrationInv, Typed
  <2>3. QED
    BY <2>1, <2>2, AdmitFlowsAdmitted DEF AdmitServiceFlows
<1> DEFINE cpes == Cpes(settings)
           V == S \union {cpes, admission.flows}
<1>4. capable \in RecordsOf(S) /\ capable.flows = record[m].flows
  <2>3. (Find(Find(settings, "MODEM_CAPABILITIES"), "DOCSIS_VERSION")[1] >= 2) \in BOOLEAN
    OBVIOUS
  <2>1. PICK phy \in BOOLEAN : capable = [record[m] EXCEPT !.advPhy = phy]
    BY <2>3, Zenon
  <2> HIDE DEF capable
  <2>2. QED
    BY <1>2, <2>1 DEF RecordsOf
<1>5. verified \in RecordsOf(V) /\ verified.flows = record[m].flows
  <2>1. Access(settings) \in BOOLEAN /\ Privacy(settings) \in BOOLEAN
    BY Zenon DEF Access, Privacy
  <2>3. PICK access, privacy \in BOOLEAN :
            verified = [capable EXCEPT !.access = access, !.maxCpe = cpes, !.privacy = privacy]
    <3> HIDE DEF capable
    <3>1. QED
      BY <2>1, Zenon
  <2> HIDE DEF verified, capable, cpes, admission
  <2>4. QED
    BY <1>4, <2>3 DEF RecordsOf
<1> HIDE DEF capable, verified, admission, settings, cpes
<1>6. RecordsOf(S) \subseteq RecordsOf(V)
  BY DEF RecordsOf
<1>7. record \in [Macs -> RecordsOf(V)] /\ admission.flows \in V
  BY <1>2, <1>6
<1> HIDE DEF V
<1>8. CASE ~Verify(settings, Secret)
  <2>1. [capable EXCEPT !.state = "reject(m)"] \in RecordsOf(V)
    BY <1>4, <1>6 DEF RecordsOf, RecordStates
  <2>2. [capable EXCEPT !.state = "reject(m)"].flows = record[m].flows
    BY <1>4 DEF RecordsOf
  <2>3. Becomes([capable EXCEPT !.state = "reject(m)"]) /\ nextSfid' = nextSfid
    BY <1>1, <1>8
  <2>4. record' \in [Macs -> RecordsOf(V)]
    BY <1>7, <2>1, <2>3
  <2>5. FlowStep(m)
    BY <1>3, <1>7, <2>2, <2>3 DEF FlowStep
  <2>6. QED
    BY <1>1, <1>8, <2>4, <2>5 DEF Respond, Responses
<1>9. CASE Verify(settings, Secret) /\ admission.refused
  <2>1. [verified EXCEPT !.state = "reject(c)"] \in RecordsOf(V)
    BY <1>5 DEF RecordsOf, RecordStates
  <2>2. [verified EXCEPT !.state = "reject(c)"].flows = record[m].flows
    BY <1>5 DEF RecordsOf
  <2>3. Becomes([verified EXCEPT !.state = "reject(c)"]) /\ nextSfid' = admission.next
    BY <1>1, <1>9
  <2>4. record' \in [Macs -> RecordsOf(V)]
    BY <1>7, <2>1, <2>3
  <2>5. FlowStep(m)
    BY <1>3, <1>7, <2>2, <2>3 DEF FlowStep, Admitted
  <2>6. QED
    BY <1>1, <1>9, <2>4, <2>5 DEF Respond, Responses
<1>10. CASE Verify(settings, Secret) /\ ~admission.refused
  <2>1. [verified EXCEPT !.flows = admission.flows] \in RecordsOf(V)
    BY <1>5, <1>7 DEF RecordsOf
  <2>2. [verified EXCEPT !.flows = admission.flows].flows = admission.flows
    BY <1>5 DEF RecordsOf
  <2>3. Becomes([verified EXCEPT !.flows = admission.flows]) /\ nextSfid' = admission.next
    BY <1>1, <1>10
  <2>4. record' \in [Macs -> RecordsOf(V)]
    BY <1>7, <2>1, <2>3
  <2>5. record'[m].flows = admission.flows /\ \A n \in Macs \ {m} : record'[n] = record[n]
    BY <1>7, <2>2, <2>3
  <2>6. FlowStep(m)
    BY <1>3, <2>3, <2>5 DEF FlowStep, Admitted
  <2>7. QED
    BY <1>1, <1>10, <2>4, <2>6 DEF Respond, Responses
<1>11. QED
  BY <1>8, <1>9, <1>10

LEMMA ReceiveKeeps ==
    ASSUME RegistrationInv, NEW m \in Macs, Receive(m)
    PROVE  Keeps(m)
<1>0. /\ UNCHANGED <<file, fileSecret, modem>> /\ Typed /\ OneMessage
      /\ up[m] # <<>> /\ up' = [up EXCEPT ![m] = Tail(up[m])]
  BY DEF Receive, RegistrationInv
<1>1. up[m] \in Seq(Messages) /\ down[m] \in Seq(Responses)
  BY <1>0 DEF Typed
<1>2. /\ Tail(up[m]) \in Seq(Messages) /\ Len(Tail(up[m])) = Len(up[m]) - 1
      /\ Len(up[m]) >= 1 /\ Head(up[m]) \in Messages
  BY <1>0, <1>1, Queues
<1>3. CASE Head(up[m]).kind = "REG-REQ"
  <2> DEFINE msg == Head(up[m])
  <2>1. HandleRegReq(m, msg)
    BY <1>3 DEF Receive
  <2>2. msg.file \in Files
    BY <1>2, <1>3 DEF Messages
  <2> HIDE DEF msg
  <2>3. /\ asked' = [asked EXCEPT ![m] = msg.file]
        /\ \E response \in Responses : down' = [down EXCEPT ![m] = Append(@, response)]
        /\ \E T : record' \in [Macs -> RecordsOf(T)]
        /\ FlowStep(m)
    BY <2>1, RegReqOutcome
  <2>4. PICK response \in Responses : down' = [down EXCEPT ![m] = Append(down[m], response)]
    BY <2>3
  <2>5. /\ Append(down[m], response) \in Seq(Responses)
        /\ Len(Append(down[m], response)) = Len(down[m]) + 1
    BY <1>1, Queues
  <2>6. nextSfid' \in Nat \ {0}
    BY <1>0, <2>3 DEF FlowStep, Typed
  <2>7. Typed'
    BY <1>0, <1>2, <2>2, <2>3, <2>4, <2>5, <2>6, FilesStay DEF Typed
  <2>8. OneMessage'
    BY <1>0, <1>1, <1>2, <2>4, <2>5, Queues DEF OneMessage, Typed
  <2>9. QED
    BY <2>3, <2>7, <2>8 DEF Keeps
<1>4. CASE Head(up[m]).kind # "REG-REQ"
  <2>1. HandleRegAck(m)
    BY <1>4 DEF Receive
  <2>2. PICK state \in RecordStates : record' = [record EXCEPT ![m].state = state]
    BY <2>1 DEF HandleRegAck, RecordStates
  <2>3. PICK S : record \in [Macs -> RecordsOf(S)]
    BY <1>0 DEF Typed
  <2>4. [record[m] EXCEPT !.state = state] \in RecordsOf(S)
    BY <2>3 DEF RecordsOf
  <2>5. [record[m] EXCEPT !.state = state].flows = record[m].flows
    BY <2>3 DEF RecordsOf
  <2>6. record' = [record EXCEPT ![m] = [record[m] EXCEPT !.state = state]]
    BY <2>2
  <2>7. record' \in [Macs -> RecordsOf(S)]
    BY <2>3, <2>4, <2>6
  <2>8. \A n \in Macs : record'[n].flows = record[n].flows
    BY <2>3, <2>5, <2>6
  <2>9. UNCHANGED <<down, asked, nextSfid>>
    BY <2>1 DEF HandleRegAck
  <2>10. Typed'
    BY <1>0, <1>2, <2>7, <2>9, FilesStay DEF Typed
  <2>11. OneMessage'
    BY <1>0, <1>1, <1>2, <2>9, Queues DEF OneMessage, Typed
  <2>12. QED
    BY <2>8, <2>9, <2>10, <2>11, SameFlows DEF Keeps
<1>5. QED
  BY <1>3, <1>4

LEMMA StepKeepsInv ==
    ASSUME RegistrationInv, [Next]_vars
    PROVE  RegistrationInv'
<1>1. ASSUME NEW m \in Macs, Keeps(m) PROVE RegistrationInv'
  BY <1>1, FlowStepKeeps DEF Keeps, RegistrationInv
<1>2. CASE UNCHANGED vars
  <2>1. Typed'
    BY <1>2, FilesStay DEF vars, RegistrationInv, Typed
  <2>2. OneMessage' /\ SfidsIssued'
    BY <1>2 DEF vars, RegistrationInv, OneMessage, SfidsIssued
  <2>3. SfidsUnique'
    <3>1. record' = record /\ \A m : Sfids(m)' = Sfids(m)
      BY <1>2 DEF vars, Sfids
    <3>2. QED
      BY <3>1 DEF RegistrationInv, SfidsUnique
  <2>4. QED
    BY <2>1, <2>2, <2>3 DEF RegistrationInv
<1>3. ASSUME NEW m \in Macs,
             \/ \E name \in DOMAIN Specs : AddConfigFile(m, name)
             \/ \E damage \in Damageable(file[m].name) : AddRawFile(m, damage)
      PROVE  RegistrationInv'
  BY <1>1, <1>3, EditKeeps
<1>4. ASSUME NEW m \in Macs,
             ProcessConfig(m) \/ Provision(m) \/ OnRegRsp(m) \/ T6Expired(m) \/ Reinitialize(m)
      PROVE  RegistrationInv'
  BY <1>1, <1>4, ModemKeeps
<1>5. ASSUME NEW m \in Macs, Receive(m) \/ Lose(m) PROVE RegistrationInv'
  BY <1>1, <1>5, ReceiveKeeps, LoseKeeps
<1>6. QED
  BY <1>2, <1>3, <1>4, <1>5 DEF Next

(* Records and their flows can be told apart, and keep their types: no two  *)
(* service flows at the CMTS have one SFID (allocate_sfid), whatever files  *)
(* are refused half-way, damaged or sent again.                             *)
THEOREM FlowsIdentifiedCorrect == Spec => []FlowsIdentified
<1>1. RegistrationInv => FlowsIdentified
  BY InvImpliesFlowsIdentified
<1>2. QED
  BY <1>1, InitInv, StepKeepsInv, PTL DEF Spec

-----------------------------------------------------------------------------
(* The verdict on one modem, and what is under way to it or to the CMTS:    *)
(* an "OK" and a REG-ACK stand for a file that was admitted as it was read, *)
(* and a modem that is about to ask again was put back to init(rc) first.   *)
Verified(settings, rec) == Verify(settings, Secret) /\ ReadAs(rec, settings)
Admission(settings, sfid) == AdmitFlows(FlowsOf(settings), sfid)

Good(settings, rec, top) ==
    /\ Verified(settings, rec)
    /\ \E sfid \in 1..top :
           /\ ~Admission(settings, sfid).refused
           /\ rec.flows = Admission(settings, sfid).flows
Refused(settings, rec, top) ==
    Verified(settings, rec) /\ \E sfid \in 1..top : Admission(settings, sfid).refused

Right(settings, st, ups, downs, rec, top) ==
    /\ rec.state \in Online => Good(settings, rec, top)
    /\ Heads(ups, "REG-ACK") => Good(settings, rec, top)
    /\ downs # <<>> /\ Head(downs) = "OK" => Good(settings, rec, top)
    /\ rec.state = "reject(m)" => ~Verify(settings, Secret)
    /\ rec.state = "reject(c)" => Refused(settings, rec, top)
    /\ st = "tftp-config" \/ Heads(ups, "REG-REQ")
           => rec.state \notin {"reject(m)", "reject(c)"}

RightOf(m) == Right(Echo(m, asked[m]), modem[m], up[m], down[m], record[m], nextSfid)
VerdictInv == \A m \in Macs : RightOf(m)

(* Who admits a file looks at the settings of a record only.                *)
LEMMA GoodSettings ==
    ASSUME NEW a, NEW b, NEW settings, NEW top, a.flows = b.flows, a.access = b.access,
           a.privacy = b.privacy, a.maxCpe = b.maxCpe
    PROVE  Good(settings, a, top) <=> Good(settings, b, top)
BY DEF Good, Verified, ReadAs

(* SFIDs that were given stay given.                                        *)
LEMMA RightStays ==
    ASSUME NEW settings, NEW st, NEW ups, NEW downs, NEW rec, NEW top \in Nat,
           NEW higher \in Nat, higher >= top, Right(settings, st, ups, downs, rec, top)
    PROVE  Right(settings, st, ups, downs, rec, higher)
<1>1. 1..top \subseteq 1..higher
  OBVIOUS
<1>2. Good(settings, rec, top) => Good(settings, rec, higher)
  BY <1>1 DEF Good
<1>3. Refused(settings, rec, top) => Refused(settings, rec, higher)
  BY <1>1 DEF Refused
<1>4. QED
  BY <1>2, <1>3 DEF Right

LEMMA EchoStays ==
    ASSUME fileSecret' = fileSecret
    PROVE  \A m, f : Echo(m, f)' = Echo(m, f)
BY DEF Echo, Settings, Capabilities, Served

(* A step of modem m leaves the others' verdicts as they are.               *)
LEMMA OneVerdict ==
    ASSUME VerdictInv, NEW m \in Macs, fileSecret' = fileSecret,
           nextSfid \in Nat, nextSfid' \in Nat, nextSfid' >= nextSfid,
           \A n \in Macs \ {m} :
               /\ modem'[n] = modem[n] /\ up'[n] = up[n] /\ down'[n] = down[n]
               /\ record'[n] = record[n] /\ asked'[n] = asked[n],
           Right(Echo(m, asked'[m]), modem'[m], up'[m], down'[m], record'[m], nextSfid')
    PROVE  VerdictInv'
<1>1. ASSUME NEW n \in Macs
      PROVE  Right(Echo(n, asked'[n]), modem'[n], up'[n], down'[n], record'[n], nextSfid')
  <2>1. CASE n = m
    BY <2>1
  <2>2. CASE n # m
    <3>1. Right(Echo(n, asked[n]), modem[n], up[n], down[n], record[n], nextSfid)
      BY DEF VerdictInv, RightOf
    <3>2. Right(Echo(n, asked[n]), modem[n], up[n], down[n], record[n], nextSfid')
      BY <3>1, RightStays
    <3>3. QED
      BY <2>2, <3>2
  <2>3. QED
    BY <2>1, <2>2
<1>2. ASSUME NEW n \in Macs PROVE RightOf(n)'
  <2>1. Echo(n, asked[n])' = Echo(n, asked'[n])
    BY EchoStays DEF Echo, Settings, Capabilities, Served
  <2>2. QED
    BY <1>1, <2>1 DEF RightOf, Right
<1>3. QED
  BY <1>2 DEF VerdictInv

LEMMA VerdictInit ==
    ASSUME Init
    PROVE  VerdictInv
<1>1. ASSUME NEW m \in Macs PROVE RightOf(m)
  <2>1. up[m] = <<>> /\ down[m] = <<>> /\ record[m].state = "init(rc)"
    BY DEF Init, NoRecord
  <2>2. QED
    BY <2>1 DEF RightOf, Right, Heads, Online
<1>2. QED
  BY <1>1 DEF VerdictInv

(* The CMTS's answer to a REG-REQ.                                          *)
LEMMA RegReqRight ==
    ASSUME RegistrationInv, NEW m \in Macs, NEW f \in Files, NEW msg, msg.file = f,
           record[m].state \notin {"reject(m)", "reject(c)"},
           modem[m] # "tftp-config", down[m] = <<>>, HandleRegReq(m, msg)
    PROVE  /\ Right(Echo(m, asked'[m]), modem[m], <<>>, down'[m], record'[m], nextSfid')
           /\ \A n \in Macs \ {m} :
                  record'[n] = record[n] /\ asked'[n] = asked[n] /\ down'[n] = down[n]
<1> DEFINE settings  == Echo(m, msg.file)
           capable   == [record[m] EXCEPT !.advPhy =
                            Find(Find(settings, "MODEM_CAPABILITIES"), "DOCSIS_VERSION")[1] >= 2]
           verified  == [capable EXCEPT
                            !.access = Access(settings), !.maxCpe = Cpes(settings),
                            !.privacy = Privacy(settings)]
           admission == AdmitServiceFlows(settings)
           Becomes(rec) == record' = [record EXCEPT ![m] = rec]
<1>1. /\ asked' = [asked EXCEPT ![m] = msg.file]
      /\ IF ~Verify(settings, Secret)
         THEN /\ Becomes([capable EXCEPT !.state = "reject(m)"])
              /\ Respond(m, "AUTH_FAILURE") /\ UNCHANGED nextSfid
         ELSE /\ nextSfid' = admission.next
              /\ IF admission.refused
                 THEN /\ Becomes([verified EXCEPT !.state = "reject(c)"])
                      /\ Respond(m, "CLASS_OF_SERVICE_FAILURE")
                 ELSE /\ Becomes([verified EXCEPT !.flows = admission.flows])
                      /\ Respond(m, "OK")
  BY Zenon DEF HandleRegReq
<1>2. admission = Admission(settings, nextSfid)
  BY DEF AdmitServiceFlows, Admission
<1>3. PICK S : record \in [Macs -> RecordsOf(S)]
  BY DEF RegistrationInv, Typed
<1>4. /\ asked \in [Macs -> Files] /\ down \in [Macs -> Seq(Responses)]
  BY DEF RegistrationInv, Typed
<1>5. nextSfid \in 1..nextSfid'
  <2>1. FlowStep(m)
    BY RegReqOutcome
  <2>2. nextSfid \in Nat \ {0}
    BY DEF RegistrationInv, Typed
  <2>3. QED
    BY <2>1, <2>2 DEF FlowStep
<1>6. PICK phy : phy = (Find(Find(settings, "MODEM_CAPABILITIES"), "DOCSIS_VERSION")[1] >= 2)
  OBVIOUS
<1>7. capable = [record[m] EXCEPT !.advPhy = phy]
  BY <1>6, Zenon
<1>8. PICK a, c, p : a = Access(settings) /\ c = Cpes(settings) /\ p = Privacy(settings)
  OBVIOUS
<1>9. verified = [capable EXCEPT !.access = a, !.maxCpe = c, !.privacy = p]
  BY <1>8, Zenon
<1>10. settings = Echo(m, f)
  OBVIOUS
<1> HIDE DEF settings, admission, verified, capable
<1>11. DOMAIN record[m] = {"state", "access", "maxCpe", "privacy", "advPhy", "flows"}
  BY <1>3 DEF RecordsOf
<1>12. /\ asked'[m] = f
       /\ \A n \in Macs \ {m} : asked'[n] = asked[n]
       /\ \A rec : Becomes(rec) =>
              record'[m] = rec /\ \A n \in Macs \ {m} : record'[n] = record[n]
       /\ \A r : Respond(m, r) =>
              Head(down'[m]) = r /\ \A n \in Macs \ {m} : down'[n] = down[n]
  BY <1>1, <1>3, <1>4 DEF Respond
<1>13. \A rec : rec.access = a /\ rec.maxCpe = c /\ rec.privacy = p => ReadAs(rec, settings)
  BY <1>8 DEF ReadAs
<1>14. CASE ~Verify(settings, Secret)
  <2> DEFINE rec == [capable EXCEPT !.state = "reject(m)"]
  <2>1. rec.state = "reject(m)"
    BY <1>7, <1>11
  <2>2. record'[m] = rec /\ Head(down'[m]) = "AUTH_FAILURE"
    BY <1>1, <1>12, <1>14
  <2> HIDE DEF rec
  <2>3. Right(settings, modem[m], <<>>, down'[m], rec, nextSfid')
    BY <1>14, <2>1, <2>2 DEF Right, Heads, Online
  <2>4. QED
    BY <1>1, <1>10, <1>12, <1>14, <2>2, <2>3
<1>15. CASE Verify(settings, Secret) /\ admission.refused
  <2> DEFINE rec == [verified EXCEPT !.state = "reject(c)"]
  <2>1. rec.state = "reject(c)" /\ rec.access = a /\ rec.maxCpe = c /\ rec.privacy = p
    BY <1>7, <1>9, <1>11
  <2>2. record'[m] = rec /\ Head(down'[m]) = "CLASS_OF_SERVICE_FAILURE"
    BY <1>1, <1>12, <1>15
  <2> HIDE DEF rec
  <2>3. Refused(settings, rec, nextSfid')
    BY <1>2, <1>5, <1>13, <1>15, <2>1 DEF Refused, Verified
  <2>4. Right(settings, modem[m], <<>>, down'[m], rec, nextSfid')
    BY <2>1, <2>2, <2>3 DEF Right, Heads, Online
  <2>5. QED
    BY <1>1, <1>10, <1>12, <1>15, <2>2, <2>4
<1>16. CASE Verify(settings, Secret) /\ ~admission.refused
  <2> DEFINE rec == [verified EXCEPT !.flows = admission.flows]
  <2>1. /\ rec.state = record[m].state /\ rec.maxCpe = c /\ rec.access = a
        /\ rec.privacy = p /\ rec.flows = admission.flows
    BY <1>7, <1>9, <1>11
  <2>2. record'[m] = rec
    BY <1>1, <1>12, <1>16
  <2> HIDE DEF rec
  <2>3. Good(settings, rec, nextSfid')
    BY <1>2, <1>5, <1>13, <1>16, <2>1 DEF Good, Verified
  <2>4. Right(settings, modem[m], <<>>, down'[m], rec, nextSfid')
    BY <2>1, <2>3 DEF Right, Heads
  <2>5. QED
    BY <1>1, <1>10, <1>12, <1>16, <2>2, <2>4
<1>17. QED
  BY <1>14, <1>15, <1>16

LEMMA ReceiveRight ==
    ASSUME RegistrationInv, VerdictInv, NEW m \in Macs, Receive(m)
    PROVE  VerdictInv'
<1>0. /\ UNCHANGED <<file, fileSecret, modem>> /\ up[m] # <<>>
      /\ up' = [up EXCEPT ![m] = Tail(up[m])] /\ Typed /\ OneMessage
  BY DEF Receive, RegistrationInv
<1>1. up[m] \in Seq(Messages) /\ down[m] \in Seq(Responses)
  BY <1>0 DEF Typed
<1>2. Head(up[m]) \in Messages
  BY <1>0, <1>1, Queues
<1>3. Tail(up[m]) = <<>> /\ down[m] = <<>> /\ modem[m] # "tftp-config"
  <2>1. /\ Len(up[m]) \in Nat /\ Len(down[m]) \in Nat /\ Len(up[m]) >= 1
        /\ Len(up[m]) + Len(down[m]) <= 1
        /\ modem[m] = "tftp-config" => Len(up[m]) + Len(down[m]) = 0
    BY <1>0, <1>1, Queues DEF OneMessage
  <2>2. \A u, d \in Nat : u >= 1 /\ u + d <= 1 => u = 1 /\ d = 0 /\ u + d # 0
    OBVIOUS
  <2>3. Len(up[m]) = 1 /\ Len(down[m]) = 0 /\ modem[m] # "tftp-config"
    BY <2>1, <2>2
  <2>4. /\ Tail(up[m]) \in Seq(Messages) /\ Len(Tail(up[m])) = Len(up[m]) - 1
    BY <1>0, <1>1, Queues
  <2>5. Len(Tail(up[m])) = 0
    BY <2>3, <2>4
  <2>6. QED
    BY <1>1, <2>3, <2>4, <2>5, EmptySeq
<1>4. Right(Echo(m, asked[m]), modem[m], up[m], down[m], record[m], nextSfid)
  BY DEF VerdictInv, RightOf
<1>5. up'[m] = <<>> /\ modem' = modem
  BY <1>0, <1>3 DEF Typed
<1>6. CASE Head(up[m]).kind = "REG-REQ"
  <2> DEFINE msg == Head(up[m])
             f == msg.file
  <2>1. HandleRegReq(m, msg)
    BY <1>6 DEF Receive
  <2>2. f \in Files
    BY <1>2, <1>6 DEF Messages
  <2>3. nextSfid \in Nat /\ nextSfid' \in Nat /\ nextSfid' >= nextSfid
    BY <1>0, <2>1, RegReqOutcome DEF FlowStep, Typed
  <2>4. record[m].state \notin {"reject(m)", "reject(c)"}
    BY <1>0, <1>4, <1>6 DEF Right, Heads
  <2>5. msg.file = f
    OBVIOUS
  <2> HIDE DEF msg, f
  <2>6. /\ Right(Echo(m, asked'[m]), modem[m], <<>>, down'[m], record'[m], nextSfid')
        /\ \A n \in Macs \ {m} :
               record'[n] = record[n] /\ asked'[n] = asked[n] /\ down'[n] = down[n]
    BY <1>3, <2>1, <2>2, <2>4, <2>5, RegReqRight
  <2>7. \A n \in Macs \ {m} : up'[n] = up[n]
    BY <1>0 DEF Typed
  <2>8. Right(Echo(m, asked'[m]), modem'[m], up'[m], down'[m], record'[m], nextSfid')
    BY <1>5, <2>6
  <2>9. QED
    BY <1>0, <1>5, <2>3, <2>6, <2>7, <2>8, OneVerdict
<1>7. CASE Head(up[m]).kind = "REG-ACK"
  <2>1. HandleRegAck(m)
    BY <1>7 DEF Receive
  <2>2. Good(Echo(m, asked[m]), record[m], nextSfid)
    BY <1>0, <1>4, <1>7 DEF Right, Heads
  <2>3. PICK S : record \in [Macs -> RecordsOf(S)]
    BY <1>0 DEF Typed
  <2>4. PICK state \in Online :
            record' = [record EXCEPT ![m] = [record[m] EXCEPT !.state = state]]
    BY <2>1 DEF HandleRegAck, Online
  <2> DEFINE rec == [record[m] EXCEPT !.state = state]
  <2>5. /\ rec.state = state /\ rec.maxCpe = record[m].maxCpe /\ rec.flows = record[m].flows
        /\ rec.access = record[m].access /\ rec.privacy = record[m].privacy
    BY <2>3 DEF RecordsOf
  <2>6. record'[m] = rec /\ \A n \in Macs \ {m} : record'[n] = record[n]
    BY <2>3, <2>4
  <2> HIDE DEF rec
  <2>7. Good(Echo(m, asked[m]), rec, nextSfid)
    BY <2>2, <2>5, GoodSettings
  <2>8. /\ UNCHANGED <<down, asked, nextSfid>> /\ down[m] = <<>> /\ nextSfid \in Nat
    BY <1>0, <1>3, <2>1 DEF HandleRegAck, Typed
  <2>9. rec.state \notin {"reject(m)", "reject(c)"}
    BY <2>5 DEF Online
  <2>10. Right(Echo(m, asked[m]), modem[m], <<>>, <<>>, rec, nextSfid)
    BY <1>3, <2>2, <2>5, <2>7, <2>9 DEF Right, Heads
  <2>11. Right(Echo(m, asked'[m]), modem'[m], up'[m], down'[m], record'[m], nextSfid')
    BY <1>5, <2>6, <2>8, <2>10
  <2>12. \A n \in Macs \ {m} : up'[n] = up[n]
    BY <1>0 DEF Typed
  <2>13. QED
    BY <1>0, <1>5, <2>6, <2>8, <2>11, <2>12, OneVerdict
<1>8. QED
  BY <1>2, <1>6, <1>7 DEF Messages

(* ... which is all there is to show of a step that hands out no SFID.      *)
LEMMA OwnVerdict ==
    ASSUME VerdictInv, NEW m \in Macs, UNCHANGED <<fileSecret, nextSfid, asked>>,
           nextSfid \in Nat,
           \A n \in Macs \ {m} :
               /\ modem'[n] = modem[n] /\ up'[n] = up[n]
               /\ down'[n] = down[n] /\ record'[n] = record[n],
           NEW st, NEW ups, NEW downs, NEW rec,
           modem'[m] = st, up'[m] = ups, down'[m] = downs, record'[m] = rec,
           Right(Echo(m, asked[m]), st, ups, downs, rec, nextSfid)
    PROVE  VerdictInv'
<1>1. Right(Echo(m, asked'[m]), modem'[m], up'[m], down'[m], record'[m], nextSfid')
  OBVIOUS
<1>2. \A n \in Macs \ {m} :
          /\ modem'[n] = modem[n] /\ up'[n] = up[n] /\ down'[n] = down[n]
          /\ record'[n] = record[n] /\ asked'[n] = asked[n]
  OBVIOUS
<1>3. nextSfid' \in Nat /\ nextSfid' >= nextSfid /\ fileSecret' = fileSecret
  OBVIOUS
<1>4. QED
  BY <1>1, <1>2, <1>3, OneVerdict

(* A modem's own steps: it tries again only from init(rc) or in service.    *)
LEMMA ModemRight ==
    ASSUME RegistrationInv, VerdictInv, NEW m \in Macs,
           ProcessConfig(m) \/ Provision(m) \/ OnRegRsp(m) \/ T6Expired(m) \/ Reinitialize(m)
    PROVE  VerdictInv'
<1>0. /\ UNCHANGED <<file, fileSecret, asked, nextSfid>>
      /\ Typed /\ OneMessage /\ nextSfid \in Nat
  BY DEF ProcessConfig, Provision, OnRegRsp, T6Expired, Reinitialize, RegistrationInv, Typed
<1>1. PICK S : record \in [Macs -> RecordsOf(S)]
  BY <1>0 DEF Typed
<1>2. up[m] \in Seq(Messages) /\ down[m] \in Seq(Responses)
  BY <1>0 DEF Typed
<1>3. Right(Echo(m, asked[m]), modem[m], up[m], down[m], record[m], nextSfid)
  BY DEF VerdictInv, RightOf
<1>4. /\ Len(up[m]) \in Nat /\ Len(down[m]) \in Nat /\ Len(up[m]) + Len(down[m]) <= 1
      /\ modem[m] = "tftp-config" => Len(up[m]) + Len(down[m]) = 0
  BY <1>0, <1>2, Queues DEF OneMessage
<1>5. \A u, d \in Nat : /\ u + d <= 1 /\ d >= 1 => u = 0 /\ d - 1 = 0
                        /\ u + d = 0 => u = 0 /\ d = 0
  OBVIOUS
<1>6. CASE ProcessConfig(m)
  <2> DEFINE req == [kind |-> "REG-REQ", file |-> file[m]]
  <2>1. modem[m] = "tftp-config" /\ UNCHANGED <<down, record>>
    BY <1>6 DEF ProcessConfig
  <2>2. up[m] = <<>> /\ down[m] = <<>>
    BY <1>2, <1>4, <1>5, <2>1, EmptySeq
  <2>3. CASE modem' = [modem EXCEPT ![m] = "registering"] /\ Send(m, req)
    <3>1. up'[m] = <<req>> /\ modem'[m] = "registering"
          /\ \A n \in Macs \ {m} : up'[n] = up[n] /\ modem'[n] = modem[n]
      BY <1>0, <2>2, <2>3 DEF Typed, Send
    <3>2. Head(<<req>>).kind = "REG-REQ"
      OBVIOUS
    <3> HIDE DEF req
    <3>3. ~Heads(<<req>>, "REG-ACK")
      BY <3>2 DEF Heads
    <3>4. Right(Echo(m, asked[m]), "registering", <<req>>, down[m], record[m], nextSfid)
      BY <1>3, <2>1, <3>3 DEF Right
    <3>5. QED
      BY <1>0, <2>1, <3>1, <3>4, OwnVerdict
  <2>4. CASE modem' = [modem EXCEPT ![m] = "scanning"] /\ UNCHANGED up
    <3>1. modem'[m] = "scanning" /\ \A n \in Macs \ {m} : modem'[n] = modem[n]
      BY <1>0, <2>4 DEF Typed
    <3>2. Right(Echo(m, asked[m]), "scanning", up[m], down[m], record[m], nextSfid)
      BY <1>3 DEF Right
    <3>3. QED
      BY <1>0, <2>1, <2>4, <3>1, <3>2, OwnVerdict
  <2>5. QED
    BY <1>6, <2>3, <2>4 DEF ProcessConfig
<1>7. CASE Provision(m)
  <2>1. up' = up /\ up[m] = <<>> /\ modem' = [modem EXCEPT ![m] = "tftp-config"]
        /\ down' = [down EXCEPT ![m] = <<>>]
    BY <1>7 DEF Provision
  <2>2. PICK state \in Online \union {"init(rc)"} :
           /\ state # "init(rc)" => state = record[m].state
           /\ record' = [record EXCEPT ![m] = [record[m] EXCEPT !.state = state]]
    <3>1. record' = [record EXCEPT ![m].state =
                        IF @ \in {"online", "online(d)"} THEN @ ELSE "init(rc)"]
      BY <1>7 DEF Provision, Reranged
    <3>2. QED
      BY <3>1 DEF Online
  <2> DEFINE rec == [record[m] EXCEPT !.state = state]
  <2>3. /\ rec.state = state /\ rec.maxCpe = record[m].maxCpe /\ rec.flows = record[m].flows
        /\ rec.access = record[m].access /\ rec.privacy = record[m].privacy
    BY <1>1 DEF RecordsOf
  <2>4. record'[m] = rec /\ \A n \in Macs \ {m} : record'[n] = record[n]
    BY <1>1, <2>2
  <2> HIDE DEF rec
  <2>5. Good(Echo(m, asked[m]), rec, nextSfid) <=> Good(Echo(m, asked[m]), record[m], nextSfid)
    BY <2>3, GoodSettings
  <2>6. state # "init(rc)" => Good(Echo(m, asked[m]), rec, nextSfid)
    BY <1>3, <2>2, <2>5 DEF Right
  <2>7. /\ rec.state \in Online => Good(Echo(m, asked[m]), rec, nextSfid)
        /\ rec.state \notin {"reject(m)", "reject(c)"}
    BY <2>2, <2>3, <2>6 DEF Online
  <2>8. Right(Echo(m, asked[m]), "tftp-config", <<>>, <<>>, rec, nextSfid)
    BY <2>7 DEF Right, Heads
  <2>9. /\ modem'[m] = "tftp-config" /\ down'[m] = <<>> /\ up'[m] = <<>>
        /\ \A n \in Macs \ {m} : modem'[n] = modem[n] /\ down'[n] = down[n] /\ up'[n] = up[n]
    BY <1>0, <2>1 DEF Typed
  <2>10. QED
    BY <1>0, <2>4, <2>8, <2>9, OwnVerdict
<1>8. CASE OnRegRsp(m)
  <2> DEFINE ack == [kind |-> "REG-ACK"]
  <2>1. down[m] # <<>> /\ down' = [down EXCEPT ![m] = Tail(down[m])] /\ UNCHANGED record
    BY <1>8 DEF OnRegRsp
  <2>2. up[m] = <<>> /\ Tail(down[m]) = <<>> /\ modem[m] # "tftp-config"
    <3>1. /\ Tail(down[m]) \in Seq(Responses) /\ Len(Tail(down[m])) = Len(down[m]) - 1
          /\ Len(down[m]) >= 1
      BY <1>2, <2>1, Queues
    <3>2. Len(up[m]) = 0 /\ Len(Tail(down[m])) = 0 /\ modem[m] # "tftp-config"
      <4>1. \A u, d \in Nat : u + d = 0 => ~(d >= 1)
        OBVIOUS
      <4>2. QED
        BY <1>4, <1>5, <3>1, <4>1
    <3>3. QED
      BY <1>2, <3>1, <3>2, EmptySeq
  <2>3. down'[m] = <<>> /\ \A n \in Macs \ {m} : down'[n] = down[n]
    BY <1>0, <2>1, <2>2 DEF Typed
  <2>4. Right(Echo(m, asked[m]), modem[m], <<>>, <<>>, record[m], nextSfid)
    BY <1>3, <2>2 DEF Right, Heads
  <2>5. CASE modem[m] # "registering"
    <3>1. UNCHANGED <<modem, up>>
      BY <1>8, <2>5 DEF OnRegRsp
    <3>2. QED
      BY <1>0, <2>1, <2>2, <2>3, <2>4, <3>1, OwnVerdict
  <2>6. CASE modem[m] = "registering" /\ Head(down[m]) = "OK"
    <3>1. Send(m, ack) /\ modem' = [modem EXCEPT ![m] = "operational"]
      BY <1>8, <2>6 DEF OnRegRsp
    <3>2. /\ up'[m] = <<ack>> /\ modem'[m] = "operational"
          /\ \A n \in Macs \ {m} : up'[n] = up[n] /\ modem'[n] = modem[n]
      BY <1>0, <2>2, <3>1 DEF Typed, Send
    <3>3. Head(<<ack>>).kind = "REG-ACK"
      OBVIOUS
    <3>4. Good(Echo(m, asked[m]), record[m], nextSfid)
      BY <1>3, <2>1, <2>6 DEF Right
    <3> HIDE DEF ack
    <3>5. ~Heads(<<ack>>, "REG-REQ")
      BY <3>3 DEF Heads
    <3>6. Right(Echo(m, asked[m]), "operational", <<ack>>, <<>>, record[m], nextSfid)
      BY <1>3, <3>4, <3>5 DEF Right
    <3>7. QED
      BY <1>0, <2>1, <2>3, <3>2, <3>6, OwnVerdict
  <2>7. CASE modem[m] = "registering" /\ Head(down[m]) # "OK"
    <3>1. UNCHANGED up /\ modem' = [modem EXCEPT ![m] = "rejected"]
      BY <1>8, <2>7 DEF OnRegRsp
    <3>2. modem'[m] = "rejected" /\ \A n \in Macs \ {m} : modem'[n] = modem[n]
      BY <1>0, <3>1 DEF Typed
    <3>3. Right(Echo(m, asked[m]), "rejected", <<>>, <<>>, record[m], nextSfid)
      BY <2>4 DEF Right
    <3>4. QED
      BY <1>0, <2>1, <2>2, <2>3, <3>1, <3>2, <3>3, OwnVerdict
  <2>8. QED
    BY <2>5, <2>6, <2>7
<1>9. CASE T6Expired(m) \/ Reinitialize(m)
  <2>1. UNCHANGED <<up, down, record>> /\ modem' = [modem EXCEPT ![m] = "scanning"]
    BY <1>9 DEF T6Expired, Reinitialize
  <2>2. modem'[m] = "scanning" /\ \A n \in Macs \ {m} : modem'[n] = modem[n]
    BY <1>0, <2>1 DEF Typed
  <2>3. Right(Echo(m, asked[m]), "scanning", up[m], down[m], record[m], nextSfid)
    BY <1>3 DEF Right
  <2>4. QED
    BY <1>0, <2>1, <2>2, <2>3, OwnVerdict
<1>10. QED
  BY <1>6, <1>7, <1>8, <1>9

(* What is lost takes its verdict with it.                                  *)
LEMMA LoseRight ==
    ASSUME RegistrationInv, VerdictInv, NEW m \in Macs, Lose(m)
    PROVE  VerdictInv'
<1>0. /\ UNCHANGED <<file, fileSecret, modem, record, asked, nextSfid>>
      /\ Typed /\ OneMessage /\ nextSfid \in Nat
  BY DEF Lose, RegistrationInv, Typed
<1>1. up[m] \in Seq(Messages) /\ down[m] \in Seq(Responses)
  BY <1>0 DEF Typed
<1>2. Right(Echo(m, asked[m]), modem[m], up[m], down[m], record[m], nextSfid)
  BY DEF VerdictInv, RightOf
<1>3. Len(up[m]) + Len(down[m]) <= 1
  BY <1>0 DEF OneMessage
<1>4. \A u, d \in Nat : u + d <= 1 => (u >= 1 => u - 1 = 0) /\ (d >= 1 => d - 1 = 0)
  OBVIOUS
<1>5. CASE up[m] # <<>> /\ up' = [up EXCEPT ![m] = Tail(@)] /\ UNCHANGED down
  <2>1. Tail(up[m]) = <<>>
    <3>1. /\ Len(up[m]) \in Nat /\ Len(down[m]) \in Nat
          /\ Tail(up[m]) \in Seq(Messages)
          /\ Len(Tail(up[m])) = Len(up[m]) - 1 /\ Len(up[m]) >= 1
      BY <1>1, <1>5, Queues
    <3>2. Len(Tail(up[m])) = 0
      BY <1>3, <1>4, <3>1
    <3>3. QED
      BY <3>1, <3>2, EmptySeq
  <2>2. up'[m] = <<>> /\ \A n \in Macs \ {m} : up'[n] = up[n]
    BY <1>0, <1>5, <2>1 DEF Typed
  <2>3. Right(Echo(m, asked[m]), modem[m], <<>>, down[m], record[m], nextSfid)
    BY <1>2 DEF Right, Heads
  <2>4. QED
    BY <1>0, <1>5, <2>2, <2>3, OwnVerdict
<1>6. CASE down[m] # <<>> /\ down' = [down EXCEPT ![m] = Tail(@)] /\ UNCHANGED up
  <2>1. Tail(down[m]) = <<>>
    <3>1. /\ Len(up[m]) \in Nat /\ Len(down[m]) \in Nat
          /\ Tail(down[m]) \in Seq(Responses)
          /\ Len(Tail(down[m])) = Len(down[m]) - 1 /\ Len(down[m]) >= 1
      BY <1>1, <1>6, Queues
    <3>2. Len(Tail(down[m])) = 0
      BY <1>3, <1>4, <3>1
    <3>3. QED
      BY <3>1, <3>2, EmptySeq
  <2>2. down'[m] = <<>> /\ \A n \in Macs \ {m} : down'[n] = down[n]
    BY <1>0, <1>6, <2>1 DEF Typed
  <2>3. Right(Echo(m, asked[m]), modem[m], up[m], <<>>, record[m], nextSfid)
    BY <1>2 DEF Right
  <2>4. QED
    BY <1>0, <1>6, <2>2, <2>3, OwnVerdict
<1>7. QED
  BY <1>5, <1>6 DEF Lose

LEMMA StepKeepsVerdicts ==
    ASSUME RegistrationInv, VerdictInv, [Next]_vars
    PROVE  VerdictInv'
<1>0. nextSfid \in Nat
  BY DEF RegistrationInv, Typed
<1>1. CASE UNCHANGED vars
  <2>1. ASSUME NEW m \in Macs PROVE RightOf(m)'
    <3>1. RightOf(m)
      BY DEF VerdictInv
    <3>2. Echo(m, asked[m])' = Echo(m, asked[m])
      BY <1>1 DEF vars, Echo, Settings, Capabilities, Served
    <3>3. QED
      BY <1>1, <3>1, <3>2 DEF vars, RightOf, Right
  <2>2. QED
    BY <2>1 DEF VerdictInv
<1>2. ASSUME NEW m \in Macs,
             \/ \E name \in DOMAIN Specs : AddConfigFile(m, name)
             \/ \E damage \in Damageable(file[m].name) : AddRawFile(m, damage)
      PROVE  VerdictInv'
  <2>1. UNCHANGED <<fileSecret, modem, up, down, record, asked, nextSfid>>
    BY <1>2 DEF AddConfigFile, AddRawFile
  <2>2. Right(Echo(m, asked[m]), modem[m], up[m], down[m], record[m], nextSfid)
    BY DEF VerdictInv, RightOf
  <2>3. QED
    BY <1>0, <2>1, <2>2, OwnVerdict
<1>3. ASSUME NEW m \in Macs,
             ProcessConfig(m) \/ Provision(m) \/ OnRegRsp(m) \/ T6Expired(m) \/ Reinitialize(m)
      PROVE  VerdictInv'
  BY <1>3, ModemRight
<1>4. ASSUME NEW m \in Macs, Receive(m) \/ Lose(m) PROVE VerdictInv'
  BY <1>4, ReceiveRight, LoseRight
<1>5. QED
  BY <1>1, <1>2, <1>3, <1>4 DEF Next

LEMMA VerdictsServe ==
    ASSUME VerdictInv
    PROVE  ServedAsRead
<1>1. ASSUME NEW m \in Macs
      PROVE  Right(Echo(m, asked[m]), modem[m], up[m], down[m], record[m], nextSfid)
  BY DEF VerdictInv, RightOf
<1>2. QED
  BY <1>1 DEF ServedAsRead, Right, Good, Refused, Verified, Admission

(* The record and the last file the CMTS was asked with agree, whatever is  *)
(* lost, damaged or compiled anew on the way: a modem in service has what   *)
(* was read in a file that verified, and only that; a refused one has a     *)
(* cause, and if its flows were the cause, the refused file's access, CPEs  *)
(* and privacy (_handle_reg_req, _handle_reg_ack, _on_reg_rsp).             *)
THEOREM ServedAsReadCorrect == Spec => []ServedAsRead
<1>1. VerdictInv => ServedAsRead
  BY VerdictsServe
<1>2. QED
  BY <1>1, InitInv, VerdictInit, StepKeepsInv, StepKeepsVerdicts, PTL DEF Spec
=============================================================================
