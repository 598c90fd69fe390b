---------------------------- MODULE Registration ----------------------------
(***************************************************************************)
(* The configuration file, from the readable specification it is compiled  *)
(* from to the service flows the CMTS admits: docsis/cfgfile.py on both    *)
(* sides, the modem's check of the file it downloaded and its REG-REQ      *)
(* (cm/cm.py), the CMTS's check and admission (cmts/cmts.py).              *)
(*                                                                         *)
(* A file is a sequence of settings; the variables hold what it was        *)
(* compiled from and what has become of it since.  A digest is what went   *)
(* into it, so two are equal exactly if that is.  Ranging, DHCP and TFTP   *)
(* come before: the state is "tftp-config" until the modem has a file.     *)
(***************************************************************************)
EXTENDS Integers, SequencesExt

CONSTANTS
    Macs,               \* the modems
    Is20,               \* which of them are DOCSIS 2.0
    Specs,              \* by name: the specifications files are compiled from
    ConfigFile,         \* by modem: the name it starts with (lab/topology.py)
    FileSecrets,        \* shared secrets the provisioning server may have
    Secret,             \* the CMTS's
    MaxAdmitted,        \* the CMTS's limit for a flow, by direction
    Byte, Word, Long,   \* the numbers a u8, a u16 and a u32 can hold: 2^8, ...
    MaxEdits,           \* bound: files compiled anew, or damaged
    MaxFaults           \* bound: messages lost, modems re-initialised

ASSUME RegistrationAssumption ==
    /\ Is20 \in [Macs -> BOOLEAN]
    /\ ConfigFile \in [Macs -> DOMAIN Specs]
    /\ MaxAdmitted \in [{"us", "ds"} -> Nat] /\ {Byte, Word, Long} \subseteq Nat \ {0}
    /\ {MaxEdits, MaxFaults} \subseteq Nat

VARIABLES
    file,               \* by modem: the configuration file it will be given
    fileSecret,         \* the secret it is compiled with
    modem,              \* by modem: the state it is in
    up, down,           \* by modem: messages on their way
    record,             \* by modem: the CMTS's record
    asked,              \* history: the file of the last REG-REQ answered
    nextSfid,           \* _next_sfid
    edits, faults

vars == <<file, fileSecret, modem, up, down, record, asked, nextSfid, edits, faults>>

-----------------------------------------------------------------------------
(* Settings.  A value is a sequence: of one number, of sub-settings, or     *)
(* what a digest was made of.                                               *)
Setting(type, value) == [type |-> type, value |-> value]
U(type, number) == Setting(type, <<number>>)

Of(settings, types) == SelectSeq(settings, LAMBDA t : t.type \in types)
Without(settings, types) == SelectSeq(settings, LAMBDA t : t.type \notin types)
Has(settings, type) == \E i \in DOMAIN settings : settings[i].type = type
Find(settings, type) == Of(settings, {type})[1].value
IntOr(settings, type, default) ==
    IF Has(settings, type) THEN Find(settings, type)[1] ELSE default

(* A number that a specification gives, <<n>>, or leaves out, <<>>, in a    *)
(* field that holds width numbers: what is beyond the field is cut off.     *)
Given(type, given, width) == [i \in DOMAIN given |-> U(type, given[i] % width)]

(* A specification, compiled in the order of build().                       *)
FlowSetting(type, flow) ==
    Setting(type, <<U("REFERENCE", flow.ref % Word)>>
                  \o Given("PRIORITY", flow.priority, Byte)
                  \o Given("MAX_RATE", flow.rate, Long))

Flows(type, flows) == [i \in DOMAIN flows |-> FlowSetting(type, flows[i])]
Extra(spec, type) == IF type \in spec.extra THEN <<U(type, 1)>> ELSE <<>>

Build(spec) ==
    Extra(spec, "DOWNSTREAM_FREQUENCY")
    \o Given("UPSTREAM_CHANNEL_ID", spec.channel, Byte)
    \o <<U("NETWORK_ACCESS_CONTROL", IF spec.access THEN 1 ELSE 0)>>
    \o Extra(spec, "CLASS_OF_SERVICE")
    \o Flows("UPSTREAM_SERVICE_FLOW", spec.us)
    \o Flows("DOWNSTREAM_SERVICE_FLOW", spec.ds)
    \o Given("MAX_CPE", spec.maxCpe, Byte)
    \o Given("MAX_CLASSIFIERS", spec.classifiers, Word)
    \o <<U("PRIVACY_ENABLE", IF spec.privacy THEN 1 ELSE 0)>>
    \o Extra(spec, "SNMP_WRITE_ACCESS")
    \o Extra(spec, "VENDOR_SPECIFIC")

(* The digest of the modem's check: all settings, in the file's order.      *)
Mics == {"CM_MIC", "CMTS_MIC"}
CmMic(settings) == Without(settings, Mics \union {"PAD", "END_OF_DATA"})

(* The digest of the CMTS's: in an order of their own, and with the secret. *)
CmtsMicOrder ==
    <<"DOWNSTREAM_FREQUENCY", "UPSTREAM_CHANNEL_ID", "NETWORK_ACCESS_CONTROL", "CLASS_OF_SERVICE",
      "VENDOR_SPECIFIC", "CM_MIC", "MAX_CPE", "UPSTREAM_SERVICE_FLOW",
      "DOWNSTREAM_SERVICE_FLOW", "MAX_CLASSIFIERS", "PRIVACY_ENABLE">>

CmtsMic(settings, secret, cmMic) ==
    LET all == Without(settings, {"CM_MIC"}) \o <<Setting("CM_MIC", cmMic)>>
    IN  <<FlattenSeq([i \in DOMAIN CmtsMicOrder |-> Of(all, {CmtsMicOrder[i]})]), secret>>

Encode(settings, secret) ==
    settings
    \o <<Setting("CM_MIC", CmMic(settings)),
         Setting("CMTS_MIC", CmtsMic(settings, secret, CmMic(settings))),
         Setting("END_OF_DATA", <<>>), Setting("PAD", <<>>)>>

(* Padding is skipped, and the rest comes back as it is.                    *)
Decode(blob) == Without(blob, {"PAD"})

\* Mutant of Core: the capabilities are part of what is checked.
CoreWhole(settings) == Without(settings, Mics \union {"END_OF_DATA"})

(* What the digests are checked over.                                       *)
Core(settings) ==
    Without(settings, Mics \union {"END_OF_DATA", "MODEM_CAPABILITIES"})

CmMicOk(settings) ==
    Has(settings, "CM_MIC") /\ Find(settings, "CM_MIC") = CmMic(Core(settings))
CmtsMicOk(settings, secret) ==
    /\ Has(settings, "CMTS_MIC") /\ Has(settings, "CM_MIC")
    /\ Find(settings, "CMTS_MIC") =
           CmtsMic(Core(settings), secret, Find(settings, "CM_MIC"))
Verify(settings, secret) == CmMicOk(settings) /\ CmtsMicOk(settings, secret)

-----------------------------------------------------------------------------
(* What may become of a file that is served as it is: it loses its digests, *)
(* its end, a setting or a part of one, or two settings change places.      *)
Intact == [kind |-> "intact", at |-> 0]
Damages(blob) ==
    {Intact} \union [kind : {"cut", "lost", "swapped"}, at : 1..(Len(blob) - 1)]
        \union [kind : {"shortened"}, at : {i \in DOMAIN blob : blob[i].value # <<>>}]

Damaged(blob, damage) ==
    LET i == damage.at
    IN  CASE damage.kind = "intact" -> blob
          [] damage.kind = "cut" -> SubSeq(blob, 1, i)
          [] damage.kind = "lost" -> RemoveAt(blob, i)
          [] damage.kind = "swapped" -> [blob EXCEPT ![i] = blob[i + 1], ![i + 1] = blob[i]]
          [] damage.kind = "shortened" -> [blob EXCEPT ![i].value = Front(@)]

(* All files there can be, by secret, by name and by what became of them:   *)
(* a table of values, where TLC would work a function out at every use.     *)
Table(f) == f @@ <<>>
Served ==
    Table([secret \in FileSecrets |->
        Table([name \in DOMAIN Specs |->
            LET blob == Encode(Build(Specs[name]), secret)
            IN  Table([damage \in Damages(blob) |-> Damaged(blob, damage)])])])

Settings(f) == Served[fileSecret][f.name][f.damage]
Whole(name) == [name |-> name, damage |-> Intact]
Damageable(name) == Damages(Settings(Whole(name)))

NoRecord == [state |-> "init(rc)", access |-> TRUE, maxCpe |-> 1, privacy |-> FALSE,
             advPhy |-> FALSE, flows |-> <<>>]

Init ==
    /\ fileSecret \in FileSecrets
    /\ file = [m \in Macs |-> Whole(ConfigFile[m])]
    /\ modem = [m \in Macs |-> "tftp-config"]
    /\ up = [m \in Macs |-> <<>>] /\ down = [m \in Macs |-> <<>>]
    /\ record = [m \in Macs |-> NoRecord]
    /\ asked = file
    /\ nextSfid = 1
    /\ edits = 0 /\ faults = 0

Edit == edits < MaxEdits /\ edits' = edits + 1
Fault == faults < MaxFaults /\ faults' = faults + 1

(* The operator compiles another file under the name, ...                   *)
AddConfigFile(m, name) ==
    /\ Edit
    /\ file' = [file EXCEPT ![m] = Whole(name)]
    /\ UNCHANGED <<fileSecret, modem, up, down, record, asked, nextSfid, faults>>

(* ... or serves a damaged one.                                             *)
AddRawFile(m, damage) ==
    /\ Edit
    /\ file' = [file EXCEPT ![m].damage = damage]
    /\ UNCHANGED <<fileSecret, modem, up, down, record, asked, nextSfid, faults>>

-----------------------------------------------------------------------------
(* The modem.                                                               *)
Capabilities(m) ==
    Setting("MODEM_CAPABILITIES", <<U("DOCSIS_VERSION", IF Is20[m] THEN 2 ELSE 1)>>)

(* The settings of the REG-REQ of modem m for file f.                       *)
Echo(m, f) ==
    Without(Decode(Settings(f)), {"PAD", "END_OF_DATA"}) \o <<Capabilities(m)>>

Send(m, msg) == up' = [up EXCEPT ![m] = Append(@, msg)]

(* A file that fails its check starts the modem over; any other one is      *)
(* echoed to the CMTS, with the capabilities.                               *)
ProcessConfig(m) ==
    /\ modem[m] = "tftp-config"
    /\ IF CmMicOk(Decode(Settings(file[m])))
       THEN /\ modem' = [modem EXCEPT ![m] = "registering"]
            /\ Send(m, [kind |-> "REG-REQ", file |-> file[m]])
       ELSE modem' = [modem EXCEPT ![m] = "scanning"] /\ UNCHANGED up
    /\ UNCHANGED <<file, fileSecret, down, record, asked, nextSfid, edits, faults>>

(* The modem is deaf while it scans, for longer than anything is under way; *)
(* it ranges, and a record that was not online is at init(rc) again.        *)
Reranged(m) ==
    record' = [record EXCEPT ![m].state =
                  IF @ \in {"online", "online(d)"} THEN @ ELSE "init(rc)"]

Provision(m) ==
    /\ modem[m] = "scanning"
    /\ up[m] = <<>>
    /\ modem' = [modem EXCEPT ![m] = "tftp-config"]
    /\ down' = [down EXCEPT ![m] = <<>>]
    /\ Reranged(m)
    /\ UNCHANGED <<file, fileSecret, up, asked, nextSfid, edits, faults>>

\* Mutant of T6Expired: T6 is stopped when the REG-REQ leaves.
T6ExpiredQueued(m) == FALSE

(* The REG-REQ or its answer was lost.                                      *)
T6Expired(m) ==
    /\ modem[m] = "registering"
    /\ up[m] = <<>> /\ down[m] = <<>>
    /\ modem' = [modem EXCEPT ![m] = "scanning"]
    /\ UNCHANGED <<file, fileSecret, up, down, record, asked, nextSfid, edits, faults>>

(* An operator's, or another timer's.                                       *)
Reinitialize(m) ==
    /\ modem[m] \notin {"scanning", "tftp-config"}
    /\ Fault
    /\ modem' = [modem EXCEPT ![m] = "scanning"]
    /\ UNCHANGED <<file, fileSecret, up, down, record, asked, nextSfid, edits>>

\* Mutant of OnRegRsp: the response code is not looked at.
OnRegRspAny(m) ==
    /\ down[m] # <<>>
    /\ down' = [down EXCEPT ![m] = Tail(@)]
    /\ IF modem[m] # "registering" THEN UNCHANGED <<modem, up>>
       ELSE Send(m, [kind |-> "REG-ACK"]) /\ modem' = [modem EXCEPT ![m] = "operational"]
    /\ UNCHANGED <<file, fileSecret, record, asked, nextSfid, edits, faults>>

(* The REG-ACK puts the modem in service as it leaves.                      *)
OnRegRsp(m) ==
    /\ down[m] # <<>>
    /\ down' = [down EXCEPT ![m] = Tail(@)]
    /\ IF modem[m] # "registering" THEN UNCHANGED <<modem, up>>
       ELSE IF Head(down[m]) = "OK"
       THEN Send(m, [kind |-> "REG-ACK"]) /\ modem' = [modem EXCEPT ![m] = "operational"]
       ELSE modem' = [modem EXCEPT ![m] = "rejected"] /\ UNCHANGED up
    /\ UNCHANGED <<file, fileSecret, record, asked, nextSfid, edits, faults>>

-----------------------------------------------------------------------------
(* The CMTS.                                                                *)
Direction == [UPSTREAM_SERVICE_FLOW |-> "us", DOWNSTREAM_SERVICE_FLOW |-> "ds"]
First(flows, direction) == \A i \in DOMAIN flows : flows[i].direction # direction

(* One service flow of the file: within the limit it gets an SFID, and is   *)
(* the primary one if it is the first of its direction; a flow beyond the   *)
(* limit refuses all of the file.                                           *)
AdmitFlow(admission, t) ==
    LET direction == Direction[t.type]
        rate      == IntOr(t.value, "MAX_RATE", 0)
    IN  IF admission.refused \/ rate > MaxAdmitted[direction]
        THEN [admission EXCEPT !.refused = TRUE]
        ELSE [admission EXCEPT
                 !.next = @ + 1,
                 !.flows = Append(@, [sfid |-> admission.next, direction |-> direction,
                                      rate |-> rate, priority |-> IntOr(t.value, "PRIORITY", 0),
                                      primary |-> First(@, direction)])]

(* One after the other, SFIDs counted from sfid on.                         *)
AdmitFlows(flows, sfid) ==
    LET admission[n \in 0 .. Len(flows)] ==
            IF n = 0 THEN [refused |-> FALSE, next |-> sfid, flows |-> <<>>]
            ELSE AdmitFlow(admission[n - 1], flows[n])
    IN  admission[Len(flows)]

FlowsOf(settings) == Of(settings, DOMAIN Direction)

\* Mutant of AdmitServiceFlows: SFIDs are counted for each modem.
AdmitServiceFlowsFromOne(settings) == AdmitFlows(FlowsOf(settings), 1)

AdmitServiceFlows(settings) == AdmitFlows(FlowsOf(settings), nextSfid)

(* What a record takes over from the other settings.                        *)
Access(settings) == IntOr(settings, "NETWORK_ACCESS_CONTROL", 0) # 0
Cpes(settings) == IntOr(settings, "MAX_CPE", 1)
Privacy(settings) == IntOr(settings, "PRIVACY_ENABLE", 0) # 0

Respond(m, response) == down' = [down EXCEPT ![m] = Append(@, response)]

(* The capabilities count whatever comes of the request; access, CPEs and   *)
(* privacy once the digests verify; the flows if all of them are admitted.  *)
HandleRegReq(m, msg) ==
    LET settings  == Echo(m, msg.file)
        capable   == [record[m] EXCEPT !.advPhy =
                         Find(Find(settings, "MODEM_CAPABILITIES"), "DOCSIS_VERSION")[1] >= 2]
        verified  == [capable EXCEPT
                         !.access = Access(settings), !.maxCpe = Cpes(settings),
                         !.privacy = Privacy(settings)]
        admission == AdmitServiceFlows(settings)
        Becomes(rec) == record' = [record EXCEPT ![m] = rec]
    IN  /\ asked' = [asked EXCEPT ![m] = msg.file]
        /\ IF ~Verify(settings, Secret)
           THEN /\ Becomes([capable EXCEPT !.state = "reject(m)"])
                /\ Respond(m, "AUTH_FAILURE") /\ UNCHANGED nextSfid
           ELSE /\ nextSfid' = admission.next
                /\ IF admission.refused
                   THEN /\ Becomes([verified EXCEPT !.state = "reject(c)"])
                        /\ Respond(m, "CLASS_OF_SERVICE_FAILURE")
                   ELSE /\ Becomes([verified EXCEPT !.flows = admission.flows])
                        /\ Respond(m, "OK")

HandleRegAck(m) ==
    /\ record' = [record EXCEPT ![m].state =
                     IF record[m].access THEN "online" ELSE "online(d)"]
    /\ UNCHANGED <<down, asked, nextSfid>>

Receive(m) ==
    /\ up[m] # <<>>
    /\ up' = [up EXCEPT ![m] = Tail(@)]
    /\ IF Head(up[m]).kind = "REG-REQ" THEN HandleRegReq(m, Head(up[m])) ELSE HandleRegAck(m)
    /\ UNCHANGED <<file, fileSecret, modem, edits, faults>>

Lose(m) ==
    /\ Fault
    /\ \/ up[m] # <<>> /\ up' = [up EXCEPT ![m] = Tail(@)] /\ UNCHANGED down
       \/ down[m] # <<>> /\ down' = [down EXCEPT ![m] = Tail(@)] /\ UNCHANGED up
    /\ UNCHANGED <<file, fileSecret, modem, record, asked, nextSfid, edits>>

Next ==
    \E m \in Macs :
        \/ \E name \in DOMAIN Specs : AddConfigFile(m, name)
        \/ \E damage \in Damageable(file[m].name) : AddRawFile(m, damage)
        \/ ProcessConfig(m) \/ Provision(m) \/ OnRegRsp(m)
        \/ T6Expired(m) \/ Reinitialize(m)
        \/ Receive(m) \/ Lose(m)

(* Frames get their turn, and timers that are waited for expire.            *)
Fairness ==
    \A m \in Macs :
        /\ WF_vars(ProcessConfig(m)) /\ WF_vars(Provision(m)) /\ WF_vars(OnRegRsp(m))
        /\ WF_vars(T6Expired(m)) /\ WF_vars(Receive(m))

Spec == Init /\ [][Next]_vars
FairSpec == Spec /\ Fairness

-----------------------------------------------------------------------------
RecordStates == {"init(rc)", "reject(m)", "reject(c)", "online", "online(d)"}

(* Every attribute keeps its type, and a modem has one REG-REQ under way.   *)
TypeOK ==
    /\ fileSecret \in FileSecrets
    /\ \A m \in Macs : \A f \in {file[m], asked[m]} :
           f.name \in DOMAIN Specs /\ f.damage \in Damageable(f.name)
    /\ modem \in [Macs -> {"tftp-config", "registering", "operational", "rejected", "scanning"}]
    /\ \A m \in Macs :
           /\ Len(up[m]) <= 1 /\ Len(down[m]) <= 1
           /\ record[m].state \in RecordStates
           /\ {record[m].access, record[m].privacy, record[m].advPhy} \subseteq BOOLEAN
           /\ \A i \in DOMAIN record[m].flows : record[m].flows[i].sfid \in 1..(nextSfid - 1)

(* What a specification says, once its numbers are in their fields: its     *)
(* flows, upstream first, the first of each direction the primary one.      *)
(* That is what its author meant, except for a number that does not fit.    *)
Said(given, default, width) == IF given = <<>> THEN default ELSE given[1] % width
SaidFlows(direction, flows) ==
    [i \in DOMAIN flows |->
        [direction |-> direction, rate |-> Said(flows[i].rate, 0, Long),
         priority |-> Said(flows[i].priority, 0, Byte), primary |-> i = 1]]
AllFlows(spec) == SaidFlows("us", spec.us) \o SaidFlows("ds", spec.ds)
Admissible(spec) ==
    LET flows == AllFlows(spec)
    IN  \A i \in DOMAIN flows : flows[i].rate <= MaxAdmitted[flows[i].direction]

(* The file was compiled with the CMTS's secret, and has its settings and   *)
(* its digests as they were compiled; where the digests stand is no matter. *)
Genuine(f) ==
    LET got == Settings(f)
        built == Settings(Whole(f.name))
    IN  /\ fileSecret = Secret
        /\ Core(Decode(got)) = Core(Decode(built))
        /\ \A type \in Mics : Of(got, {type}) = Of(built, {type})

Says(spec, rec) ==
    LET flows == AllFlows(spec)
    IN  /\ Len(rec.flows) = Len(flows)
        /\ \A i \in DOMAIN flows : \A f \in DOMAIN flows[i] : rec.flows[i][f] = flows[i][f]
        /\ rec.access = spec.access /\ rec.privacy = spec.privacy
        /\ rec.maxCpe = Said(spec.maxCpe, 1, Byte)

Online == {"online", "online(d)"}

(* A modem in service has all that the specification of its file says, and  *)
(* that file was genuine: not damaged, not compiled for another CMTS, not   *)
(* partly refused (_handle_reg_req, _admit_service_flows).                  *)
AdmittedAsBuilt ==
    \A m \in Macs : record[m].state \in Online =>
        LET spec == Specs[asked[m].name]
        IN  Genuine(asked[m]) /\ Admissible(spec) /\ Says(spec, record[m])

(* ... and the other way round: what the server compiles, the modem echoes  *)
(* and the CMTS digests in another order and without the capabilities comes *)
(* out the same, so a genuine file is refused for its rates only.           *)
RefusedForCause ==
    \A m \in Macs :
        /\ record[m].state = "reject(m)" => ~Genuine(asked[m])
        /\ record[m].state = "reject(c)" => Genuine(asked[m]) /\ ~Admissible(Specs[asked[m].name])

(* What the CMTS reads in a REG-REQ is right: its digests verify exactly if *)
(* the file is genuine, and then what is read is what its author wrote.     *)
ReadRight(m, f) ==
    LET settings  == Echo(m, f)
        admission == AdmitServiceFlows(settings)
        read      == [access |-> Access(settings), maxCpe |-> Cpes(settings),
                      privacy |-> Privacy(settings), flows |-> admission.flows]
    IN  /\ Verify(settings, Secret) <=> Genuine(f)
        /\ Genuine(f) => /\ admission.refused <=> ~Admissible(Specs[f.name])
                         /\ ~admission.refused => Says(Specs[f.name], read)

Heads(queue, kind) == queue # <<>> /\ Head(queue).kind = kind
RequestsRead == \A m \in Macs : Heads(up[m], "REG-REQ") => ReadRight(m, Head(up[m]).file)

(* The CMTS's verdict is right both ways, on every file and on every modem. *)
VerdictsRight == RequestsRead /\ AdmittedAsBuilt /\ RefusedForCause

ReadAs(rec, settings) ==
    /\ rec.access = Access(settings) /\ rec.maxCpe = Cpes(settings)
    /\ rec.privacy = Privacy(settings)

(* The record and the last file it was asked with agree, whatever was lost, *)
(* started over or compiled anew since.  A modem in service has what was    *)
(* read in a file that verified, all its flows with it.  A refused one has  *)
(* a cause; one refused for its flows has the access, the CPEs and the      *)
(* privacy of the refused file all the same (_handle_reg_req).              *)
ServedAsRead ==
    \A m \in Macs :
        LET settings == Echo(m, asked[m])
            Admission(sfid) == AdmitFlows(FlowsOf(settings), sfid)
        IN  /\ record[m].state \in Online =>
                   /\ Verify(settings, Secret) /\ ReadAs(record[m], settings)
                   /\ \E sfid \in 1..nextSfid :
                          ~Admission(sfid).refused /\ record[m].flows = Admission(sfid).flows
            /\ record[m].state = "reject(m)" => ~Verify(settings, Secret)
            /\ record[m].state = "reject(c)" =>
                   /\ Verify(settings, Secret) /\ ReadAs(record[m], settings)
                   /\ \E sfid \in 1..nextSfid : Admission(sfid).refused

(* No two service flows at the CMTS have the same SFID, though files are    *)
(* refused half-way and modems register again (allocate_sfid).              *)
Sfids(m) == {record[m].flows[i].sfid : i \in DOMAIN record[m].flows}
SfidsUnique ==
    \A m, n \in Macs :
        /\ \A i, j \in DOMAIN record[m].flows :
               i # j => record[m].flows[i].sfid # record[m].flows[j].sfid
        /\ m # n => Sfids(m) \intersect Sfids(n) = {}

(* Records and their service flows can be told apart by their identifiers.  *)
FlowsIdentified == TypeOK /\ SfidsUnique

(* A modem ends in service or rejected, whatever was lost on the way, or it *)
(* starts over for ever because its file fails the check (_process_config). *)
Settles ==
    \A m \in Macs :
        \/ <>[](modem[m] \in {"operational", "rejected"})
        \/ <>[](~CmMicOk(Decode(Settings(file[m]))))
=============================================================================
