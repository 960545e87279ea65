------------------------- MODULE StationParts_proofs -------------------------
(***************************************************************************)
(* Proofs about five components that share no state: Certificates,         *)
(* DeviceModel, Authorization, CsmsInbound and StationLink, each for every *)
(* value of its constants.  Every part has the same layout: the inductive  *)
(* invariant, its initial and its step case, and the theorems.             *)
(***************************************************************************)
EXTENDS Authorization, Certificates, DeviceModel, CsmsInbound, StationLink, SequenceTheorems,
        FiniteSetTheorems, WellFoundedInduction, TLAPS

(* Certificates: a request is with its signer, in the slot, credited or displaced. *)

CertTypes ==
    /\ signing \in [Signers -> [at : {"idle", "calling", "accepted", "drawn"},
                                type : CsrTypes \cup {"nothing"}, seq : 0..MaxCsrs]]
    /\ nextSeq \in 1..(MaxCsrs + 1)
    /\ pending \in [type : CsrTypes \cup {"nothing"}, seq : 0..MaxCsrs]
    /\ credited \subseteq (0..MaxCsrs) \X (1..MaxCsrs)
    /\ displaced \subseteq 1..MaxCsrs

\* Numbers that are done with were drawn.
DoneInv == (\A d \in credited : d[2] < nextSeq) /\ \A k \in displaced : k < nextSeq

\* A number with its signer, or in the slot, is there alone and not done with.
DrawnInv ==
    \A s \in Signers : signing[s].at = "drawn" =>
        /\ signing[s].seq # 0 /\ signing[s].seq < nextSeq /\ signing[s].seq # pending.seq
        /\ \A r \in Signers : r # s /\ signing[r].at = "drawn" => signing[r].seq # signing[s].seq
        /\ \A d \in credited : d[2] # signing[s].seq
        /\ signing[s].seq \notin displaced
MarkerInv ==
    pending # NoMarker =>
        /\ pending.seq # 0 /\ pending.seq < nextSeq
        /\ \A d \in credited : d[2] # pending.seq
        /\ pending.seq \notin displaced

\* No number is lost.
KeptInv ==
    \A k \in 1..(nextSeq - 1) : Drawn(k) \/ pending.seq = k \/ Credited(k) \/ k \in displaced

CertInv == CertTypes /\ DoneInv /\ DrawnInv /\ MarkerInv /\ KeptInv

\* The initial state: no marker, no number drawn.
LEMMA CertInitInv == CertInit => CertInv
  BY CertAssumption DEF CertInit, CertInv, CertTypes, DoneInv, DrawnInv, MarkerInv, KeptInv,
     Drawn, Credited, NoSigning, NoMarker

\* Every step of the certificate handlers and of the signers preserves CertInv.
LEMMA CertStepInv == CertInv /\ [CertNext]_certVars => CertInv'
  <1> SUFFICES ASSUME CertInv, [CertNext]_certVars PROVE CertInv'
    OBVIOUS
  <1> USE CertAssumption DEF CertInv, CertTypes, NoSigning, NoMarker
  <1>1. CASE UNCHANGED <<signing, nextSeq, pending, credited, displaced>>
    BY <1>1 DEF DoneInv, DrawnInv, MarkerInv, KeptInv, Drawn, Credited
  <1>2. ASSUME NEW s \in Signers, signing[s].at # "drawn", signing'[s].at # "drawn", CertTypes',
               \A r \in Signers : r # s => signing'[r] = signing[r],
               UNCHANGED <<nextSeq, pending, credited, displaced>>
        PROVE  CertInv'
    BY <1>2 DEF DoneInv, DrawnInv, MarkerInv, KeptInv, Drawn, Credited
  <1>3. ASSUME NEW s \in Signers, NEW type \in CsrTypes, SignCertificate(s, type) PROVE CertInv'
    BY <1>2, <1>3 DEF SignCertificate
  <1>4. ASSUME NEW s \in Signers, SignRefused(s) \/ SignAccepted(s) PROVE CertInv'
    BY <1>2, <1>4 DEF SignRefused, SignAccepted
  <1>5. ASSUME NEW s \in Signers, DrawSeq(s) PROVE CertInv'
    <2>1. /\ signing'[s].at = "drawn" /\ signing'[s].seq = nextSeq /\ signing[s].at = "accepted"
          /\ \A r \in Signers : r # s => signing'[r] = signing[r]
          /\ nextSeq' = nextSeq + 1 /\ UNCHANGED <<pending, credited, displaced>>
      BY <1>5 DEF DrawSeq
    <2>2. CertTypes'
      BY <1>5 DEF DrawSeq
    <2>3. DoneInv' /\ MarkerInv'
      BY <2>1 DEF DoneInv, MarkerInv
    <2>4. DrawnInv'
      BY <2>1 DEF DoneInv, DrawnInv, MarkerInv
    <2>5. KeptInv'
      BY <2>1 DEF KeptInv, Drawn, Credited
    <2>6. QED
      BY <2>2, <2>3, <2>4, <2>5
  <1>6. ASSUME NEW s \in Signers, Record(s) PROVE CertInv'
    <2>1. /\ signing[s].at = "drawn" /\ signing'[s].at = "idle" /\ pending'.seq = signing[s].seq
          /\ \A r \in Signers : r # s => signing'[r] = signing[r]
          /\ UNCHANGED <<nextSeq, credited>>
      BY <1>6 DEF Record
    <2>2. displaced' = displaced \cup (IF pending.seq = 0 THEN {} ELSE {pending.seq})
      BY <1>6 DEF Record, MarkerInv
    <2>3. CertTypes'
      <3>1. signing' \in [Signers -> [at : {"idle", "calling", "accepted", "drawn"},
                                      type : CsrTypes \cup {"nothing"}, seq : 0..MaxCsrs]]
        BY <1>6 DEF Record
      <3>2. pending' \in [type : CsrTypes \cup {"nothing"}, seq : 0..MaxCsrs]
        BY <1>6 DEF Record
      <3>3. pending.seq \in 0..MaxCsrs /\ displaced \subseteq 1..MaxCsrs
        OBVIOUS
      <3>4. displaced' \subseteq 1..MaxCsrs
        <4>1. \A k : k \in displaced' => k \in displaced \/ (k = pending.seq /\ pending.seq # 0)
          BY <2>2
        <4>2. pending.seq # 0 => pending.seq \in 1..MaxCsrs
          BY <3>3
        <4>3. ASSUME NEW k \in displaced' PROVE k \in 1..MaxCsrs
          <5>1. CASE k \in displaced
            BY <3>3, <5>1
          <5>2. CASE k = pending.seq /\ pending.seq # 0
            BY <4>2, <5>2
          <5>3. QED
            BY <4>1, <4>3, <5>1, <5>2
        <4>4. QED
          BY <4>3
      <3>5. QED
        BY <2>1, <3>1, <3>2, <3>4
    <2>4. \A k : k \in displaced' <=> k \in displaced \/ (k = pending.seq /\ pending.seq # 0)
      BY <2>2
    <2>5. pending.seq # 0 => pending # NoMarker
      OBVIOUS
    <2>6. DoneInv'
      BY <2>1, <2>4, <2>5 DEF DoneInv, MarkerInv
    <2>7. DrawnInv'
      BY <2>1, <2>4 DEF DrawnInv
    <2>8. MarkerInv'
      BY <2>1, <2>4 DEF DrawnInv, MarkerInv
    <2>9. KeptInv'
      <3> SUFFICES ASSUME NEW k \in 1..(nextSeq - 1),
                          \A r \in Signers : signing'[r].at = "drawn" => signing'[r].seq # k,
                          pending'.seq # k, \A d \in credited : d[2] # k
                   PROVE  k \in displaced'
        BY <2>1 DEF KeptInv, Drawn, Credited
      <3>1. \A r \in Signers : signing[r].at = "drawn" => signing[r].seq # k
        BY <2>1
      <3>2. k # 0 /\ (pending.seq = k \/ k \in displaced)
        BY <3>1 DEF KeptInv, Drawn, Credited
      <3>3. QED
        BY <2>4, <3>2
    <2>10. QED
      BY <2>3, <2>6, <2>7, <2>8, <2>9
  <1>7. ASSUME NEW pem \in Pems \cup BadPems, NEW k \in 0..MaxCsrs, CertificateSigned(pem, k)
        PROVE  CertInv'
    <2>1. CASE pending = NoMarker \/ ~ChainUsable(pem)
      BY <1>1, <1>7, <2>1 DEF CertificateSigned, TakenMarker
    <2>2. CASE pending # NoMarker /\ ChainUsable(pem)
      <3>1. /\ pending' = NoMarker /\ credited' = credited \cup {<<k, pending.seq>>}
            /\ UNCHANGED <<signing, nextSeq, displaced>>
        BY <1>7, <2>2 DEF CertificateSigned, TakenMarker
      <3>2. CertTypes'
        BY <2>2, <3>1 DEF MarkerInv
      <3>3. \A d : d \in credited' <=> d \in credited \/ d = <<k, pending.seq>>
        BY <3>1
      <3>4. DoneInv' /\ MarkerInv'
        BY <2>2, <3>1, <3>3 DEF DoneInv, MarkerInv
      <3>5. DrawnInv'
        BY <2>2, <3>1, <3>3 DEF DrawnInv
      <3>6. KeptInv'
        <4> SUFFICES ASSUME NEW j \in 1..(nextSeq - 1),
                            \A r \in Signers : signing[r].at = "drawn" => signing[r].seq # j,
                            j \notin displaced
                     PROVE  \E d \in credited' : d[2] = j
          BY <3>1 DEF KeptInv, Drawn, Credited
        <4>1. pending.seq = j \/ \E d \in credited : d[2] = j
          BY DEF KeptInv, Drawn, Credited
        <4>2. CASE pending.seq = j
          <5>1. <<k, pending.seq>> \in credited' /\ <<k, pending.seq>>[2] = j
            BY <3>3, <4>2
          <5>2. QED
            BY <5>1, Zenon
        <4>3. CASE \E d \in credited : d[2] = j
          BY <3>3, <4>3
        <4>4. QED
          BY <4>1, <4>2, <4>3
      <3>7. QED
        BY <3>2, <3>4, <3>5, <3>6
    <2>3. QED
      BY <2>1, <2>2
  <1>8. QED
    BY <1>1, <1>3, <1>4, <1>5, <1>6, <1>7
       DEF CertNext, certVars, InstallCertificate, GetInstalledCertificateIds, DeleteCertificate

\* Only certificates that are armoured and have a body are installed, and numbers
\* stay within their bound.
THEOREM CertTypeCorrect == CertSpec => []CertTypeOK
  <1> DEFINE Slots == certs \in [Uses -> Pems \cup {NoPem}]
  <1>1. CertInit => Slots
    BY DEF CertInit
  <1>2. Slots /\ [CertNext]_certVars => Slots'
    <2> SUFFICES ASSUME Slots, [CertNext]_certVars PROVE Slots'
      OBVIOUS
    <2>1. ASSUME NEW u \in Uses, NEW pem \in Pems \cup BadPems, InstallCertificate(u, pem)
          PROVE  Slots'
      <3>1. InstallStatus(pem) = "Accepted" => pem \in Pems
        BY DEF InstallStatus, BadPems
      <3> QED BY <2>1, <3>1 DEF InstallCertificate
    <2>2. ASSUME NEW hash \in listing, DeleteCertificate(hash) PROVE Slots'
      BY <2>2 DEF DeleteCertificate, DeleteTarget
    <2>3. CASE UNCHANGED certs
      BY <2>3
    <2> QED BY <2>1, <2>2, <2>3
            DEF CertNext, certVars, GetInstalledCertificateIds, SignCertificate, SignRefused,
                SignAccepted, DrawSeq, Record, CertificateSigned
  <1>3. Slots /\ CertInv => CertTypeOK
    BY DEF CertInv, CertTypes, CertTypeOK
  <1> HIDE DEF Slots
  <1> QED BY <1>1, <1>2, <1>3, CertInitInv, CertStepInv, PTL DEF CertSpec

\* However many tasks sign at once, and in whichever order they record, no request is
\* lost and none comes back: it stays outstanding until a usable chain is accepted
\* or another request displaces it.
THEOREM RequestsAccountedForHolds == CertSpec => []RequestsAccountedFor
  <1>1. CertInv => RequestsAccountedFor
    BY DEF CertInv, CertTypes, DrawnInv, MarkerInv, KeptInv, NoMarker, RequestsAccountedFor, Drawn,
       Credited
  <1> QED BY <1>1, CertInitInv, CertStepInv, PTL DEF CertSpec

-----------------------------------------------------------------------------
(* DeviceModel: a copy of a monitor, wherever it is on its way to the CSMS,
   names an id that has been given out and the variable reported for that id. *)

Tripwires == [id : MonitorIds, var : StationVars, severity : Severities]

DeviceTypes ==
    /\ monitors \in [MonitorIds -> Monitors \cup {NoMonitor}]
    /\ lastId \in 0..MaxMonitorId
    /\ trips \in Seq(SUBSET Tripwires)
    /\ emitting \in [Emitters -> SUBSET Tripwires]
    /\ events \subseteq Tripwires
    /\ named \in [MonitorIds -> StationVars \cup {"none"}]

\* The copies in S can be attributed.
Attributed(S) == \A m \in S : m.id <= lastId /\ named[m.id] = m.var

DeviceInv ==
    /\ DeviceTypes
    /\ \A i \in Installed : i <= lastId /\ named[i] = monitors[i].var
    /\ \A k \in DOMAIN trips : Attributed(trips[k])
    /\ \A e \in Emitters : Attributed(emitting[e])
    /\ Attributed(events)

\* A copy of installed monitors can be attributed.
LEMMA TrippedAttributed ==
  ASSUME DeviceInv, NEW ids \in SUBSET Installed
  PROVE  Tripped(ids) \in SUBSET Tripwires /\ Attributed(Tripped(ids))
  BY DEF DeviceInv, DeviceTypes, Tripped, Tripwires, Attributed, Installed, Monitors

\* The initial state: no monitor, no copy.
LEMMA DeviceInitInv == DeviceInit => DeviceInv
  BY DeviceAssumption DEF DeviceInit, DeviceInv, DeviceTypes, Attributed, Installed

\* Every step of the monitor handlers, of the consumer and of the application
\* preserves DeviceInv.
LEMMA DeviceStepInv == DeviceInv /\ [DeviceNext]_deviceVars => DeviceInv'
  <1> SUFFICES ASSUME DeviceInv, [DeviceNext]_deviceVars PROVE DeviceInv'
    OBVIOUS
  <1> USE DeviceAssumption DEF DeviceInv, DeviceTypes, Attributed
  <1>1. CASE UNCHANGED deviceVars
    BY <1>1 DEF deviceVars, Installed
  <1>2. ASSUME NEW v \in StationVars, NEW x \in Values \cup {Text}, SetVariable(v, x)
        PROVE  DeviceInv'
    <2>1. UNCHANGED <<monitors, lastId, level, emitting, named, events>>
      BY <1>2 DEF SetVariable
    <2>2. \/ trips' = trips
          \/ trips' = Append(trips, Tripped(TrippedByWrite(v, value[v], x)))
      BY <1>2 DEF SetVariable
    <2>3. TrippedByWrite(v, value[v], x) \in SUBSET Installed
      BY DEF TrippedByWrite
    <2>4. /\ Tripped(TrippedByWrite(v, value[v], x)) \in SUBSET Tripwires
          /\ Attributed(Tripped(TrippedByWrite(v, value[v], x)))
      BY <2>3, TrippedAttributed
    <2>5. CASE trips' = trips
      BY <2>1, <2>5 DEF Installed
    <2>6. ASSUME NEW T \in SUBSET Tripwires, Attributed(T), trips' = Append(trips, T)
          PROVE  DeviceInv'
      BY <2>1, <2>6 DEF Installed
    <2>7. QED
      BY <2>2, <2>4, <2>5, <2>6
  <1>3. ASSUME NEW m \in Monitors, InstallMonitor(m) PROVE DeviceInv'
    BY <1>3 DEF InstallMonitor, FreshId, Installed, MonitorIds, Monitors, Tripwires
  <1>4. ASSUME NEW i \in MonitorIds, NEW m \in Monitors, ReplaceMonitor(i, m) PROVE DeviceInv'
    BY <1>4 DEF ReplaceMonitor, Installed
  <1>5. ASSUME NEW i \in MonitorIds, ClearVariableMonitoring({i}) PROVE DeviceInv'
    BY <1>5 DEF ClearVariableMonitoring, Installed
  <1>6. ASSUME NEW severity, SetMonitoringLevel(severity) PROVE DeviceInv'
    BY <1>6 DEF SetMonitoringLevel, Installed
  <1>7. ASSUME NEW asked, NEW criteria, GetMonitoringReport(asked, criteria) PROVE DeviceInv'
    <2>1. MonitoringSnapshot(asked, criteria) \subseteq Installed
      BY DEF MonitoringSnapshot
    <2>2. named' = named
      BY <1>7, <2>1 DEF GetMonitoringReport, Installed
    <2>3. QED
      BY <1>7, <2>2 DEF GetMonitoringReport, Installed
  <1>8. CASE TakeTrip
    <2>1. /\ Head(trips) \in SUBSET Tripwires /\ Attributed(Head(trips))
          /\ trips' \in Seq(SUBSET Tripwires)
          /\ \A k \in DOMAIN trips' : Attributed(trips'[k])
      BY <1>8 DEF TakeTrip
    <2>2. emitting' = [emitting EXCEPT !["consumer"] = Head(trips)]
      BY <1>8 DEF TakeTrip
    <2>3. UNCHANGED <<monitors, lastId, named, events>>
      BY <1>8 DEF TakeTrip
    <2>4. QED
      BY <2>1, <2>2, <2>3 DEF Installed, Emitters
  <1>9. ASSUME NEW v \in StationVars, TripVariableMonitor(v) PROVE DeviceInv'
    <2> DEFINE ids == {i \in Installed : monitors[i].var = v}
    <2>1. Tripped(ids) \in SUBSET Tripwires /\ Attributed(Tripped(ids))
      BY TrippedAttributed
    <2>2. emitting' = [emitting EXCEPT !["app"] = Tripped(ids)]
      BY <1>9 DEF TripVariableMonitor
    <2> HIDE DEF ids
    <2>3. UNCHANGED <<monitors, lastId, named, events, trips>>
      BY <1>9 DEF TripVariableMonitor
    <2>4. QED
      BY <2>1, <2>2, <2>3 DEF Installed, Emitters
  <1>10. ASSUME NEW e \in Emitters, EmitMonitorNotifyEvent(e) PROVE DeviceInv'
    BY <1>10 DEF EmitMonitorNotifyEvent, Installed
  <1>11. QED
    BY <1>1, <1>2, <1>3, <1>4, <1>5, <1>6, <1>7, <1>8, <1>9, <1>10 DEF DeviceNext

\* A NotifyEvent names the variable the station reported for the monitor's id,
\* also when the monitor was cleared or replaced after it tripped.
THEOREM EventsAreAttributableHolds == DeviceSpec => []EventsAreAttributable
  <1>1. DeviceInv => EventsAreAttributable
    BY DEF DeviceInv, Attributed, EventsAreAttributable
  <1>2. QED
    BY <1>1, DeviceInitInv, DeviceStepInv, PTL DEF DeviceSpec

\* A nonempty set of natural numbers has a least element.
LEMMA LeastValue ==
  ASSUME NEW S, S \subseteq Nat, S # {}
  PROVE  \E x \in S : \A y \in S : x <= y
  <1>1. PICK s \in S : TRUE
    OBVIOUS
  <1> DEFINE I == 0..s
             U == {0..x : x \in {z \in S : z <= s}}
  <1>2. s \in Nat /\ 0 \in Int /\ s \in Int
    OBVIOUS
  <1>3. IsFiniteSet(I)
    BY <1>2, FS_Interval
  <1>4. U \subseteq SUBSET I /\ U # {}
    BY <1>1, <1>2
  <1>5. U \subseteq FiniteSubsetsOf(I)
    BY <1>3, <1>4, FS_FiniteSubsetsOfFinite
  <1>6. PICK u \in U : \A w \in U : ~(<<w, u>> \in StrictSubsetOrdering(I))
    <2> HIDE DEF U, I
    <2> QED BY <1>3, <1>4, <1>5, WFMin, FS_StrictSubsetOrderingWellFounded
  <1>7. PICK x \in S : x <= s /\ u = 0..x
    BY <1>6
  <1>8. ASSUME NEW y \in S, y < x PROVE FALSE
    <2>1. x \in Nat /\ y \in Nat /\ y <= s
      BY <1>2, <1>7, <1>8
    <2>2. 0..y \in U /\ 0..y \subseteq 0..x /\ x \in 0..x /\ x \notin 0..y
      BY <1>8, <2>1
    <2>3. 0..y \in SUBSET I /\ 0..x \in SUBSET I /\ 0..y # 0..x
      BY <1>2, <1>7, <2>1, <2>2
    <2>4. PICK v : v = 0..y
      OBVIOUS
    <2>5. v \in U /\ v \in SUBSET I /\ u \in SUBSET I /\ v \subseteq u /\ v # u
      BY <1>7, <2>2, <2>3, <2>4
    <2> HIDE DEF U, I
    <2>6. <<v, u>> \in StrictSubsetOrdering(I)
      BY <2>5 DEF StrictSubsetOrdering
    <2> QED BY <1>6, <2>5, <2>6
  <1>9. ASSUME NEW y \in S PROVE x <= y
    <2>1. x \in Nat /\ y \in Nat
      OBVIOUS
    <2> QED BY <1>8, <2>1
  <1> QED BY <1>9

\* Variables, monitors and the monitoring level keep their types.
THEOREM DeviceTypeCorrect == DeviceSpec => []DeviceTypeOK
  <1> DEFINE Settings == value \in [StationVars -> Values \cup {Text}] /\ level \in LevelRange
  <1>1. DeviceInit => Settings
    <2>1. (CHOOSE x \in Values : \A y \in Values : x <= y) \in Values
      BY LeastValue, DeviceAssumption
    <2> QED BY <2>1 DEF DeviceInit, LevelRange
  <1>2. Settings /\ [DeviceNext]_deviceVars => Settings'
    <2> SUFFICES ASSUME Settings, [DeviceNext]_deviceVars PROVE Settings'
      OBVIOUS
    <2>1. ASSUME NEW v \in StationVars, NEW x \in Values \cup {Text}, SetVariable(v, x)
          PROVE  Settings'
      BY <2>1 DEF SetVariable
    <2>2. ASSUME NEW severity, SetMonitoringLevel(severity) PROVE Settings'
      BY <2>2 DEF SetMonitoringLevel
    <2>3. CASE UNCHANGED <<value, level>>
      BY <2>3
    <2> QED BY <2>1, <2>2, <2>3
            DEF DeviceNext, deviceVars, InstallMonitor, ReplaceMonitor, ClearVariableMonitoring,
                GetMonitoringReport, TakeTrip, TripVariableMonitor, EmitMonitorNotifyEvent
  <1>3. Settings /\ DeviceInv => DeviceTypeOK
    BY DEF DeviceInv, DeviceTypes, DeviceTypeOK
  <1> HIDE DEF Settings
  <1> QED BY <1>1, <1>2, <1>3, DeviceInitInv, DeviceStepInv, PTL DEF DeviceSpec

-----------------------------------------------------------------------------
(* Authorization: the cache holds answers of the CSMS for its tag, and as long as
   no two CALLs for the tag overlapped, the last one. *)

AskStates ==
    [at : {"idle", "cache", "calling", "answered"}, tag : IdTags \cup {"none"},
     answer : TagInfos \cup {NoInfo}]

AuthTypes ==
    /\ now \in Nat
    /\ asking \in [Askers -> AskStates]
    /\ \A a \in Askers : asking[a].at # "idle" => asking[a].tag \in IdTags
    /\ DOMAIN authList = IdTags /\ DOMAIN authCache = IdTags
    /\ DOMAIN told = IdTags /\ DOMAIN last = IdTags
    /\ \A t \in IdTags : authList[t].expiry \in Nat /\ authCache[t].expiresAt \in Nat

Calling(a, t) == asking[a].tag = t /\ asking[a].at \in {"calling", "answered"}

\* Everything cached or about to be is an answer for its tag; an entry with an expiry
\* date expires on it.
CacheInv ==
    /\ \A a \in Askers : asking[a].at = "answered" => asking[a].answer \in told[asking[a].tag]
    /\ \A t \in IdTags : authCache[t] # NoCached =>
          /\ authCache[t].info \in told[t]
          /\ authCache[t].info.expiry # Never => authCache[t].expiresAt = authCache[t].info.expiry

\* Without an overlap one task at most is waiting for the tag: the cache is behind only
\* between its answer and its insert, and while the task waits nobody else can hit it.
LastInv ==
    \A t \in IdTags : t \notin overlapped =>
        /\ \A a, b \in Askers : Calling(a, t) /\ Calling(b, t) => a = b
        /\ \A a \in Askers : Calling(a, t) /\ asking[a].at = "answered" =>
              asking[a].answer = last[t]
        /\ authCache[t] # NoCached =>
              \/ authCache[t].info = last[t]
              \/ \E a \in Askers : Calling(a, t) /\ asking[a].at = "answered"
        /\ \A a \in Askers : Calling(a, t) =>
              ~(CacheHit(t) /\ authCache[t].info.status = "Accepted")

AuthInv == AuthTypes /\ CacheInv /\ LastInv /\ GrantIsBacked

\* The initial state: empty list, empty cache, nothing returned.
LEMMA AuthInitInv == AuthInit => AuthInv
  <1> SUFFICES ASSUME AuthInit PROVE AuthInv
    OBVIOUS
  <1>1. NotAsking \in AskStates
    BY DEF NotAsking, AskStates
  <1>2. AuthTypes
    BY <1>1 DEF AuthInit, AuthTypes, NoInfo, NoCached, NotAsking, Never
  <1>3. CacheInv /\ LastInv
    BY DEF AuthInit, CacheInv, LastInv, Calling, NotAsking
  <1>4. GrantIsBacked
    BY DEF AuthInit, GrantIsBacked, NoVerdict, NoInfo
  <1> QED BY <1>2, <1>3, <1>4 DEF AuthInv

\* A list that SendLocalList leaves behind has an entry for every tag, with an
\* expiry that is a time or Never.
LEMMA AppliedList ==
  ASSUME AuthTypes, NEW kind, NEW version, NEW n \in 0..2,
         NEW entries \in [1..n -> [tag : IdTags, info : TagInfos \cup {NoInfo}]]
  PROVE  LET list == Apply(kind, version, ReadEntries(entries)).list
         IN  DOMAIN list = IdTags /\ \A t \in IdTags : list[t].expiry \in Nat
  <1> DEFINE read == ReadEntries(entries)
  <1>1. \A i \in TagInfos \cup {NoInfo} : i.expiry \in Nat /\ FromV201(i).expiry \in Nat
    BY AuthAssumption DEF FromV201, NoInfo, Never
  <1>2. \A i \in DOMAIN read : read[i].info.expiry \in Nat
    <2>1. CASE authConfig.version = "V16J"
      BY <1>1, <2>1 DEF ReadEntries
    <2>2. CASE authConfig.version # "V16J"
      <3>1. read = [i \in 1..n |-> [entries[i] EXCEPT !.info = FromV201(@)]]
        BY <2>2 DEF ReadEntries
      <3>2. \A i \in 1..n : read[i].info = FromV201(entries[i].info)
        BY <3>1
      <3>3. QED
        BY <1>1, <3>1, <3>2
    <2>3. QED
      BY <2>1, <2>2
  <1> HIDE DEF read
  <1>3. ASSUME NEW list, \A t \in IdTags : list[t].expiry \in Nat
        PROVE  /\ DOMAIN Patched(list, read) = IdTags
               /\ \A t \in IdTags : Patched(list, read)[t].expiry \in Nat
    BY <1>2, <1>3 DEF Patched
  <1>4. \A t \in IdTags : EmptyList[t].expiry \in Nat
    BY DEF EmptyList, NoInfo, Never
  <1>5. \A t \in IdTags : authList[t].expiry \in Nat
    BY DEF AuthTypes
  <1>6. \/ Apply(kind, version, read).list = authList
        \/ Apply(kind, version, read).list = Patched(EmptyList, read)
        \/ Apply(kind, version, read).list = Patched(authList, read)
    BY DEF Apply
  <1>7. QED
    BY <1>3, <1>4, <1>5, <1>6 DEF AuthTypes, read

\* A step that returns nothing leaves nothing to show.
LEMMA NothingReturned == ASSUME verdict' = NoVerdict PROVE GrantIsBacked'
  BY DEF GrantIsBacked, NoVerdict, NoInfo

\* Every step of authorize(), of the handlers and of the clock preserves AuthInv.
LEMMA AuthStepInv == AuthInv /\ [AuthNext]_authVars => AuthInv'
  <1> SUFFICES ASSUME AuthInv, [AuthNext]_authVars PROVE AuthInv'
    OBVIOUS
  <1> USE AuthAssumption DEF AuthInv
  <1>0. NotAsking \in AskStates /\ NotAsking.at = "idle"
    BY DEF NotAsking, AskStates
  <1>1. CASE UNCHANGED authVars
    BY <1>1 DEF authVars, AuthTypes, CacheInv, LastInv, Calling, CacheHit, GrantIsBacked
  <1>2. CASE Clock
    <2>1. AuthTypes' /\ CacheInv'
      BY <1>2 DEF Clock, AuthTypes, CacheInv
    <2>2. LastInv'
      BY <1>2 DEF Clock, AuthTypes, LastInv, Calling, CacheHit
    <2> QED BY <1>2, <2>1, <2>2, NothingReturned DEF Clock
  <1>3. ASSUME NEW a \in Askers, NEW t \in IdTags, Authorize(a, t) PROVE AuthInv'
    <2>1. AuthTypes'
      BY <1>0, <1>3 DEF Authorize, Return, AuthTypes, AskStates
    <2>2. CacheInv'
      BY <1>0, <1>3 DEF Authorize, Return, AuthTypes, CacheInv
    <2>3. LastInv'
      BY <1>0, <1>3 DEF Authorize, Return, AuthTypes, LastInv, Calling, CacheHit
    <2>4. GrantIsBacked'
      BY <1>3 DEF Authorize, Return, Passed, AuthTypes, GrantIsBacked, NoVerdict, NoInfo
    <2> QED BY <2>1, <2>2, <2>3, <2>4
  <1>4. ASSUME NEW a \in Askers, LookInCache(a) PROVE AuthInv'
    <2>1. PICK t \in IdTags : t = asking[a].tag
      BY <1>4 DEF LookInCache, AuthTypes
    <2>2. CASE CacheHit(t) /\ authCache[t].info.status = "Accepted"
      <3>1. /\ Return(a, t, authCache[t].info, "cache")
            /\ UNCHANGED <<overlapped, authConfig, now, authList, authCache, told, last>>
        BY <1>4, <2>1, <2>2 DEF LookInCache
      <3>2. AuthTypes' /\ CacheInv'
        BY <1>0, <3>1 DEF Return, AuthTypes, CacheInv
      <3>3. LastInv'
        BY <1>0, <1>4, <3>1 DEF LookInCache, Return, AuthTypes, LastInv, Calling, CacheHit
      <3>4. t \notin overlapped => authCache[t].info = last[t]
        BY <2>2 DEF LastInv, CacheHit
      <3>5. GrantIsBacked'
        BY <2>2, <3>1, <3>4 DEF Return, CacheHit, CacheInv, AuthTypes, GrantIsBacked
      <3> QED BY <3>2, <3>3, <3>5
    <2>3. CASE ~(CacheHit(t) /\ authCache[t].info.status = "Accepted")
      <3>1. /\ asking' = [asking EXCEPT ![a].at = "calling"]
            /\ overlapped' = IF InFlight(t) = {} THEN overlapped ELSE overlapped \cup {t}
            /\ verdict' = NoVerdict
            /\ UNCHANGED <<authConfig, now, authList, authCache, told, last>>
        BY <1>4, <2>1, <2>3 DEF LookInCache
      <3>2. AuthTypes'
        BY <1>4, <3>1 DEF LookInCache, AuthTypes, AskStates
      <3>3. CacheInv'
        BY <3>1 DEF AuthTypes, AskStates, CacheInv
      <3>4. \A b \in Askers : Calling(b, t) => t \in overlapped'
        BY <3>1 DEF InFlight, Calling
      <3>5. /\ asking'[a].tag = t /\ asking'[a].at = "calling"
            /\ \A b \in Askers : b # a => asking'[b] = asking[b]
        BY <2>1, <3>1 DEF AuthTypes, AskStates
      <3>6. asking[a].at = "cache" /\ overlapped \subseteq overlapped'
        BY <1>4, <3>1 DEF LookInCache
      <3>7. LastInv'
        <4> SUFFICES ASSUME NEW u \in IdTags, u \notin overlapped'
                     PROVE  /\ \A b, c \in Askers : Calling(b, u)' /\ Calling(c, u)' => b = c
                            /\ \A b \in Askers : Calling(b, u)' /\ asking'[b].at = "answered" =>
                                  asking'[b].answer = last[u]
                            /\ authCache[u] # NoCached =>
                                  \/ authCache[u].info = last[u]
                                  \/ \E b \in Askers : Calling(b, u)' /\ asking'[b].at = "answered"
                            /\ \A b \in Askers : Calling(b, u)' =>
                                  ~(CacheHit(u) /\ authCache[u].info.status = "Accepted")
          BY <3>1 DEF LastInv, CacheHit
        <4>1. u \notin overlapped
          BY <3>6
        <4>2. \A b \in Askers : b # a => Calling(b, u)' = Calling(b, u)
          BY <3>5 DEF Calling
        <4>3. CASE u = t
          <5>1. \A b \in Askers : Calling(b, u)' => b = a
            BY <3>4, <4>2, <4>3
          <5>2. authCache[u] # NoCached => authCache[u].info = last[u]
            BY <3>4, <4>1, <4>3 DEF LastInv
          <5> QED BY <2>3, <3>5, <4>3, <5>1, <5>2
        <4>4. CASE u # t
          <5>1. ~Calling(a, u)' /\ ~Calling(a, u)
            BY <2>1, <3>5, <4>4 DEF Calling
          <5> QED BY <3>5, <4>1, <4>2, <5>1 DEF LastInv
        <4> QED BY <4>3, <4>4
      <3> QED BY <3>1, <3>2, <3>3, <3>7, NothingReturned
    <2> QED BY <2>2, <2>3
  <1>5. ASSUME NEW a \in Askers, NEW info \in TagInfos, AuthorizeAnswered(a, info) PROVE AuthInv'
    <2>1. PICK t \in IdTags : t = asking[a].tag
      BY <1>5 DEF AuthorizeAnswered, AuthTypes
    <2>2. /\ asking[a].at = "calling"
          /\ told' = [told EXCEPT ![t] = @ \cup {info}] /\ last' = [last EXCEPT ![t] = info]
          /\ verdict' = NoVerdict
          /\ UNCHANGED <<authConfig, now, authList, authCache, overlapped>>
      BY <1>5, <2>1 DEF AuthorizeAnswered
    <2>3. /\ asking'[a].tag = t /\ asking'[a].at = "answered" /\ asking'[a].answer = info
          /\ \A b \in Askers : b # a => asking'[b] = asking[b]
          /\ asking' \in [Askers -> AskStates]
      BY <1>5, <2>1 DEF AuthorizeAnswered, AuthTypes, AskStates
    <2>4. /\ \A u \in IdTags : told[u] \subseteq told'[u]
          /\ info \in told'[t] /\ last'[t] = info
          /\ \A u \in IdTags : u # t => last'[u] = last[u]
      BY <2>2 DEF AuthTypes
    <2>5. AuthTypes'
      BY <2>1, <2>2, <2>3 DEF AuthTypes
    <2>6. CacheInv'
      BY <2>2, <2>3, <2>4 DEF AuthTypes, CacheInv
    <2>7. LastInv'
      <3>1. \A b \in Askers, u \in IdTags : Calling(b, u)' = Calling(b, u)
        BY <2>1, <2>2, <2>3 DEF Calling
      <3>2. \A u \in IdTags : CacheHit(u)' = CacheHit(u)
        BY <2>2 DEF CacheHit
      <3>3. Calling(a, t)
        BY <2>1, <2>2 DEF Calling
      <3>4. \A u \in IdTags : u # t => ~Calling(a, u)
        BY <2>1 DEF Calling
      <3> QED BY <2>2, <2>3, <2>4, <3>1, <3>2, <3>3, <3>4 DEF LastInv
    <2> QED BY <2>2, <2>5, <2>6, <2>7, NothingReturned
  <1>6. ASSUME NEW a \in Askers, Remember(a) PROVE AuthInv'
    <2>1. PICK t \in IdTags : t = asking[a].tag
      BY <1>6 DEF Remember, AuthTypes
    <2>2. PICK info \in TagInfos \cup {NoInfo} : info = asking[a].answer
      BY DEF AuthTypes, AskStates
    <2>3. /\ asking[a].at = "answered"
          /\ Insert(t, info) /\ Return(a, t, info, "csms")
          /\ UNCHANGED <<authConfig, now, authList, told, last, overlapped>>
      BY <1>6, <2>1, <2>2 DEF Remember
    <2>4. info.expiry \in Nat /\ info \in told[t]
      BY <2>1, <2>2, <2>3 DEF CacheInv, NoInfo, Never
    <2>5. /\ authCache'[t].info = info /\ authCache'[t].expiresAt \in Nat
          /\ info.expiry # Never => authCache'[t].expiresAt = info.expiry
          /\ \A u \in IdTags : u # t => authCache'[u] = authCache[u]
          /\ DOMAIN authCache' = IdTags
      BY <2>3, <2>4 DEF Insert, AuthTypes
    <2>6. /\ asking'[a] = NotAsking /\ \A b \in Askers : b # a => asking'[b] = asking[b]
          /\ asking' \in [Askers -> AskStates]
      BY <1>0, <2>3 DEF Return, AuthTypes
    <2>7. AuthTypes'
      BY <1>0, <2>3, <2>5, <2>6 DEF AuthTypes
    <2>8. CacheInv'
      BY <1>0, <2>3, <2>4, <2>5, <2>6 DEF CacheInv
    <2>9. t \notin overlapped => info = last[t]
      BY <2>1, <2>2, <2>3 DEF LastInv, Calling
    <2>10. LastInv'
      <3>1. \A b \in Askers, u \in IdTags : Calling(b, u)' => b # a /\ Calling(b, u)
        BY <1>0, <2>6 DEF Calling
      <3>2. \A u \in IdTags : u # t => CacheHit(u)' = CacheHit(u)
        BY <2>3, <2>5 DEF CacheHit
      <3>3. Calling(a, t) /\ \A u \in IdTags : u # t => ~Calling(a, u)
        BY <2>1, <2>3 DEF Calling
      <3>4. \A b \in Askers, u \in IdTags : b # a /\ Calling(b, u) => Calling(b, u)'
        BY <2>6 DEF Calling
      <3>5. t \notin overlapped => ~\E b \in Askers : Calling(b, t)'
        BY <3>1, <3>3 DEF LastInv
      <3> QED BY <2>3, <2>5, <2>6, <2>9, <3>1, <3>2, <3>3, <3>4, <3>5 DEF LastInv
    <2>11. GrantIsBacked'
      BY <2>3, <2>4, <2>9 DEF Return, GrantIsBacked
    <2> QED BY <2>7, <2>8, <2>10, <2>11
  <1>7. ASSUME NEW a \in Askers, asking[a].at = "calling",
               asking' = [asking EXCEPT ![a] = NotAsking],
               UNCHANGED <<now, authList, authCache, told, last, overlapped>>
        PROVE  AuthTypes' /\ CacheInv' /\ LastInv'
    <2>1. AuthTypes' /\ CacheInv'
      BY <1>0, <1>7 DEF AuthTypes, CacheInv
    <2>2. LastInv'
      BY <1>0, <1>7 DEF AuthTypes, LastInv, Calling, CacheHit
    <2> QED BY <2>1, <2>2
  <1>8. ASSUME NEW a \in Askers, AuthorizeTimesOut(a) PROVE AuthInv'
    <2>1. PICK t \in IdTags : t = asking[a].tag
      BY <1>8 DEF AuthorizeTimesOut, AuthTypes
    <2>2. AuthTypes' /\ CacheInv' /\ LastInv'
      BY <1>7, <1>8 DEF AuthorizeTimesOut, Return
    <2>3. authCache[t] # NoCached /\ t \notin overlapped => authCache[t].info = last[t]
      BY <1>8, <2>1 DEF AuthorizeTimesOut, LastInv, Calling
    <2>4. authCache[t].info.status = "Accepted" => authCache[t] # NoCached
      BY DEF NoCached, NoInfo
    <2>5. GrantIsBacked'
      <3>1. told' = told /\ authConfig' = authConfig /\ overlapped' = overlapped
        BY <1>8 DEF AuthorizeTimesOut
      <3>2. CASE authConfig.staleOk /\ authCache[t].info.status = "Accepted"
        <4>1. Return(a, t, authCache[t].info, "stale")
          BY <1>8, <2>1, <3>2 DEF AuthorizeTimesOut
        <4>2. authCache[t].info \in told[t]
          BY <2>4, <3>2 DEF CacheInv
        <4> QED BY <2>3, <2>4, <3>1, <3>2, <4>1, <4>2 DEF Return, GrantIsBacked
      <3>3. CASE ~(authConfig.staleOk /\ authCache[t].info.status = "Accepted")
        <4>1. Return(a, t, [status |-> "Invalid", expiry |-> Never], "safe")
          BY <1>8, <2>1, <3>3 DEF AuthorizeTimesOut
        <4>2. verdict'.info.status = "Invalid"
          BY <4>1 DEF Return
        <4> QED BY <4>2 DEF GrantIsBacked
      <3> QED BY <3>2, <3>3
    <2> QED BY <2>2, <2>5
  <1>9. ASSUME NEW a \in Askers, AuthorizeFails(a) PROVE AuthInv'
    BY <1>7, <1>9, NothingReturned DEF AuthorizeFails
  <1>10. CASE ClearCache
    <2>1. AuthTypes' /\ CacheInv'
      BY <1>10 DEF ClearCache, AuthTypes, CacheInv, NoCached
    <2>2. LastInv'
      BY <1>10 DEF ClearCache, LastInv, Calling, CacheHit
    <2> QED BY <1>10, <2>1, <2>2, NothingReturned DEF ClearCache
  <1>11. ASSUME NEW kind, NEW version, NEW n \in 0..2,
                NEW entries \in [1..n -> [tag : IdTags, info : TagInfos \cup {NoInfo}]],
                SendLocalList(kind, version, entries)
         PROVE  AuthInv'
    <2>1. AuthTypes'
      BY <1>11, AppliedList DEF SendLocalList, AuthTypes
    <2>2. CacheInv' /\ LastInv'
      BY <1>11 DEF SendLocalList, CacheInv, LastInv, Calling, CacheHit
    <2> QED BY <1>11, <2>1, <2>2, NothingReturned DEF SendLocalList
  <1>12. QED
    BY <1>1, <1>2, <1>3, <1>4, <1>5, <1>6, <1>8, <1>9, <1>10, <1>11 DEF AuthNext

\* Whatever the list, the cache, the clock and other tasks do between the steps of
\* authorize(), an acceptance it returns is on the list or was given by the CSMS for
\* that tag, it is the last answer unless CALLs for the tag overlapped, and one from the
\* list or the fresh cache has not expired.
THEOREM GrantIsBackedHolds == AuthSpec => []GrantIsBacked
  <1>1. AuthInv => GrantIsBacked
    BY DEF AuthInv
  <1>2. QED
    BY <1>1, AuthInitInv, AuthStepInv, PTL DEF AuthSpec

\* The entries of the Local Authorization List are finitely many, and no more than
\* LocalAuthListMaxLength.
ListInv == IsFiniteSet(Listed(authList)) /\ Cardinality(Listed(authList)) <= MaxLength

\* The numbers and the configuration.
AuthBounds == authConfig \in AuthConfig /\ now \in 0..MaxTime /\ listVersion \in 0..MaxListUpdates

\* Applying a request to a finite list gives a finite list.
LEMMA PatchedFinite ==
  ASSUME NEW list, IsFiniteSet(Listed(list)), NEW n \in 0..2, NEW read, DOMAIN read = 1..n
  PROVE  IsFiniteSet(Listed(Patched(list, read)))
  <1>1. PICK a, b : \A i \in 1..n : read[i].tag \in {a, b}
    <2>1. \A i \in 1..n : i = 1 \/ i = 2
      OBVIOUS
    <2> QED BY <2>1
  <1>2. IsFiniteSet(Listed(list) \cup {a})
    BY FS_AddElement
  <1>3. IsFiniteSet((Listed(list) \cup {a}) \cup {b})
    BY <1>2, FS_AddElement
  <1>4. Listed(Patched(list, read)) \subseteq (Listed(list) \cup {a}) \cup {b}
    <2> SUFFICES ASSUME NEW t \in IdTags, Patched(list, read)[t] # NoInfo, t # a, t # b
                 PROVE  list[t] # NoInfo
      BY DEF Listed
    <2>1. ~\E i \in DOMAIN read : read[i].tag = t
      BY <1>1
    <2> QED BY <2>1 DEF Patched
  <1> QED BY <1>3, <1>4, FS_Subset

\* LocalAuthList::apply keeps to the capacity: it looks at the list as it would be.
LEMMA AppliedFits ==
  ASSUME ListInv, NEW kind, NEW version, NEW n \in 0..2, NEW read, DOMAIN read = 1..n
  PROVE  LET list == Apply(kind, version, read).list
         IN  IsFiniteSet(Listed(list)) /\ Cardinality(Listed(list)) <= MaxLength
  <1> DEFINE base == IF kind = "Full" THEN EmptyList ELSE authList
             patched == Patched(base, read)
  <1>1. IsFiniteSet(Listed(base))
    <2>1. Listed(EmptyList) = {}
      BY DEF Listed, EmptyList
    <2> QED BY <2>1, FS_EmptySet DEF ListInv
  <1>2. IsFiniteSet(Listed(patched))
    <2> HIDE DEF base
    <2> QED BY <1>1, PatchedFinite
  <1>3. Cardinality(Listed(patched)) \in Nat
    BY <1>2, FS_CardinalityType
  <1>4. \/ Apply(kind, version, read).list = authList
        \/ /\ Apply(kind, version, read).list = patched
           /\ ~(Cardinality(Listed(patched)) > MaxLength)
    BY DEF Apply
  <1>5. ~(Cardinality(Listed(patched)) > MaxLength) => Cardinality(Listed(patched)) <= MaxLength
    BY <1>3, AuthAssumption
  <1> HIDE DEF patched
  <1> QED BY <1>2, <1>4, <1>5 DEF ListInv

\* The list never exceeds its capacity, whatever full and differential updates the
\* CSMS sends, and every task is at one of the steps of authorize().
THEOREM AuthTypeCorrect == AuthSpec => []AuthTypeOK
  <1> DEFINE Bounded == AuthBounds /\ ListInv
  <1>1. AuthInit => Bounded
    <2>1. AuthInit => Listed(authList) = {}
      BY DEF AuthInit, Listed
    <2>2. AuthInit => ListInv
      BY <2>1, FS_EmptySet, AuthAssumption DEF ListInv
    <2> QED BY <2>2, AuthAssumption DEF AuthInit, AuthBounds
  <1>2. Bounded /\ [AuthNext]_authVars => Bounded'
    <2> SUFFICES ASSUME Bounded, [AuthNext]_authVars PROVE Bounded'
      OBVIOUS
    <2>1. CASE Clock
      BY <2>1, AuthAssumption DEF Clock, AuthBounds, ListInv, Listed
    <2>2. ASSUME NEW kind, NEW version \in 1..MaxListUpdates, NEW n \in 0..2,
                 NEW entries \in [1..n -> [tag : IdTags, info : TagInfos \cup {NoInfo}]],
                 SendLocalList(kind, version, entries)
          PROVE  Bounded'
      <3>1. PICK read : read = ReadEntries(entries) /\ DOMAIN read = 1..n
        <4>1. DOMAIN entries = 1..n
          OBVIOUS
        <4>2. DOMAIN [i \in DOMAIN entries |-> [entries[i] EXCEPT !.info = FromV201(@)]] = 1..n
          BY <4>1
        <4>3. CASE authConfig.version = "V16J"
          BY <4>1, <4>3 DEF ReadEntries
        <4>4. CASE authConfig.version # "V16J"
          BY <4>2, <4>4 DEF ReadEntries
        <4> QED BY <4>3, <4>4
      <3>2. PICK list : /\ list = Apply(kind, version, read).list
                        /\ IsFiniteSet(Listed(list)) /\ Cardinality(Listed(list)) <= MaxLength
        BY <3>1, AppliedFits
      <3>3. authList' = list
        BY <2>2, <3>1, <3>2 DEF SendLocalList
      <3>4. Listed(authList)' = Listed(list)
        BY <3>3 DEF Listed
      <3>5. ListInv'
        BY <3>2, <3>4 DEF ListInv
      <3>6. listVersion' \in 0..MaxListUpdates
        BY <2>2, AuthAssumption DEF SendLocalList, AuthBounds
      <3> QED BY <2>2, <3>5, <3>6 DEF SendLocalList, AuthBounds
    <2>3. CASE UNCHANGED <<authConfig, now, authList, listVersion>>
      BY <2>3 DEF AuthBounds, ListInv, Listed
    <2> QED BY <2>1, <2>2, <2>3
            DEF AuthNext, authVars, Authorize, LookInCache, AuthorizeAnswered, Remember,
                AuthorizeTimesOut, AuthorizeFails, ClearCache
  <1>3. Bounded /\ AuthInv => AuthTypeOK
    BY DEF AuthInv, AuthTypes, AskStates, AuthTypeOK, AuthBounds, ListInv
  <1> HIDE DEF Bounded
  <1> QED BY <1>1, <1>2, <1>3, AuthInitInv, AuthStepInv, PTL DEF AuthSpec

-----------------------------------------------------------------------------
(* CsmsInbound: between the dispatch of a CALL and its answer the loop looks at
   nothing else, so that a hook can get into the channel early but not out of it. *)

InboundFrames ==
    [kind : Actions \cup {"MessageReceived", "Disconnected", "HOOK", "CALLRESULT", "CALLERROR"},
     call : 0..MaxCalls]

SessionType == wsState \in {"open", "leaving", "over"} /\ received \in 0..MaxCalls
ServingType ==
    serving \in [call : 0..MaxCalls, action : Actions \cup {"none"}, decodes : BOOLEAN,
                 at : {"idle", "dispatch", "report", "answer"}]
OutcomeType == hooks \subseteq Calls /\ outcome \in [Calls -> Bespoke \cup {"none yet"}]
ChannelType == outbound \in Seq(InboundFrames)
WireType == wire \in Seq(InboundFrames)
ReportedType == reported \in Seq(InboundFrames)

\* The CALL being served is the one read last.
ServingInv ==
    /\ serving.at = "idle" => serving = NoServing
    /\ serving.at # "idle" => /\ wsState = "open"
                              /\ serving.call = received
                              /\ received # 0
                              /\ serving.action \in Actions

\* The CALLRESULT of c is on the wire.
Answered(c) == \E j \in DOMAIN wire : wire[j] = Frame("CALLRESULT", c)

\* A hook on c may be about: c was accepted, and its answer is out, or the next
\* thing the loop does, or will not be sent any more and then the hook's frame neither.
HookDue(c) ==
    /\ c \in 1..received
    /\ outcome[c] = "result"
    /\ serving.at = "dispatch" => c # serving.call
    /\ \/ Answered(c)
       \/ wsState # "open"
       \/ serving.call = c /\ serving.at \in {"report", "answer"}

HookInv ==
    /\ \A c \in hooks : HookDue(c)
    /\ \A k \in DOMAIN outbound : outbound[k].kind = "HOOK" /\ HookDue(outbound[k].call)

\* The events out so far, against the CALLs read so far.
ReadInv ==
    \A c \in 1..received : \E j \in DOMAIN reported : reported[j] = Frame("MessageReceived", c)

ReportedInv ==
    \A i \in DOMAIN reported :
        LET e == reported[i]
        IN  /\ e.kind = "MessageReceived" => e.call \in 1..received
            /\ e.kind \in Actions => /\ e.call \in 1..received
                                     /\ e.call = serving.call => serving.at = "answer"
            /\ e.kind = "Disconnected" => wsState = "over"

\* Answers are to CALLs read.
WireInv == \A i \in DOMAIN wire : wire[i].kind # "HOOK" => wire[i].call \in 1..received

InboundInv ==
    /\ SessionType /\ ServingType /\ OutcomeType /\ ChannelType /\ WireType /\ ReportedType
    /\ ServingInv /\ HookInv /\ ReadInv /\ ReportedInv /\ WireInv
    /\ AnswerBeforeHook /\ EventsInOrder

\* The initial state: nothing read, sent or reported.
LEMMA InboundInitInv == InboundInit => InboundInv
  <1> SUFFICES ASSUME InboundInit PROVE InboundInv
    OBVIOUS
  <1>1. wsState = "open" /\ serving = NoServing /\ received = 0
    BY DEF InboundInit
  <1>2. hooks = {} /\ outcome = [c \in Calls |-> "none yet"]
    BY DEF InboundInit
  <1>3. outbound = <<>> /\ wire = <<>> /\ reported = <<>>
    BY DEF InboundInit
  <1>4. SessionType /\ ServingType /\ ServingInv
    BY <1>1, InboundAssumption DEF SessionType, ServingType, ServingInv, NoServing
  <1>5. OutcomeType
    BY <1>2 DEF OutcomeType
  <1>6. ChannelType /\ WireType /\ ReportedType
    BY <1>3 DEF ChannelType, WireType, ReportedType
  <1>7. DOMAIN outbound = {} /\ DOMAIN wire = {} /\ DOMAIN reported = {}
    BY <1>3
  <1>8. HookInv /\ ReadInv /\ ReportedInv /\ WireInv
    <2>1. HookInv
      BY <1>2, <1>7 DEF HookInv
    <2>2. ReadInv
      BY <1>1 DEF ReadInv
    <2>3. ReportedInv /\ WireInv
      BY <1>7 DEF ReportedInv, WireInv
    <2>4. QED
      BY <2>1, <2>2, <2>3
  <1>9. AnswerBeforeHook /\ EventsInOrder
    BY <1>7 DEF AnswerBeforeHook, EventsInOrder, Told
  <1>10. QED
    BY <1>4, <1>5, <1>6, <1>8, <1>9 DEF InboundInv

\* The facts about Append that the proofs need.
LEMMA Appended ==
  ASSUME NEW S, NEW s \in Seq(S), NEW e \in S, NEW t, t = Append(s, e)
  PROVE  /\ t \in Seq(S)
         /\ Len(s) \in Nat
         /\ DOMAIN s = 1..Len(s) /\ DOMAIN t = 1..(Len(s) + 1)
         /\ Len(t) = Len(s) + 1
         /\ \A i \in 1..Len(s) : t[i] = s[i]
         /\ t[Len(s) + 1] = e
  OBVIOUS

\* An event e may be reported next if it is true, follows the raw frame, and is new.
LEMMA EventAppended ==
  ASSUME InboundInv, NEW e \in InboundFrames, reported' = Append(reported, e), wsState # "over",
         UNCHANGED <<outcome, wire>>,
         e.kind \in {"Start", "Boot"} => outcome[e.call] = "result",
         e.kind \in Actions =>
            \E j \in DOMAIN reported : reported[j] = Frame("MessageReceived", e.call),
         e.kind # "Disconnected" => \A j \in DOMAIN reported : reported[j] # e
  PROVE  EventsInOrder'
  <1>1. /\ Len(reported) \in Nat
        /\ DOMAIN reported = 1..Len(reported) /\ DOMAIN reported' = 1..(Len(reported) + 1)
        /\ Len(reported') = Len(reported) + 1
        /\ \A i \in 1..Len(reported) : reported'[i] = reported[i]
        /\ reported'[Len(reported) + 1] = e
    BY Appended DEF InboundInv, ReportedType
  <1>2. ASSUME NEW i \in 1..Len(reported)
        PROVE  /\ reported[i].kind \in {"Start", "Boot"} => outcome'[reported[i].call] = "result"
               /\ reported[i].kind \in Actions => \E j \in 1..(i - 1) :
                     reported'[j] = Frame("MessageReceived", reported[i].call)
               /\ reported[i].kind # "Disconnected" =>
                     \A j \in 1..(i - 1) : reported'[j] # reported[i]
               /\ reported[i].kind # "Disconnected"
    <2>1. \A j \in 1..(i - 1) : reported'[j] = reported[j]
      BY <1>1
    <2>2. reported[i].kind # "Disconnected"
      BY <1>1 DEF InboundInv, ReportedInv
    <2>3. QED
      BY <1>1, <2>1, <2>2 DEF InboundInv, EventsInOrder, Told
  <1>3. ASSUME NEW i \in DOMAIN wire, wire[i].kind # "HOOK"
        PROVE  \E j \in DOMAIN reported' : reported'[j] = Frame("MessageReceived", wire[i].call)
    <2>1. PICK j \in DOMAIN reported : reported[j] = Frame("MessageReceived", wire[i].call)
      BY <1>3 DEF InboundInv, EventsInOrder, Told
    <2>2. QED
      BY <1>1, <2>1
  <1>4. ASSUME NEW i \in DOMAIN reported'
        PROVE  /\ reported'[i].kind \in {"Start", "Boot"} => outcome'[reported'[i].call] = "result"
               /\ reported'[i].kind \in Actions => \E j \in 1..(i - 1) :
                     reported'[j] = Frame("MessageReceived", reported'[i].call)
               /\ reported'[i].kind # "Disconnected" =>
                     \A j \in 1..(i - 1) : reported'[j] # reported'[i]
               /\ reported'[i].kind = "Disconnected" => i = Len(reported')
    <2>1. CASE i \in 1..Len(reported)
      BY <1>1, <1>2, <2>1
    <2>2. CASE i = Len(reported) + 1
      <3>1. (1..(i - 1)) = DOMAIN reported
        BY <1>1, <2>2
      <3>2. QED
        BY <1>1, <2>2, <3>1
    <2>3. QED
      BY <1>1, <2>1, <2>2
  <1>5. QED
    BY <1>3, <1>4 DEF EventsInOrder, Told

\* Every step of the session's task and of the hooks preserves InboundInv.
LEMMA InboundStepInv == InboundInv /\ [InboundNext]_inboundVars => InboundInv'
  <1> SUFFICES ASSUME InboundInv, [InboundNext]_inboundVars PROVE InboundInv'
    OBVIOUS
  <1> USE InboundAssumption
  <1>1. CASE UNCHANGED inboundVars
    <2>1. SessionType' /\ ServingType' /\ OutcomeType' /\ ChannelType' /\ WireType' /\ ReportedType'
      BY <1>1 DEF InboundInv, inboundVars, SessionType, ServingType, OutcomeType, ChannelType,
         WireType, ReportedType
    <2>2. ServingInv' /\ ReadInv' /\ ReportedInv' /\ WireInv' /\ AnswerBeforeHook'
      BY <1>1 DEF InboundInv, inboundVars, ServingInv, ReadInv, ReportedInv, WireInv,
         AnswerBeforeHook
    <2>3. HookInv'
      BY <1>1 DEF InboundInv, inboundVars, HookInv, HookDue, Answered
    <2>4. EventsInOrder'
      BY <1>1 DEF InboundInv, inboundVars, EventsInOrder, Told
    <2>5. QED
      BY <2>1, <2>2, <2>3, <2>4 DEF InboundInv
  <1>2. ASSUME NEW action \in Actions, NEW decodes \in BOOLEAN, ReadCall(action, decodes)
        PROVE  InboundInv'
    <2>1. /\ received' = received + 1 /\ received + 1 \in 1..MaxCalls /\ received \in Nat
          /\ wsState = "open" /\ wsState' = "open" /\ serving = NoServing
          /\ reported' = Append(reported, Frame("MessageReceived", received + 1))
          /\ serving' = [call |-> received + 1, action |-> action, decodes |-> decodes,
                         at |-> "dispatch"]
          /\ UNCHANGED <<hooks, outbound, wire, outcome>>
      BY <1>2 DEF InboundInv, ReadCall, Idle, SessionType
    <2>2. /\ serving.call = 0 /\ serving.at = "idle"
          /\ serving'.call = received + 1 /\ serving'.at = "dispatch" /\ serving'.action = action
      BY <2>1 DEF NoServing
    <2>3. Frame("MessageReceived", received + 1) \in InboundFrames
      BY <2>1 DEF Frame, InboundFrames
    <2>4. /\ reported' \in Seq(InboundFrames) /\ Len(reported) \in Nat
          /\ DOMAIN reported = 1..Len(reported) /\ DOMAIN reported' = 1..(Len(reported) + 1)
          /\ Len(reported') = Len(reported) + 1
          /\ \A i \in 1..Len(reported) : reported'[i] = reported[i]
          /\ reported'[Len(reported) + 1] = Frame("MessageReceived", received + 1)
      BY <2>1, <2>3, Appended DEF InboundInv, ReportedType
    <2>5. OutcomeType' /\ ChannelType' /\ WireType'
      BY <2>1 DEF InboundInv, OutcomeType, ChannelType, WireType
    <2>6. AnswerBeforeHook'
      BY <2>1 DEF InboundInv, AnswerBeforeHook
    <2>7. SessionType'
      BY <2>1 DEF SessionType
    <2>8. ServingType'
      BY <2>1 DEF ServingType
    <2>9. ReportedType'
      BY <2>4 DEF ReportedType
    <2>10. ServingInv'
      BY <2>1, <2>2 DEF ServingInv
    <2>11. HookInv'
      BY <2>1, <2>2 DEF InboundInv, HookInv, HookDue, Answered
    <2>12. ReadInv'
      BY <2>1, <2>4 DEF InboundInv, ReadInv
    <2>13. ReportedInv'
      BY <2>1, <2>2, <2>4 DEF InboundInv, ReportedInv, Frame, Actions
    <2>14. WireInv'
      BY <2>1 DEF InboundInv, WireInv
    <2>15. EventsInOrder'
      <3>1. /\ Frame("MessageReceived", received + 1).kind = "MessageReceived"
            /\ Frame("MessageReceived", received + 1).call = received + 1
        BY DEF Frame
      <3>2. \A j \in DOMAIN reported : reported[j] # Frame("MessageReceived", received + 1)
        BY <2>1, <3>1 DEF InboundInv, ReportedInv
      <3>3. QED
        BY <2>1, <2>3, <3>1, <3>2, EventAppended DEF Actions
    <2>16. QED
      BY <2>5, <2>6, <2>7, <2>8, <2>9, <2>10, <2>11, <2>12, <2>13, <2>14, <2>15 DEF InboundInv
  <1>3. ASSUME NEW answer \in Bespoke,
               wsState = "open", serving.at = "dispatch",
               outcome' = [outcome EXCEPT ![serving.call] = answer],
               \/ hooks' = hooks
               \/ answer = "result" /\ hooks' = hooks \cup {serving.call},
               serving' = [serving EXCEPT !.at = "report"],
               UNCHANGED <<wsState, received, outbound, wire, reported>>
        PROVE  InboundInv'
    <2>1. UNCHANGED <<wsState, received, outbound, wire, reported>>
      BY <1>3
    <2>2. /\ serving'.at = "report" /\ serving'.call = serving.call
          /\ serving'.action = serving.action /\ ServingType'
      BY <1>3 DEF InboundInv, ServingType
    <2>3. /\ serving.call = received /\ received \in 1..MaxCalls /\ serving.action \in Actions
      BY <1>3 DEF InboundInv, ServingInv, SessionType
    <2>4. /\ \A c \in 1..MaxCalls : c # received => outcome'[c] = outcome[c]
          /\ outcome'[received] = answer
      BY <1>3, <2>3 DEF InboundInv, OutcomeType, Calls
    <2>5. SessionType' /\ ChannelType' /\ WireType' /\ ReportedType'
      BY <2>1 DEF InboundInv, SessionType, ChannelType, WireType, ReportedType
    <2>6. ReadInv' /\ WireInv' /\ AnswerBeforeHook'
      BY <2>1 DEF InboundInv, ReadInv, WireInv, AnswerBeforeHook
    <2>7. ServingType'
      BY <2>2
    <2>8. OutcomeType'
      BY <1>3, <2>3 DEF InboundInv, OutcomeType, Calls
    <2>9. ServingInv'
      BY <1>3, <2>1, <2>2, <2>3 DEF ServingInv
    <2>10. HookInv'
      BY <1>3, <2>1, <2>2, <2>3, <2>4 DEF InboundInv, HookInv, HookDue, Answered, SessionType
    <2>11. ReportedInv'
      BY <1>3, <2>1, <2>2, <2>3 DEF InboundInv, ReportedInv
    <2>12. EventsInOrder'
      BY <1>3, <2>1, <2>3, <2>4 DEF InboundInv, EventsInOrder, Told, ReportedInv, Actions, SessionType
    <2>13. QED
      BY <2>5, <2>6, <2>7, <2>8, <2>9, <2>10, <2>11, <2>12 DEF InboundInv
  <1>4. CASE Dispatch
    BY <1>3, <1>4 DEF Dispatch, Bespoke
  <1>5. ASSUME NEW answer \in Bespoke, HandleMessage(answer) PROVE InboundInv'
    BY <1>3, <1>5 DEF HandleMessage
  <1>6. CASE EmitEvents
    <2>1. UNCHANGED <<wsState, received, hooks, outbound, wire, outcome>>
      BY <1>6 DEF EmitEvents
    <2>2. /\ serving.at = "report" /\ serving'.at = "answer" /\ serving'.call = serving.call
          /\ serving'.action = serving.action /\ ServingType'
      BY <1>6 DEF InboundInv, EmitEvents, ServingType
    <2>3. /\ wsState = "open" /\ serving.call = received /\ received \in 1..MaxCalls
          /\ serving.action \in Actions
      BY <1>6, <2>2 DEF InboundInv, EmitEvents, ServingInv, SessionType
    <2>4. \/ reported' = reported
          \/ /\ reported' = Append(reported, Frame(serving.action, received))
             /\ serving.action \in {"Start", "Boot"} => outcome[received] = "result"
      BY <1>6, <2>3 DEF EmitEvents, Surfaces
    <2>5. Frame(serving.action, received) \in InboundFrames
      BY <2>3 DEF Frame, InboundFrames
    <2>6. \/ reported' = reported
          \/ /\ reported' \in Seq(InboundFrames) /\ Len(reported) \in Nat
             /\ DOMAIN reported = 1..Len(reported) /\ DOMAIN reported' = 1..(Len(reported) + 1)
             /\ Len(reported') = Len(reported) + 1
             /\ \A i \in 1..Len(reported) : reported'[i] = reported[i]
             /\ reported'[Len(reported) + 1] = Frame(serving.action, received)
             /\ serving.action \in {"Start", "Boot"} => outcome[received] = "result"
      BY <2>4, <2>5, Appended DEF InboundInv, ReportedType
    <2>7. SessionType' /\ OutcomeType' /\ ChannelType' /\ WireType'
      BY <2>1 DEF InboundInv, SessionType, OutcomeType, ChannelType, WireType
    <2>8. WireInv' /\ AnswerBeforeHook'
      BY <2>1 DEF InboundInv, WireInv, AnswerBeforeHook
    <2>9. ServingType'
      BY <2>2
    <2>10. ReportedType'
      BY <2>6 DEF InboundInv, ReportedType
    <2>11. ServingInv'
      BY <2>1, <2>2, <2>3 DEF ServingInv
    <2>12. HookInv'
      BY <2>1, <2>2, <2>3 DEF InboundInv, HookInv, HookDue, Answered
    <2>13. ReadInv'
      BY <2>1, <2>6 DEF InboundInv, ReadInv
    <2>14. ReportedInv'
      BY <2>1, <2>2, <2>3, <2>6 DEF InboundInv, ReportedInv, Frame, Actions
    <2>15. EventsInOrder'
      <3>1. CASE reported' = reported
        BY <2>1, <3>1 DEF InboundInv, EventsInOrder, Told
      <3>2. CASE reported' # reported
        <4> DEFINE e == Frame(serving.action, received)
        <4>1. e.kind = serving.action /\ e.call = received
          BY DEF Frame
        <4>2. \A j \in DOMAIN reported : reported[j] # e
          BY <2>2, <2>3, <4>1 DEF InboundInv, ReportedInv
        <4>3. \E j \in DOMAIN reported : reported[j] = Frame("MessageReceived", e.call)
          BY <2>3, <4>1 DEF InboundInv, ReadInv
        <4>4. QED
          BY <2>1, <2>3, <2>4, <2>5, <3>2, <4>1, <4>2, <4>3, EventAppended
      <3>3. QED
        BY <3>1, <3>2
    <2>16. QED
      BY <2>7, <2>8, <2>9, <2>10, <2>11, <2>12, <2>13, <2>14, <2>15 DEF InboundInv
  <1>7. CASE Answer
    <2>1. UNCHANGED <<received, hooks, reported, outcome, outbound>>
      BY <1>7 DEF Answer, Respond
    <2>2. /\ wsState = "open" /\ serving.at = "answer" /\ serving' = NoServing
          /\ serving.call = received /\ received \in 1..MaxCalls
      BY <1>7 DEF InboundInv, Answer, ServingInv, SessionType
    <2>3. serving'.at = "idle" /\ serving'.call = 0
      BY <2>2 DEF NoServing
    <2>4. \/ wsState' = "open" /\ wire' = wire /\ outcome[received] = "none"
          \/ /\ wsState' = "open"
             /\ wire' = Append(wire, Frame(IF outcome[received] = "result"
                                           THEN "CALLRESULT" ELSE "CALLERROR", received))
          \/ wsState' = "leaving" /\ wire' = wire
      BY <1>7, <2>2 DEF Answer, Respond
    <2>5. PICK f \in InboundFrames : f = Frame(IF outcome[received] = "result"
                                               THEN "CALLRESULT" ELSE "CALLERROR", received)
      <3>1. \A kind \in {"CALLRESULT", "CALLERROR"} : Frame(kind, received) \in InboundFrames
        BY <2>2 DEF Frame, InboundFrames
      <3>2. QED
        BY <3>1
    <2>6. \/ wsState' = "open" /\ wire' = wire /\ outcome[received] = "none"
          \/ wsState' = "leaving" /\ wire' = wire
          \/ /\ wsState' = "open"
             /\ wire' \in Seq(InboundFrames) /\ Len(wire) \in Nat
             /\ DOMAIN wire = 1..Len(wire) /\ DOMAIN wire' = 1..(Len(wire) + 1)
             /\ \A i \in 1..Len(wire) : wire'[i] = wire[i]
             /\ wire'[Len(wire) + 1] = f
      BY <2>4, <2>5, Appended DEF InboundInv, WireType
    <2>7. /\ f.call = received /\ f.kind \in {"CALLRESULT", "CALLERROR"}
          /\ outcome[received] = "result" => f = Frame("CALLRESULT", received)
      BY <2>5 DEF Frame
    <2>8. OutcomeType' /\ ChannelType' /\ ReportedType'
      BY <2>1 DEF InboundInv, OutcomeType, ChannelType, ReportedType
    <2>9. ReadInv'
      BY <2>1 DEF InboundInv, ReadInv
    <2>10. SessionType'
      BY <2>1, <2>6 DEF InboundInv, SessionType
    <2>11. ServingType'
      BY <2>2, InboundAssumption DEF ServingType, NoServing
    <2>12. WireType'
      BY <2>6 DEF InboundInv, WireType
    <2>13. ServingInv'
      BY <2>2, <2>3 DEF ServingInv
    <2>14. HookInv'
      <3>1. ASSUME NEW c, HookDue(c) PROVE HookDue(c)'
        BY <2>1, <2>2, <2>3, <2>6, <2>7, <3>1 DEF HookDue, Answered
      <3>2. QED
        BY <2>1, <3>1 DEF InboundInv, HookInv
    <2>15. ReportedInv'
      BY <2>1, <2>2, <2>3 DEF InboundInv, ReportedInv
    <2>16. WireInv'
      BY <2>1, <2>2, <2>6, <2>7 DEF InboundInv, WireInv
    <2>17. AnswerBeforeHook'
      BY <2>6, <2>7 DEF InboundInv, AnswerBeforeHook
    <2>18. EventsInOrder'
      BY <2>1, <2>2, <2>6, <2>7 DEF InboundInv, EventsInOrder, Told, ReadInv
    <2>19. QED
      BY <2>8, <2>9, <2>10, <2>11, <2>12, <2>13, <2>14, <2>15, <2>16, <2>17, <2>18 DEF InboundInv
  <1>8. ASSUME NEW c \in Calls, RunHook(c) PROVE InboundInv'
    <2>1. UNCHANGED <<wsState, serving, received, wire, reported, outcome>>
      BY <1>8 DEF RunHook
    <2>2. /\ hooks' = hooks \ {c} /\ HookDue(c)
          /\ \/ outbound' = outbound
             \/ outbound' = Append(outbound, Frame("HOOK", c))
      BY <1>8 DEF InboundInv, RunHook, HookInv
    <2>3. Frame("HOOK", c) \in InboundFrames
      BY DEF Frame, InboundFrames, Calls
    <2>4. \/ outbound' = outbound
          \/ /\ outbound' \in Seq(InboundFrames) /\ Len(outbound) \in Nat
             /\ DOMAIN outbound = 1..Len(outbound) /\ DOMAIN outbound' = 1..(Len(outbound) + 1)
             /\ \A i \in 1..Len(outbound) : outbound'[i] = outbound[i]
             /\ outbound'[Len(outbound) + 1] = Frame("HOOK", c)
      BY <2>2, <2>3, Appended DEF InboundInv, ChannelType
    <2>5. SessionType' /\ ServingType' /\ WireType' /\ ReportedType'
      BY <2>1 DEF InboundInv, SessionType, ServingType, WireType, ReportedType
    <2>6. ServingInv' /\ ReadInv' /\ ReportedInv' /\ WireInv' /\ AnswerBeforeHook'
      BY <2>1 DEF InboundInv, ServingInv, ReadInv, ReportedInv, WireInv, AnswerBeforeHook
    <2>7. EventsInOrder'
      BY <2>1 DEF InboundInv, EventsInOrder, Told
    <2>8. OutcomeType'
      BY <2>1, <2>2 DEF InboundInv, OutcomeType
    <2>9. ChannelType'
      BY <2>4 DEF InboundInv, ChannelType
    <2>10. HookInv'
      <3>1. ASSUME NEW d, HookDue(d) PROVE HookDue(d)'
        BY <2>1, <3>1 DEF HookDue, Answered
      <3>2. Frame("HOOK", c).kind = "HOOK" /\ Frame("HOOK", c).call = c
        BY DEF Frame
      <3>3. QED
        BY <2>2, <2>4, <3>1, <3>2 DEF InboundInv, HookInv
    <2>11. QED
      BY <2>5, <2>6, <2>7, <2>8, <2>9, <2>10 DEF InboundInv
  <1>9. CASE SendOutbound
    <2>1. UNCHANGED <<serving, received, hooks, reported, outcome>>
      BY <1>9 DEF SendOutbound
    <2>2. /\ wsState = "open" /\ serving.at = "idle" /\ outbound # <<>>
          /\ outbound' = Tail(outbound)
          /\ \/ wire' = Append(wire, Head(outbound)) /\ wsState' = "open"
             \/ wsState' = "leaving" /\ wire' = wire
      BY <1>9 DEF SendOutbound, Idle, NoServing
    <2>3. /\ outbound' \in Seq(InboundFrames) /\ Head(outbound) \in InboundFrames
          /\ Head(outbound) = outbound[1] /\ 1 \in DOMAIN outbound
          /\ \A k \in DOMAIN outbound' : k + 1 \in DOMAIN outbound /\ outbound'[k] = outbound[k + 1]
      BY <2>2 DEF InboundInv, ChannelType
    <2>4. Head(outbound).kind = "HOOK" /\ Answered(Head(outbound).call)
      BY <2>2, <2>3 DEF InboundInv, HookInv, HookDue
    <2>5. \/ wsState' = "leaving" /\ wire' = wire
          \/ /\ wsState' = "open"
             /\ wire' \in Seq(InboundFrames) /\ Len(wire) \in Nat
             /\ DOMAIN wire = 1..Len(wire) /\ DOMAIN wire' = 1..(Len(wire) + 1)
             /\ \A i \in 1..Len(wire) : wire'[i] = wire[i]
             /\ wire'[Len(wire) + 1] = Head(outbound)
      BY <2>2, <2>3, Appended DEF InboundInv, WireType
    <2>6. ServingType' /\ OutcomeType' /\ ReportedType'
      BY <2>1 DEF InboundInv, ServingType, OutcomeType, ReportedType
    <2>7. ReadInv'
      BY <2>1 DEF InboundInv, ReadInv
    <2>8. SessionType'
      BY <2>1, <2>5 DEF InboundInv, SessionType
    <2>9. ChannelType'
      BY <2>3 DEF ChannelType
    <2>10. WireType'
      BY <2>5 DEF InboundInv, WireType
    <2>11. ServingInv'
      BY <2>1, <2>2 DEF InboundInv, ServingInv
    <2>12. HookInv'
      <3>1. ASSUME NEW d, HookDue(d) PROVE HookDue(d)'
        BY <2>1, <2>2, <2>5, <3>1 DEF HookDue, Answered
      <3>2. QED
        BY <2>1, <2>3, <3>1 DEF InboundInv, HookInv
    <2>13. ReportedInv'
      BY <2>1, <2>2 DEF InboundInv, ReportedInv
    <2>14. WireInv'
      BY <2>1, <2>4, <2>5 DEF InboundInv, WireInv
    <2>15. AnswerBeforeHook'
      <3>1. CASE wire' = wire
        BY <3>1 DEF InboundInv, AnswerBeforeHook
      <3>2. CASE wire' # wire
        <4>1. \A i \in 1..Len(wire) : wire'[i] = wire[i] /\ wire[i] \in InboundFrames
          BY <2>5, <3>2 DEF InboundInv, WireType
        <4>2. DOMAIN wire' = 1..(Len(wire) + 1) /\ wire'[Len(wire) + 1] = Head(outbound)
              /\ DOMAIN wire = 1..Len(wire) /\ Len(wire) \in Nat
          BY <2>5, <3>2
        <4>3. QED
          BY <2>4, <4>1, <4>2 DEF InboundInv, AnswerBeforeHook, Answered
      <3>3. QED
        BY <3>1, <3>2
    <2>16. EventsInOrder'
      BY <2>1, <2>4, <2>5 DEF InboundInv, EventsInOrder, Told
    <2>17. QED
      BY <2>6, <2>7, <2>8, <2>9, <2>10, <2>11, <2>12, <2>13, <2>14, <2>15, <2>16 DEF InboundInv
  <1>10. CASE LeaveLoop
    <2>1. UNCHANGED <<serving, received, hooks, outbound, wire, reported, outcome>>
      BY <1>10 DEF LeaveLoop
    <2>2. wsState = "open" /\ wsState' = "leaving" /\ serving.at = "idle"
      BY <1>10 DEF LeaveLoop, Idle, NoServing
    <2>3. ServingType' /\ OutcomeType' /\ ChannelType' /\ WireType' /\ ReportedType'
      BY <2>1 DEF InboundInv, ServingType, OutcomeType, ChannelType, WireType, ReportedType
    <2>4. ReadInv' /\ WireInv' /\ AnswerBeforeHook'
      BY <2>1 DEF InboundInv, ReadInv, WireInv, AnswerBeforeHook
    <2>5. EventsInOrder'
      BY <2>1 DEF InboundInv, EventsInOrder, Told
    <2>6. SessionType'
      BY <2>1, <2>2 DEF InboundInv, SessionType
    <2>7. ServingInv'
      BY <2>1, <2>2 DEF InboundInv, ServingInv
    <2>8. HookInv'
      BY <2>1, <2>2 DEF InboundInv, HookInv, HookDue, Answered
    <2>9. ReportedInv'
      BY <2>1, <2>2 DEF InboundInv, ReportedInv
    <2>10. QED
      BY <2>3, <2>4, <2>5, <2>6, <2>7, <2>8, <2>9 DEF InboundInv
  <1>11. CASE Teardown
    <2>1. UNCHANGED <<serving, received, hooks, outbound, wire, outcome>>
      BY <1>11 DEF Teardown
    <2>2. /\ wsState = "leaving" /\ wsState' = "over"
          /\ reported' = Append(reported, Frame("Disconnected", 0))
      BY <1>11 DEF Teardown
    <2>3. serving.at = "idle"
      BY <2>2 DEF InboundInv, ServingInv
    <2>4. Frame("Disconnected", 0) \in InboundFrames
      BY InboundAssumption DEF Frame, InboundFrames
    <2>5. /\ reported' \in Seq(InboundFrames) /\ Len(reported) \in Nat
          /\ DOMAIN reported = 1..Len(reported) /\ DOMAIN reported' = 1..(Len(reported) + 1)
          /\ Len(reported') = Len(reported) + 1
          /\ \A i \in 1..Len(reported) : reported'[i] = reported[i]
          /\ reported'[Len(reported) + 1] = Frame("Disconnected", 0)
      BY <2>2, <2>4, Appended DEF InboundInv, ReportedType
    <2>6. ServingType' /\ OutcomeType' /\ ChannelType' /\ WireType'
      BY <2>1 DEF InboundInv, ServingType, OutcomeType, ChannelType, WireType
    <2>7. WireInv' /\ AnswerBeforeHook'
      BY <2>1 DEF InboundInv, WireInv, AnswerBeforeHook
    <2>8. SessionType'
      BY <2>1, <2>2 DEF InboundInv, SessionType
    <2>9. ReportedType'
      BY <2>5 DEF ReportedType
    <2>10. ServingInv'
      BY <2>1, <2>2, <2>3 DEF InboundInv, ServingInv
    <2>11. HookInv'
      BY <2>1, <2>2 DEF InboundInv, HookInv, HookDue, Answered
    <2>12. ReadInv'
      BY <2>1, <2>5 DEF InboundInv, ReadInv
    <2>13. ReportedInv'
      BY <2>1, <2>2, <2>5 DEF InboundInv, ReportedInv, Frame, Actions
    <2>14. EventsInOrder'
      <3>1. Frame("Disconnected", 0).kind = "Disconnected"
        BY DEF Frame
      <3>2. QED
        BY <2>1, <2>2, <2>4, <3>1, EventAppended DEF Actions
    <2>15. QED
      BY <2>6, <2>7, <2>8, <2>9, <2>10, <2>11, <2>12, <2>13, <2>14 DEF InboundInv
  <1>12. QED
    BY <1>1, <1>2, <1>4, <1>5, <1>6, <1>7, <1>8, <1>9, <1>10, <1>11 DEF InboundNext

\* The CALL of an after-hook follows the CALLRESULT of the CALL it hooks on.
THEOREM AnswerBeforeHookHolds == InboundSpec => []AnswerBeforeHook
  <1>1. InboundInv => AnswerBeforeHook
    BY DEF InboundInv
  <1>2. QED
    BY <1>1, InboundInitInv, InboundStepInv, PTL DEF InboundSpec

\* What is known of the CALL being served: its request is on record, and once the loop
\* turns to the answer, the event that its outcome calls for is out.
RequestInv ==
    /\ DOMAIN requests = Calls
    /\ serving.at # "idle" => /\ requests[serving.call].action = serving.action
                              /\ requests[serving.call].decodes = serving.decodes

EmittedInv ==
    serving.at = "answer" /\ Surfaces(serving) => Told(serving.action, serving.call)

\* Nothing reported is taken back.
LEMMA ToldStays ==
  ASSUME InboundInv, NEW e \in InboundFrames, NEW kind, NEW c, Told(kind, c),
         reported' = Append(reported, e)
  PROVE  Told(kind, c)'
  <1>1. PICK j \in DOMAIN reported : reported[j] = Frame(kind, c)
    BY DEF Told
  <1>2. /\ Len(reported) \in Nat
        /\ DOMAIN reported = 1..Len(reported) /\ DOMAIN reported' = 1..(Len(reported) + 1)
        /\ \A k \in 1..Len(reported) : reported'[k] = reported[k]
    BY Appended DEF InboundInv, ReportedType
  <1>3. j \in DOMAIN reported' /\ reported'[j] = Frame(kind, c)
    BY <1>1, <1>2
  <1> QED BY <1>3 DEF Told

\* An answer of a CALL served keeps the order of answers and events, if it is the
\* event's turn no more.
LEMMA EmittedStepInv ==
  ASSUME InboundInv, RequestInv, EmittedInv, AnswersFollowEvents, [InboundNext]_inboundVars
  PROVE  RequestInv' /\ EmittedInv' /\ AnswersFollowEvents'
  <1> USE InboundAssumption
  <1>1. CASE UNCHANGED inboundVars
    BY <1>1 DEF inboundVars, RequestInv, EmittedInv, AnswersFollowEvents, Surfaces, Told
  <1>2. ASSUME NEW action \in Actions, NEW decodes \in BOOLEAN, ReadCall(action, decodes)
        PROVE  RequestInv' /\ EmittedInv' /\ AnswersFollowEvents'
    <2>1. PICK n \in Calls : n = received + 1 /\ received' = n
      BY <1>2 DEF InboundInv, SessionType, ReadCall, Calls
    <2>2. /\ requests' = [requests EXCEPT ![n] = [action |-> action, decodes |-> decodes]]
          /\ serving'.call = n /\ serving'.action = action /\ serving'.decodes = decodes
          /\ serving'.at = "dispatch"
          /\ reported' = Append(reported, Frame("MessageReceived", n))
          /\ wire' = wire
      BY <1>2, <2>1 DEF ReadCall
    <2>3. RequestInv' /\ EmittedInv'
      BY <2>2 DEF RequestInv, EmittedInv
    <2>4. Frame("MessageReceived", n) \in InboundFrames
      <3>1. n \in 0..MaxCalls
        BY DEF Calls
      <3> QED BY <3>1 DEF Frame, InboundFrames
    <2>5. ASSUME NEW i \in DOMAIN wire, wire[i].kind = "CALLRESULT",
                 requests'[wire[i].call].action # "Other", requests'[wire[i].call].decodes
          PROVE  \E j \in DOMAIN reported' :
                    reported'[j] = Frame(requests'[wire[i].call].action, wire[i].call)
      <3>1. PICK c : c = wire[i].call /\ c \in 1..received
        BY <2>5 DEF InboundInv, WireInv
      <3>2. c # n /\ c \in Calls
        BY <2>1, <3>1 DEF InboundInv, SessionType, Calls
      <3>3. requests'[c] = requests[c]
        BY <2>2, <3>2 DEF RequestInv
      <3>4. Told(requests[c].action, c)
        BY <2>5, <3>1, <3>3 DEF AnswersFollowEvents
      <3>5. PICK kind : kind = requests[c].action
        OBVIOUS
      <3>6. \E j \in DOMAIN reported' : reported'[j] = Frame(kind, c)
        <4>1. PICK e \in InboundFrames : reported' = Append(reported, e)
          BY <2>2, <2>4
        <4>2. Told(kind, c)'
          BY <3>4, <3>5, <4>1, ToldStays
        <4> QED BY <4>2 DEF Told
      <3> QED BY <3>1, <3>3, <3>5, <3>6
    <2> QED BY <2>2, <2>3, <2>5 DEF AnswersFollowEvents, Told
  <1>3. ASSUME serving' = [serving EXCEPT !.at = "report"], serving.at = "dispatch",
               UNCHANGED <<requests, wire, reported>>
        PROVE  RequestInv' /\ EmittedInv' /\ AnswersFollowEvents'
    <2>1. /\ serving'.at = "report" /\ serving'.call = serving.call
          /\ serving'.action = serving.action /\ serving'.decodes = serving.decodes
      BY <1>3 DEF InboundInv, ServingType
    <2> QED BY <1>3, <2>1 DEF RequestInv, EmittedInv, AnswersFollowEvents, Told
  <1>4. CASE Dispatch
    BY <1>3, <1>4 DEF Dispatch
  <1>5. ASSUME NEW answer \in Bespoke, HandleMessage(answer)
        PROVE  RequestInv' /\ EmittedInv' /\ AnswersFollowEvents'
    BY <1>3, <1>5 DEF HandleMessage
  <1>6. CASE EmitEvents
    <2>1. /\ serving.at = "report" /\ serving'.at = "answer" /\ serving'.call = serving.call
          /\ serving'.action = serving.action /\ serving'.decodes = serving.decodes
          /\ UNCHANGED <<requests, wire, outcome>>
          /\ reported' = IF Surfaces(serving)
                         THEN Append(reported, Frame(serving.action, serving.call)) ELSE reported
      BY <1>6 DEF InboundInv, ServingType, EmitEvents
    <2>2. Surfaces(serving)' = Surfaces(serving)
      BY <2>1 DEF Surfaces
    <2>3. RequestInv'
      BY <2>1 DEF RequestInv
    <2>4. PICK e \in InboundFrames : e = Frame(serving.action, serving.call)
      BY <2>1 DEF InboundInv, ServingInv, ServingType, Frame, InboundFrames
    <2>5. CASE Surfaces(serving)
      <3>1. reported' = Append(reported, e)
        BY <2>1, <2>4, <2>5
      <3>2. /\ Len(reported) \in Nat
            /\ DOMAIN reported' = 1..(Len(reported) + 1)
            /\ reported'[Len(reported) + 1] = e
        BY <3>1, Appended DEF InboundInv, ReportedType
      <3>3. Told(serving.action, serving.call)'
        BY <2>1, <2>4, <3>2 DEF Told
      <3>4. EmittedInv'
        BY <3>3 DEF EmittedInv
      <3>5. ASSUME NEW i \in DOMAIN wire, wire[i].kind = "CALLRESULT",
                   requests[wire[i].call].action # "Other", requests[wire[i].call].decodes
            PROVE  Told(requests[wire[i].call].action, wire[i].call)'
        <4>1. PICK kind, c : kind = requests[wire[i].call].action /\ c = wire[i].call
          OBVIOUS
        <4>2. Told(kind, c)
          BY <3>5, <4>1 DEF AnswersFollowEvents
        <4>3. Told(kind, c)'
          BY <3>1, <4>2, ToldStays
        <4> QED BY <2>1, <4>1, <4>3 DEF Told
      <3>6. AnswersFollowEvents'
        BY <2>1, <3>5 DEF AnswersFollowEvents, Told
      <3> QED BY <2>3, <3>4, <3>6
    <2>6. CASE ~Surfaces(serving)
      <3>1. reported' = reported
        BY <2>1, <2>6
      <3> QED BY <2>1, <2>2, <2>3, <2>6, <3>1 DEF EmittedInv, AnswersFollowEvents, Told
    <2> QED BY <2>5, <2>6
  <1>7. CASE Answer
    <2>1. /\ serving.at = "answer" /\ serving'.at = "idle"
          /\ UNCHANGED <<requests, reported, outcome>>
      BY <1>7 DEF Answer, NoServing
    <2>2. RequestInv' /\ EmittedInv'
      BY <2>1 DEF RequestInv, EmittedInv
    <2>3. PICK f : f = Frame(IF outcome[serving.call] = "result" THEN "CALLRESULT" ELSE "CALLERROR",
                             serving.call)
      OBVIOUS
    <2>4. f.call = serving.call /\ (f.kind = "CALLRESULT" => outcome[serving.call] = "result")
      BY <2>3 DEF Frame
    <2>5. wire' = wire \/ wire' = Append(wire, f)
      BY <1>7, <2>3 DEF Answer, Respond
    <2>6. f \in InboundFrames
      <3>1. serving.call \in 0..MaxCalls
        BY DEF InboundInv, ServingType
      <3>2. \A kind \in {"CALLRESULT", "CALLERROR"} : Frame(kind, serving.call) \in InboundFrames
        BY <3>1 DEF Frame, InboundFrames
      <3> QED BY <2>3, <3>2
    <2>7. /\ f.kind = "CALLRESULT" /\ requests[f.call].action # "Other" /\ requests[f.call].decodes
          => Told(requests[f.call].action, f.call)
      <3>1. /\ requests[f.call].action = serving.action
            /\ requests[f.call].decodes = serving.decodes
        BY <2>1, <2>4 DEF RequestInv
      <3>2. SUFFICES ASSUME f.kind = "CALLRESULT", serving.action # "Other", serving.decodes
                     PROVE  Told(serving.action, serving.call)
        BY <2>4, <3>1
      <3>3. Surfaces(serving)
        BY <2>4, <3>2 DEF Surfaces
      <3> QED BY <2>1, <3>3 DEF EmittedInv
    <2>8. ASSUME NEW i \in DOMAIN wire'
          PROVE  \/ i \in DOMAIN wire /\ wire'[i] = wire[i]
                 \/ wire'[i] = f
      <3>1. CASE wire' = wire
        BY <2>8, <3>1
      <3>2. CASE wire' = Append(wire, f)
        <4>1. /\ Len(wire) \in Nat
              /\ DOMAIN wire = 1..Len(wire) /\ DOMAIN wire' = 1..(Len(wire) + 1)
              /\ \A k \in 1..Len(wire) : wire'[k] = wire[k]
              /\ wire'[Len(wire) + 1] = f
          BY <2>6, <3>2, Appended DEF InboundInv, WireType
        <4> QED BY <2>8, <4>1
      <3> QED BY <2>5, <3>1, <3>2
    <2>9. AnswersFollowEvents'
      BY <2>1, <2>7, <2>8 DEF AnswersFollowEvents, Told
    <2> QED BY <2>2, <2>9
  <1>8. ASSUME NEW c \in Calls, RunHook(c) PROVE RequestInv' /\ EmittedInv' /\ AnswersFollowEvents'
    BY <1>8 DEF RunHook, RequestInv, EmittedInv, AnswersFollowEvents, Surfaces, Told
  <1>9. CASE SendOutbound
    <2>1. UNCHANGED <<serving, requests, reported, outcome>>
      BY <1>9 DEF SendOutbound
    <2>2. RequestInv' /\ EmittedInv'
      BY <2>1 DEF RequestInv, EmittedInv, Surfaces, Told
    <2>3. Head(outbound) \in InboundFrames /\ Head(outbound).kind = "HOOK"
      BY <1>9 DEF SendOutbound, InboundInv, ChannelType, HookInv
    <2>4. wire' = wire \/ wire' = Append(wire, Head(outbound))
      BY <1>9 DEF SendOutbound
    <2>5. ASSUME NEW i \in DOMAIN wire', wire'[i].kind # "HOOK"
          PROVE  i \in DOMAIN wire /\ wire'[i] = wire[i]
      <3>1. CASE wire' = wire
        BY <2>5, <3>1
      <3>2. CASE wire' = Append(wire, Head(outbound))
        <4>1. /\ Len(wire) \in Nat
              /\ DOMAIN wire = 1..Len(wire) /\ DOMAIN wire' = 1..(Len(wire) + 1)
              /\ \A k \in 1..Len(wire) : wire'[k] = wire[k]
              /\ wire'[Len(wire) + 1] = Head(outbound)
          BY <2>3, <3>2, Appended DEF InboundInv, WireType
        <4> QED BY <2>3, <2>5, <4>1
      <3> QED BY <2>4, <3>1, <3>2
    <2>6. AnswersFollowEvents'
      BY <2>1, <2>5 DEF AnswersFollowEvents, Told
    <2> QED BY <2>2, <2>6
  <1>10. CASE LeaveLoop
    BY <1>10 DEF LeaveLoop, RequestInv, EmittedInv, AnswersFollowEvents, Surfaces, Told
  <1>11. CASE Teardown
    <2>1. /\ UNCHANGED <<serving, requests, wire, outcome>> /\ wsState = "leaving"
          /\ reported' = Append(reported, Frame("Disconnected", 0))
      BY <1>11 DEF Teardown
    <2>2. serving.at = "idle"
      BY <2>1 DEF InboundInv, ServingInv
    <2>3. RequestInv' /\ EmittedInv'
      BY <2>1, <2>2 DEF RequestInv, EmittedInv
    <2>4. PICK e \in InboundFrames : e = Frame("Disconnected", 0)
      <3>1. Frame("Disconnected", 0) \in InboundFrames
        BY DEF Frame, InboundFrames
      <3> QED BY <3>1
    <2>5. ASSUME NEW i \in DOMAIN wire, wire[i].kind = "CALLRESULT",
                 requests[wire[i].call].action # "Other", requests[wire[i].call].decodes
          PROVE  Told(requests[wire[i].call].action, wire[i].call)'
      <3>1. PICK kind, c : kind = requests[wire[i].call].action /\ c = wire[i].call
        OBVIOUS
      <3>2. Told(kind, c)
        BY <2>5, <3>1 DEF AnswersFollowEvents
      <3>3. Told(kind, c)'
        BY <2>1, <2>4, <3>2, ToldStays
      <3> QED BY <2>1, <3>1, <3>3 DEF Told
    <2> QED BY <2>1, <2>3, <2>5 DEF AnswersFollowEvents, Told
  <1> QED BY <1>1, <1>2, <1>4, <1>5, <1>6, <1>7, <1>8, <1>9, <1>10, <1>11 DEF InboundNext

\* A Start or Boot event stands for a CALL the handler accepted, follows its raw frame
\* and comes once; nothing follows Disconnected; and once a CALLRESULT is written, the
\* raw frame and the status, transaction or boot event of its CALL have been reported.
THEOREM EventsAreTruthfulHolds == InboundSpec => []EventsAreTruthful
  <1>1. InboundInit => RequestInv /\ EmittedInv /\ AnswersFollowEvents
    <2> SUFFICES ASSUME InboundInit PROVE RequestInv /\ EmittedInv /\ AnswersFollowEvents
      OBVIOUS
    <2>1. serving.at = "idle"
      BY DEF InboundInit, NoServing
    <2>2. DOMAIN requests = Calls
      BY DEF InboundInit
    <2>3. wire = <<>>
      BY DEF InboundInit
    <2>4. DOMAIN wire = {}
      BY <2>3
    <2> QED BY <2>1, <2>2, <2>4 DEF RequestInv, EmittedInv, AnswersFollowEvents
  <1>2. InboundInv /\ RequestInv /\ EmittedInv /\ AnswersFollowEvents /\ [InboundNext]_inboundVars
        => (RequestInv /\ EmittedInv /\ AnswersFollowEvents)'
    BY EmittedStepInv
  <1>3. InboundInv /\ AnswersFollowEvents => EventsAreTruthful
    BY DEF InboundInv, EventsAreTruthful
  <1> QED
    BY <1>1, <1>2, <1>3, InboundInitInv, InboundStepInv, PTL DEF InboundSpec

\* The session, its counter of CALLs and the outcomes keep their types.
THEOREM InboundTypeCorrect == InboundSpec => []InboundTypeOK
  <1>1. InboundInv => InboundTypeOK
    BY DEF InboundInv, SessionType, OutcomeType, InboundTypeOK
  <1>2. QED
    BY <1>1, InboundInitInv, InboundStepInv, PTL DEF InboundSpec

(* StationLink, for any number of operations and retries.  What an operation
   still has to do is one of finitely many plans.  The argument is about the
   plans that will start a heartbeat without a quiesce before it (Boots): while
   one is under way no heartbeat runs. *)

(* The plans.  Establishing a session and booting: *)
OpenOn == EstablishSession
InstallOn == <<"install", "flag", "boot">>
FlagOn == <<"flag", "boot">>
BootOn == <<"boot">>
AnswerOn == <<"answer">>
AnnounceOn == <<"announce", "beat">>
BeatOn == <<"beat">>

(* the resets: *)
SoftReset == <<"quiesce", "boot">>
HardReset == <<"quiesce", "close", "down", "open", "install", "flag", "boot">>
CloseAndOpen == <<"close", "down", "open", "install", "flag", "boot">>
DownAndOpen == <<"down", "open", "install", "flag", "boot">>

(* and the ends: *)
DownOn == <<"down">>
StopAll == <<"quiesce", "kill", "close", "down", "unavailable">>
KillOn == <<"kill", "close", "down", "unavailable">>
CloseForGood == <<"close", "down", "unavailable">>
DownForGood == <<"down", "unavailable">>
UnavailableOn == <<"unavailable">>

ToBoot == {OpenOn, InstallOn, FlagOn, BootOn, CloseAndOpen, DownAndOpen}
Boots == ToBoot \cup {AnswerOn, AnnounceOn, BeatOn}
Ends == {<<>>, Disconnect, DownOn, StopAll, KillOn, CloseForGood, DownForGood, UnavailableOn}
Plans == Boots \cup {SoftReset, HardReset} \cup Ends

(* The invariant *)

PlanType == plan \in [Tasks -> Plans]
ClashType == clash \in BOOLEAN
ResetsType == resets \in Seq(Resets)

\* boot_sequence counts its BootNotifications.
AttemptInv ==
    /\ attempt \in [Tasks -> Nat]
    /\ \A t \in Tasks : /\ attempt[t] <= MaxBootRetries + 1
                        /\ plan[t] \in ToBoot \cup {SoftReset, HardReset} =>
                              attempt[t] <= MaxBootRetries

\* Without a clash one operation runs at a time,
AloneInv == ~clash => plan["app"] = <<>> \/ (plan["consumer"] = <<>> /\ resets = <<>>)

\* on the way to a heartbeat none runs,
DryInv == ~clash => \A t \in Tasks : plan[t] \in Boots => beats = {}

\* the boot is welcome from its answer on, and while a heartbeat runs.
WelcomeInv ==
    ~clash => /\ \A t \in Tasks : plan[t] \in {AnnounceOn, BeatOn} => welcome
              /\ beats # {} => welcome

IInv ==
    /\ PlanType /\ ClashType /\ ResetsType /\ AttemptInv /\ AloneInv /\ DryInv /\ WelcomeInv
    /\ OneHeartbeat /\ HeartbeatsAfterBoot
-----------------------------------------------------------------------------
(* What is left of a plan *)

Steps == {"open", "install", "flag", "boot", "close", "down", "quiesce", "kill", "unavailable"}

\* Concatenation, position by position: what names the joined plans below.
LEMMA Join ==
    ASSUME NEW S, NEW s \in Seq(S), NEW t \in Seq(S), NEW u \in Seq(S),
           Len(u) = Len(s) + Len(t),
           \A i \in 1..Len(u) : u[i] = IF i <= Len(s) THEN s[i] ELSE t[i - Len(s)]
    PROVE  s \o t = u
  <1>1. /\ s \o t \in Seq(S) /\ Len(s \o t) = Len(u)
        /\ \A i \in 1..Len(s \o t) : (s \o t)[i] = u[i]
    BY ConcatProperties
  <1>2. QED
    BY <1>1, SeqEqual

\* The plan of `stop` up to its disconnect.
LEMMA Whole_KillDisconnect ==
    <<"quiesce", "kill">> \o <<"close", "down">> =
        <<"quiesce", "kill", "close", "down">>
  <1>1. PICK s, t, u : s = <<"quiesce", "kill">> /\ t = <<"close", "down">>
                       /\ u = <<"quiesce", "kill", "close", "down">>
    OBVIOUS
  <1>2. s \in Seq(Steps) /\ t \in Seq(Steps) /\ u \in Seq(Steps)
    BY <1>1 DEF Steps
  <1>3. Len(s) = 2 /\ Len(t) = 2 /\ Len(u) = 4
    BY <1>1
  <1>4. Len(u) = Len(s) + Len(t)
    BY <1>3
  <1>5. \A i \in 1..Len(u) : u[i] = IF i <= Len(s) THEN s[i] ELSE t[i - Len(s)]
    <2>1. \A i \in 1..4 : i = 1 \/ i = 2 \/ i = 3 \/ i = 4
      OBVIOUS
    <2>2. QED
      BY <1>1, <1>3, <2>1
  <1>6. s \o t = u
    BY <1>2, <1>4, <1>5, Join, Zenon
  <1>7. QED
    BY <1>1, <1>6

\* The whole plan of `stop`.
LEMMA Whole_Stop ==
    <<"quiesce", "kill", "close", "down">> \o <<"unavailable">> =
        <<"quiesce", "kill", "close", "down", "unavailable">>
  <1>1. PICK s, t, u : s = <<"quiesce", "kill", "close", "down">> /\ t = <<"unavailable">>
                       /\ u = <<"quiesce", "kill", "close", "down", "unavailable">>
    OBVIOUS
  <1>2. s \in Seq(Steps) /\ t \in Seq(Steps) /\ u \in Seq(Steps)
    BY <1>1 DEF Steps
  <1>3. Len(s) = 4 /\ Len(t) = 1 /\ Len(u) = 5
    BY <1>1
  <1>4. Len(u) = Len(s) + Len(t)
    BY <1>3
  <1>5. \A i \in 1..Len(u) : u[i] = IF i <= Len(s) THEN s[i] ELSE t[i - Len(s)]
    <2>1. \A i \in 1..5 : i = 1 \/ i = 2 \/ i = 3 \/ i = 4 \/ i = 5
      OBVIOUS
    <2>2. QED
      BY <1>1, <1>3, <2>1
  <1>6. s \o t = u
    BY <1>2, <1>4, <1>5, Join, Zenon
  <1>7. QED
    BY <1>1, <1>6

\* The whole plan of a Soft reset.
LEMMA Whole_Soft ==
    <<"quiesce">> \o <<"boot">> =
        <<"quiesce", "boot">>
  <1>1. PICK s, t, u : s = <<"quiesce">> /\ t = <<"boot">>
                       /\ u = <<"quiesce", "boot">>
    OBVIOUS
  <1>2. s \in Seq(Steps) /\ t \in Seq(Steps) /\ u \in Seq(Steps)
    BY <1>1 DEF Steps
  <1>3. Len(s) = 1 /\ Len(t) = 1 /\ Len(u) = 2
    BY <1>1
  <1>4. Len(u) = Len(s) + Len(t)
    BY <1>3
  <1>5. \A i \in 1..Len(u) : u[i] = IF i <= Len(s) THEN s[i] ELSE t[i - Len(s)]
    <2>1. \A i \in 1..2 : i = 1 \/ i = 2
      OBVIOUS
    <2>2. QED
      BY <1>1, <1>3, <2>1
  <1>6. s \o t = u
    BY <1>2, <1>4, <1>5, Join, Zenon
  <1>7. QED
    BY <1>1, <1>6

\* A disconnect followed by a new session.
LEMMA Whole_Reopen ==
    <<"close", "down">> \o <<"open", "install", "flag", "boot">> =
        <<"close", "down", "open", "install", "flag", "boot">>
  <1>1. PICK s, t, u : s = <<"close", "down">> /\ t = <<"open", "install", "flag", "boot">>
                       /\ u = <<"close", "down", "open", "install", "flag", "boot">>
    OBVIOUS
  <1>2. s \in Seq(Steps) /\ t \in Seq(Steps) /\ u \in Seq(Steps)
    BY <1>1 DEF Steps
  <1>3. Len(s) = 2 /\ Len(t) = 4 /\ Len(u) = 6
    BY <1>1
  <1>4. Len(u) = Len(s) + Len(t)
    BY <1>3
  <1>5. \A i \in 1..Len(u) : u[i] = IF i <= Len(s) THEN s[i] ELSE t[i - Len(s)]
    <2>1. \A i \in 1..6 : i = 1 \/ i = 2 \/ i = 3 \/ i = 4 \/ i = 5 \/ i = 6
      OBVIOUS
    <2>2. QED
      BY <1>1, <1>3, <2>1
  <1>6. s \o t = u
    BY <1>2, <1>4, <1>5, Join, Zenon
  <1>7. QED
    BY <1>1, <1>6

\* The whole plan of a Hard reset.
LEMMA Whole_Hard ==
    <<"quiesce">> \o <<"close", "down", "open", "install", "flag", "boot">> =
        <<"quiesce", "close", "down", "open", "install", "flag", "boot">>
  <1>1. PICK s, t, u : s = <<"quiesce">> /\ t = <<"close", "down", "open", "install", "flag", "boot">>
                       /\ u = <<"quiesce", "close", "down", "open", "install", "flag", "boot">>
    OBVIOUS
  <1>2. s \in Seq(Steps) /\ t \in Seq(Steps) /\ u \in Seq(Steps)
    BY <1>1 DEF Steps
  <1>3. Len(s) = 1 /\ Len(t) = 6 /\ Len(u) = 7
    BY <1>1
  <1>4. Len(u) = Len(s) + Len(t)
    BY <1>3
  <1>5. \A i \in 1..Len(u) : u[i] = IF i <= Len(s) THEN s[i] ELSE t[i - Len(s)]
    <2>1. \A i \in 1..7 : i = 1 \/ i = 2 \/ i = 3 \/ i = 4 \/ i = 5 \/ i = 6 \/ i = 7
      OBVIOUS
    <2>2. QED
      BY <1>1, <1>3, <2>1
  <1>6. s \o t = u
    BY <1>2, <1>4, <1>5, Join, Zenon
  <1>7. QED
    BY <1>1, <1>6

\* The plans an operation begins with are the ones the invariant speaks of.
LEMMA Whole ==
    /\ Stop = StopAll
    /\ \A kind \in Resets : Reset(kind) \in {SoftReset, HardReset}
  <1>1. Stop = StopAll
    BY Whole_KillDisconnect, Whole_Stop DEF Stop, Disconnect, StopAll
  <1>2. Reset("Soft") = SoftReset
    BY Whole_Soft DEF Reset, SoftReset
  <1>3. Reset("Hard") = HardReset
    BY Whole_Reopen, Whole_Hard DEF Reset, Disconnect, EstablishSession, HardReset
  <1>4. QED
    BY <1>1, <1>2, <1>3 DEF Resets

\* The plans by their first step, and what they leave.
LEMMA FirstOfBoots ==
    /\ Head(OpenOn) = "open" /\ Tail(OpenOn) = InstallOn
    /\ Head(InstallOn) = "install" /\ Tail(InstallOn) = FlagOn
    /\ Head(FlagOn) = "flag" /\ Tail(FlagOn) = BootOn
    /\ Head(BootOn) = "boot" /\ Tail(BootOn) = <<>>
    /\ Head(AnswerOn) = "answer" /\ Tail(AnswerOn) = <<>>
    /\ Head(AnnounceOn) = "announce" /\ Tail(AnnounceOn) = BeatOn
    /\ Head(BeatOn) = "beat" /\ Tail(BeatOn) = <<>>
    /\ Head(CloseAndOpen) = "close" /\ Tail(CloseAndOpen) = DownAndOpen
    /\ Head(DownAndOpen) = "down" /\ Tail(DownAndOpen) = OpenOn
  BY DEF OpenOn, EstablishSession, InstallOn, FlagOn, BootOn, AnswerOn, AnnounceOn, BeatOn,
     CloseAndOpen, DownAndOpen

\* The first step of a reset, and what is left after it.
LEMMA FirstOfResets ==
    /\ Head(SoftReset) = "quiesce" /\ Tail(SoftReset) = BootOn
    /\ Head(HardReset) = "quiesce" /\ Tail(HardReset) = CloseAndOpen
  BY DEF SoftReset, HardReset, BootOn, CloseAndOpen

\* The steps of `disconnect` and `stop`, and what is left after each.
LEMMA FirstOfEnds ==
    /\ Head(Disconnect) = "close" /\ Tail(Disconnect) = DownOn
    /\ Head(DownOn) = "down" /\ Tail(DownOn) = <<>>
    /\ Head(StopAll) = "quiesce" /\ Tail(StopAll) = KillOn
    /\ Head(KillOn) = "kill" /\ Tail(KillOn) = CloseForGood
    /\ Head(CloseForGood) = "close" /\ Tail(CloseForGood) = DownForGood
    /\ Head(DownForGood) = "down" /\ Tail(DownForGood) = UnavailableOn
    /\ Head(UnavailableOn) = "unavailable" /\ Tail(UnavailableOn) = <<>>
  BY DEF Disconnect, DownOn, StopAll, KillOn, CloseForGood, DownForGood, UnavailableOn

\* The groups of plans exclude each other.
LEMMA Groups ==
    /\ AnswerOn \notin ToBoot \cup {SoftReset, HardReset, AnnounceOn, BeatOn}
    /\ {AnnounceOn, BeatOn} \cap (ToBoot \cup {SoftReset, HardReset}) = {}
    /\ {SoftReset, HardReset} \cap Boots = {}
    /\ Ends \cap (Boots \cup {SoftReset, HardReset}) = {}
  BY DEF Boots, ToBoot, Ends, SoftReset, HardReset, OpenOn, EstablishSession, InstallOn, FlagOn,
     BootOn, AnswerOn, AnnounceOn, BeatOn, CloseAndOpen, DownAndOpen, Disconnect, DownOn, StopAll,
     KillOn, CloseForGood, DownForGood, UnavailableOn

\* A plan by its first step.
LEMMA ByHead ==
    ASSUME NEW p \in Plans, p # <<>>
    PROVE  /\ Head(p) \in {"open", "install", "flag", "down", "close"} =>
                 \/ p \in ToBoot /\ Tail(p) \in ToBoot
                 \/ p \in Ends /\ Tail(p) \in Ends
           /\ Head(p) = "boot" => p = BootOn
           /\ Head(p) = "answer" => p = AnswerOn
           /\ Head(p) = "announce" => p = AnnounceOn
           /\ Head(p) = "beat" => p = BeatOn
           /\ Head(p) = "quiesce" => \/ p \in {SoftReset, HardReset} /\ Tail(p) \in ToBoot
                                     \/ p \in Ends /\ Tail(p) \in Ends
           /\ Head(p) \in {"kill", "unavailable"} => p \in Ends /\ Tail(p) \in Ends
  <1>1. CASE p \in Boots
    BY <1>1, FirstOfBoots DEF Boots, ToBoot
  <1>2. CASE p \in {SoftReset, HardReset}
    BY <1>2, FirstOfResets DEF ToBoot
  <1>3. CASE p \in Ends
    BY <1>3, FirstOfEnds DEF Ends
  <1>4. QED
    BY <1>1, <1>2, <1>3 DEF Plans

-----------------------------------------------------------------------------
\* A station that has not been started runs no operation and no heartbeat.
LEMMA InitInv == Init => IInv
  <1> SUFFICES ASSUME Init PROVE IInv
    OBVIOUS
  <1>1. <<>> \in Ends /\ <<>> \in Plans
    BY DEF Ends, Plans
  <1>2. /\ PlanType /\ ClashType /\ ResetsType /\ AloneInv /\ OneHeartbeat /\ HeartbeatsAfterBoot
    <2>1. PlanType
      BY <1>1 DEF Init, PlanType
    <2>2. ClashType /\ OneHeartbeat /\ HeartbeatsAfterBoot
      BY DEF Init, ClashType, OneHeartbeat, HeartbeatsAfterBoot
    <2>3. ResetsType
      BY DEF Init, ResetsType
    <2>4. AloneInv
      BY DEF Init, AloneInv, Tasks
    <2>5. QED
      BY <2>1, <2>2, <2>3, <2>4
  <1>3. DryInv /\ WelcomeInv
    BY <1>1, Groups DEF Init, DryInv, WelcomeInv, Boots
  <1>4. AttemptInv
    BY LinkAssumption DEF Init, AttemptInv
  <1>5. QED
    BY <1>2, <1>3, <1>4 DEF IInv

\* What the operations share: task t's plan becomes p.
Becomes(t, p) ==
    /\ PlanType' /\ plan'[t] = p
    /\ \A u \in Tasks : u # t => plan'[u] = plan[u]

\* A task that has done a step goes on with the rest of its plan.
LEMMA DoneBecomes ==
    ASSUME PlanType, NEW t \in Tasks, NEW p \in Plans, plan' = [plan EXCEPT ![t] = p]
    PROVE  Becomes(t, p)
  BY DEF PlanType, Becomes

\* With no clash, while a task has something to do the other has nothing.
LEMMA Alone ==
    ASSUME IInv, ~clash, NEW t \in Tasks, plan[t] # <<>>, NEW u \in Tasks, u # t
    PROVE  plan[u] = <<>>
  BY DEF IInv, AloneInv, Tasks

\* A call of the application: it clashes, or it finds the station at rest.
LEMMA CallInv ==
    ASSUME IInv, NEW steps \in {EstablishSession, Stop, Disconnect, <<>>}, AppCall(steps),
           UNCHANGED resets
    PROVE  /\ PlanType' /\ ClashType' /\ ResetsType' /\ AttemptInv' /\ AloneInv'
           /\ ~clash
           /\ ~clash' => /\ \A t \in Tasks : plan'[t] \in Boots => beats = {}
                         /\ \A t \in Tasks : plan'[t] \notin {AnnounceOn, BeatOn}
                         /\ steps = <<>> => beats = {}
  <1>1. /\ steps \in Plans
        /\ steps = EstablishSession \/ steps \in Ends
        /\ EstablishSession \in ToBoot
    BY Whole DEF Plans, Boots, ToBoot, Ends, OpenOn
  <1>2. /\ Becomes("app", steps)
        /\ ~clash
        /\ attempt' = [attempt EXCEPT !["app"] = 0]
    BY <1>1, DoneBecomes DEF AppCall, Room, IInv, Tasks
  <1>3. ~clash' => /\ resets = <<>> /\ plan["consumer"] = <<>>
                   /\ steps \in {EstablishSession, <<>>} => beats = {}
    BY DEF AppCall
  <1>4. ClashType' /\ ResetsType' /\ PlanType'
    BY <1>2 DEF AppCall, ClashType, ResetsType, IInv, Becomes
  <1>5. AttemptInv'
    <2>1. /\ attempt' \in [Tasks -> Nat] /\ attempt'["app"] = 0
          /\ \A u \in Tasks : u # "app" => attempt'[u] = attempt[u]
      BY <1>2 DEF IInv, AttemptInv, Tasks
    <2>2. QED
      BY <1>2, <2>1, LinkAssumption DEF IInv, AttemptInv, Becomes
  <1>6. \A t \in Tasks : ~clash' => plan'[t] = <<>> \/ plan'[t] = steps
    BY <1>2, <1>3 DEF Becomes, Tasks
  <1>7. <<>> \in Ends
    BY DEF Ends
  <1>8. ~clash' => \A t \in Tasks : plan'[t] \in Boots => beats = {}
    BY <1>1, <1>3, <1>6, <1>7, Groups
  <1>9. ~clash' => \A t \in Tasks : plan'[t] \notin {AnnounceOn, BeatOn}
    BY <1>1, <1>6, <1>7, Groups DEF Boots
  <1>10. AloneInv'
    BY <1>2, <1>3 DEF AloneInv, Becomes, Tasks
  <1>11. QED
    BY <1>2, <1>3, <1>4, <1>5, <1>8, <1>9, <1>10

\* A step that moves a plan on and leaves heartbeat and history alone keeps the
\* invariant, if the plan does not get nearer to a heartbeat than it was.
LEMMA StepAlong ==
    ASSUME IInv, NEW t \in Tasks, NEW p \in Plans, plan' = [plan EXCEPT ![t] = p],
           plan[t] # <<>>,
           UNCHANGED <<attempt, resets, beats, handle, welcome, early, clash>>,
           p \in Boots => plan[t] \in Boots,
           p \in ToBoot => plan[t] \in ToBoot,
           p \notin {SoftReset, HardReset, AnswerOn, AnnounceOn} ,
           p = BeatOn => plan[t] = AnnounceOn
    PROVE  IInv'
  <1>1. Becomes(t, p)
    BY DoneBecomes DEF IInv
  <1>2. PlanType' /\ ClashType' /\ ResetsType'
    BY <1>1 DEF IInv, Becomes, ClashType, ResetsType
  <1>3. AttemptInv'
    BY <1>1 DEF IInv, AttemptInv, Becomes
  <1>4. AloneInv'
    BY <1>1 DEF IInv, AloneInv, Becomes, Tasks
  <1>5. DryInv'
    BY <1>1 DEF IInv, DryInv, Becomes
  <1>6. WelcomeInv'
    BY <1>1 DEF IInv, WelcomeInv, Becomes
  <1>7. OneHeartbeat' /\ HeartbeatsAfterBoot'
    BY DEF IInv, OneHeartbeat, HeartbeatsAfterBoot
  <1>8. QED
    BY <1>2, <1>3, <1>4, <1>5, <1>6, <1>7 DEF IInv

\* Every step keeps the invariant.
LEMMA StepInv == IInv /\ [Next]_vars => IInv'
  <1> SUFFICES ASSUME IInv, [Next]_vars PROVE IInv'
    OBVIOUS
  <1> USE DEF link, beat
  <1>1. ASSUME Start \/ Connect \/ StopOrDisconnect PROVE IInv'
    <2>1. /\ \E steps \in {EstablishSession, Stop, Disconnect, <<>>} : AppCall(steps)
          /\ UNCHANGED <<resets, beats, handle, welcome, early>>
      BY <1>1 DEF Start, Connect, StopOrDisconnect
    <2>2. /\ PlanType' /\ ClashType' /\ ResetsType' /\ AttemptInv' /\ AloneInv' /\ ~clash
          /\ ~clash' => /\ \A t \in Tasks : plan'[t] \in Boots => beats = {}
                        /\ \A t \in Tasks : plan'[t] \notin {AnnounceOn, BeatOn}
      BY <2>1, CallInv
    <2>3. DryInv' /\ WelcomeInv' /\ OneHeartbeat' /\ HeartbeatsAfterBoot'
      BY <2>1, <2>2 DEF IInv, DryInv, WelcomeInv, OneHeartbeat, HeartbeatsAfterBoot
    <2>4. QED
      BY <2>2, <2>3 DEF IInv
  <1>2. ASSUME NEW status \in Statuses, HandleBootNotificationResponse(status) PROVE IInv'
    <2>1. AppCall(<<>>) /\ UNCHANGED <<resets, early>>
      BY <1>2 DEF HandleBootNotificationResponse
    <2>2. /\ PlanType' /\ ClashType' /\ ResetsType' /\ AttemptInv' /\ AloneInv' /\ ~clash
          /\ ~clash' => /\ beats = {}
                        /\ \A t \in Tasks : plan'[t] \notin {AnnounceOn, BeatOn}
      BY <2>1, CallInv
    <2>3. \/ beats' = beats /\ handle' = handle
          \/ welcome' /\ beats' = beats \cup {handle'}
      BY <1>2 DEF HandleBootNotificationResponse, StartHeartbeat
    <2>4. ~clash' => \A t \in Tasks : plan'[t] \notin Boots
      <3>1. ~clash' => plan["consumer"] = <<>>
        BY <2>1 DEF AppCall
      <3>2. <<>> \in Plans /\ <<>> \in Ends
        BY DEF Plans, Ends
      <3>3. Becomes("app", <<>>)
        BY <2>1, <3>2, DoneBecomes DEF AppCall, IInv, Tasks
      <3>4. QED
        BY <3>1, <3>2, <3>3, Groups DEF Becomes, Tasks
    <2>5. DryInv' /\ WelcomeInv' /\ OneHeartbeat' /\ HeartbeatsAfterBoot'
      BY <2>1, <2>2, <2>3, <2>4 DEF IInv, DryInv, WelcomeInv, OneHeartbeat, HeartbeatsAfterBoot
    <2>6. QED
      BY <2>2, <2>5 DEF IInv
  <1>3. ASSUME NEW kind \in Resets, RequestReset(kind) PROVE IInv'
    <2>1. /\ UNCHANGED <<plan, attempt, beats, handle, welcome, early>> /\ ~clash
          /\ clash' = (plan["app"] # <<>>) /\ resets' = Append(resets, kind)
      BY <1>3 DEF RequestReset, Room
    <2>2. PlanType' /\ AttemptInv'
      BY <2>1 DEF IInv, PlanType, AttemptInv
    <2>3. ClashType' /\ ResetsType'
      BY <2>1 DEF IInv, ClashType, ResetsType
    <2>4. AloneInv'
      BY <2>1 DEF AloneInv
    <2>5. DryInv' /\ WelcomeInv' /\ OneHeartbeat' /\ HeartbeatsAfterBoot'
      BY <2>1 DEF IInv, DryInv, WelcomeInv, OneHeartbeat, HeartbeatsAfterBoot
    <2>6. QED
      BY <2>2, <2>3, <2>4, <2>5 DEF IInv
  <1>4. ASSUME TakeReset PROVE IInv'
    <2>1. /\ resets # <<>> /\ plan["consumer"] = <<>> /\ resets' = Tail(resets)
          /\ attempt' = [attempt EXCEPT !["consumer"] = 0]
          /\ plan' = [plan EXCEPT !["consumer"] = Reset(Head(resets))]
          /\ UNCHANGED <<beats, handle, welcome, early, clash>>
      BY <1>4 DEF TakeReset
    <2>2. Head(resets) \in Resets /\ ResetsType'
      BY <2>1 DEF IInv, ResetsType
    <2>3. PICK p \in {SoftReset, HardReset} : p = Reset(Head(resets))
      BY <2>2, Whole
    <2>4. p \in Plans /\ p \notin Boots /\ p \notin {AnnounceOn, BeatOn}
      BY Groups DEF Plans, Boots
    <2>5. Becomes("consumer", p)
      BY <2>1, <2>3, <2>4, DoneBecomes DEF IInv, Tasks
    <2>6. PlanType' /\ ClashType'
      BY <2>1, <2>5 DEF IInv, ClashType, Becomes
    <2>7. AttemptInv'
      <3>1. /\ attempt' \in [Tasks -> Nat] /\ attempt'["consumer"] = 0
            /\ \A u \in Tasks : u # "consumer" => attempt'[u] = attempt[u]
        BY <2>1 DEF IInv, AttemptInv, Tasks
      <3>2. QED
        BY <2>5, <3>1, LinkAssumption DEF IInv, AttemptInv, Becomes
    <2>8. AloneInv'
      BY <2>1, <2>5 DEF IInv, AloneInv, Becomes, Tasks
    <2>9. DryInv' /\ WelcomeInv' /\ OneHeartbeat' /\ HeartbeatsAfterBoot'
      BY <2>1, <2>4, <2>5 DEF IInv, DryInv, WelcomeInv, OneHeartbeat, HeartbeatsAfterBoot, Becomes
    <2>10. QED
      BY <2>2, <2>6, <2>7, <2>8, <2>9 DEF IInv
  <1>5. ASSUME NEW t \in Tasks, Open(t) PROVE IInv'
    <2>1. /\ plan[t] # <<>> /\ Head(plan[t]) \in {"open"}
          /\ plan' \in {[plan EXCEPT ![t] = Tail(@)], [plan EXCEPT ![t] = <<>>]}
          /\ UNCHANGED <<attempt, resets, beats, handle, welcome, early, clash>>
      BY <1>5 DEF Open, Doing, Done, Fail
    <2>2. PICK p \in {Tail(plan[t]), <<>>} : plan' = [plan EXCEPT ![t] = p]
      BY <2>1
    <2>3. plan[t] \in Plans /\ <<>> \in Ends
      BY DEF IInv, PlanType, Ends
    <2>4. \/ plan[t] \in ToBoot /\ p \in ToBoot
          \/ plan[t] \in Ends /\ p \in Ends
          \/ p = <<>>
      BY <2>1, <2>2, <2>3, ByHead
    <2>5. /\ p \in Plans /\ p \notin {SoftReset, HardReset, AnswerOn, AnnounceOn}
          /\ p \in Boots => plan[t] \in Boots
          /\ p \in ToBoot => plan[t] \in ToBoot
          /\ p = BeatOn => plan[t] = AnnounceOn
      BY <2>3, <2>4, Groups DEF Plans, Boots
    <2>6. QED
      BY <2>1, <2>2, <2>5, StepAlong
  <1>6. ASSUME NEW t \in Tasks, Install(t) PROVE IInv'
    <2>1. /\ plan[t] # <<>> /\ Head(plan[t]) \in {"install"}
          /\ plan' \in {[plan EXCEPT ![t] = Tail(@)], [plan EXCEPT ![t] = <<>>]}
          /\ UNCHANGED <<attempt, resets, beats, handle, welcome, early, clash>>
      BY <1>6 DEF Install, Doing, Done, Fail
    <2>2. PICK p \in {Tail(plan[t]), <<>>} : plan' = [plan EXCEPT ![t] = p]
      BY <2>1
    <2>3. plan[t] \in Plans /\ <<>> \in Ends
      BY DEF IInv, PlanType, Ends
    <2>4. \/ plan[t] \in ToBoot /\ p \in ToBoot
          \/ plan[t] \in Ends /\ p \in Ends
          \/ p = <<>>
      BY <2>1, <2>2, <2>3, ByHead
    <2>5. /\ p \in Plans /\ p \notin {SoftReset, HardReset, AnswerOn, AnnounceOn}
          /\ p \in Boots => plan[t] \in Boots
          /\ p \in ToBoot => plan[t] \in ToBoot
          /\ p = BeatOn => plan[t] = AnnounceOn
      BY <2>3, <2>4, Groups DEF Plans, Boots
    <2>6. QED
      BY <2>1, <2>2, <2>5, StepAlong
  <1>7. ASSUME NEW t \in Tasks, SetFlag(t) PROVE IInv'
    <2>1. /\ plan[t] # <<>> /\ Head(plan[t]) \in {"flag", "down"}
          /\ plan' \in {[plan EXCEPT ![t] = Tail(@)], [plan EXCEPT ![t] = <<>>]}
          /\ UNCHANGED <<attempt, resets, beats, handle, welcome, early, clash>>
      BY <1>7 DEF SetFlag, Doing, Done, Fail
    <2>2. PICK p \in {Tail(plan[t]), <<>>} : plan' = [plan EXCEPT ![t] = p]
      BY <2>1
    <2>3. plan[t] \in Plans /\ <<>> \in Ends
      BY DEF IInv, PlanType, Ends
    <2>4. \/ plan[t] \in ToBoot /\ p \in ToBoot
          \/ plan[t] \in Ends /\ p \in Ends
          \/ p = <<>>
      BY <2>1, <2>2, <2>3, ByHead
    <2>5. /\ p \in Plans /\ p \notin {SoftReset, HardReset, AnswerOn, AnnounceOn}
          /\ p \in Boots => plan[t] \in Boots
          /\ p \in ToBoot => plan[t] \in ToBoot
          /\ p = BeatOn => plan[t] = AnnounceOn
      BY <2>3, <2>4, Groups DEF Plans, Boots
    <2>6. QED
      BY <2>1, <2>2, <2>5, StepAlong
  <1>8. ASSUME NEW t \in Tasks, Close(t) PROVE IInv'
    <2>1. /\ plan[t] # <<>> /\ Head(plan[t]) \in {"close"}
          /\ plan' \in {[plan EXCEPT ![t] = Tail(@)], [plan EXCEPT ![t] = <<>>]}
          /\ UNCHANGED <<attempt, resets, beats, handle, welcome, early, clash>>
      BY <1>8 DEF Close, Doing, Done, Fail
    <2>2. PICK p \in {Tail(plan[t]), <<>>} : plan' = [plan EXCEPT ![t] = p]
      BY <2>1
    <2>3. plan[t] \in Plans /\ <<>> \in Ends
      BY DEF IInv, PlanType, Ends
    <2>4. \/ plan[t] \in ToBoot /\ p \in ToBoot
          \/ plan[t] \in Ends /\ p \in Ends
          \/ p = <<>>
      BY <2>1, <2>2, <2>3, ByHead
    <2>5. /\ p \in Plans /\ p \notin {SoftReset, HardReset, AnswerOn, AnnounceOn}
          /\ p \in Boots => plan[t] \in Boots
          /\ p \in ToBoot => plan[t] \in ToBoot
          /\ p = BeatOn => plan[t] = AnnounceOn
      BY <2>3, <2>4, Groups DEF Plans, Boots
    <2>6. QED
      BY <2>1, <2>2, <2>5, StepAlong
  <1>9. ASSUME NEW t \in Tasks, BootFails(t) PROVE IInv'
    <2>1. /\ plan[t] # <<>> /\ Head(plan[t]) \in {"answer"}
          /\ plan' \in {[plan EXCEPT ![t] = Tail(@)], [plan EXCEPT ![t] = <<>>]}
          /\ UNCHANGED <<attempt, resets, beats, handle, welcome, early, clash>>
      BY <1>9 DEF BootFails, Doing, Done, Fail
    <2>2. PICK p \in {Tail(plan[t]), <<>>} : plan' = [plan EXCEPT ![t] = p]
      BY <2>1
    <2>3. plan[t] \in Plans /\ <<>> \in Ends
      BY DEF IInv, PlanType, Ends
    <2>4. \/ plan[t] \in ToBoot /\ p \in ToBoot
          \/ plan[t] \in Ends /\ p \in Ends
          \/ p = <<>>
      <3>1. plan[t] = AnswerOn
        BY <2>1, <2>3, ByHead
      <3>2. Tail(AnswerOn) = <<>>
        BY FirstOfBoots
      <3>3. QED
        BY <2>2, <3>1, <3>2
    <2>5. /\ p \in Plans /\ p \notin {SoftReset, HardReset, AnswerOn, AnnounceOn}
          /\ p \in Boots => plan[t] \in Boots
          /\ p \in ToBoot => plan[t] \in ToBoot
          /\ p = BeatOn => plan[t] = AnnounceOn
      BY <2>3, <2>4, Groups DEF Plans, Boots
    <2>6. QED
      BY <2>1, <2>2, <2>5, StepAlong
  <1>10. ASSUME NEW t \in Tasks, Announce(t) PROVE IInv'
    <2>1. /\ plan[t] # <<>> /\ Head(plan[t]) \in {"announce"}
          /\ plan' \in {[plan EXCEPT ![t] = Tail(@)], [plan EXCEPT ![t] = <<>>]}
          /\ UNCHANGED <<attempt, resets, beats, handle, welcome, early, clash>>
      BY <1>10 DEF Announce, Doing, Done, Fail
    <2>2. PICK p \in {Tail(plan[t]), <<>>} : plan' = [plan EXCEPT ![t] = p]
      BY <2>1
    <2>3. plan[t] \in Plans /\ <<>> \in Ends
      BY DEF IInv, PlanType, Ends
    <2>4. \/ plan[t] \in ToBoot /\ p \in ToBoot
          \/ plan[t] \in Ends /\ p \in Ends
          \/ p = <<>>
          \/ plan[t] = AnnounceOn /\ p = BeatOn
      <3>1. plan[t] = AnnounceOn
        BY <2>1, <2>3, ByHead
      <3>2. Tail(AnnounceOn) = BeatOn
        BY FirstOfBoots
      <3>3. QED
        BY <2>2, <3>1, <3>2
    <2>5. /\ p \in Plans /\ p \notin {SoftReset, HardReset, AnswerOn, AnnounceOn}
          /\ p \in Boots => plan[t] \in Boots
          /\ p \in ToBoot => plan[t] \in ToBoot
          /\ p = BeatOn => plan[t] = AnnounceOn
      BY <2>3, <2>4, Groups DEF Plans, Boots
    <2>6. QED
      BY <2>1, <2>2, <2>5, StepAlong
  <1>11. ASSUME NEW t \in Tasks, Boot(t) PROVE IInv'
    <2>1. /\ plan[t] # <<>> /\ Head(plan[t]) = "boot"
          /\ plan' = [plan EXCEPT ![t] = <<"answer">> \o Tail(@)]
          /\ attempt' = [attempt EXCEPT ![t] = attempt[t] + 1] /\ ~welcome'
          /\ UNCHANGED <<resets, beats, handle, early, clash>>
      BY <1>11 DEF Boot, Doing, Then, Attempts
    <2>2. plan[t] = BootOn /\ BootOn \in ToBoot /\ BootOn \in Boots
      BY <2>1, ByHead DEF IInv, PlanType, ToBoot, Boots
    <2>3. <<"answer">> \o Tail(BootOn) = AnswerOn
      BY DEF BootOn, AnswerOn
    <2>4. Becomes(t, AnswerOn)
      BY <2>1, <2>2, <2>3, DoneBecomes DEF IInv, Plans, Boots
    <2>5. ~clash => /\ beats = {}
                    /\ \A u \in Tasks : u # t => plan'[u] = <<>>
      BY <2>1, <2>2, <2>4, Alone DEF IInv, DryInv, Becomes
    <2>6. PlanType' /\ ClashType' /\ ResetsType'
      BY <2>1, <2>4 DEF IInv, ClashType, ResetsType, Becomes
    <2>7. AttemptInv'
      <3>1. attempt[t] \in Nat /\ attempt[t] <= MaxBootRetries
        BY <2>2 DEF IInv, AttemptInv
      <3>2. /\ attempt' \in [Tasks -> Nat] /\ attempt'[t] = attempt[t] + 1
            /\ \A u \in Tasks : u # t => attempt'[u] = attempt[u]
        BY <2>1, <3>1 DEF IInv, AttemptInv
      <3>3. QED
        BY <2>4, <3>1, <3>2, Groups, LinkAssumption DEF IInv, AttemptInv, Becomes
    <2>8. AloneInv'
      BY <2>1, <2>4 DEF IInv, AloneInv, Becomes, Tasks
    <2>9. <<>> \in Ends
      BY DEF Ends
    <2>10. DryInv' /\ WelcomeInv'
      BY <2>1, <2>4, <2>5, <2>9, Groups DEF DryInv, WelcomeInv, Becomes, Boots
    <2>11. OneHeartbeat' /\ HeartbeatsAfterBoot'
      BY <2>1 DEF IInv, OneHeartbeat, HeartbeatsAfterBoot
    <2>12. QED
      BY <2>6, <2>7, <2>8, <2>10, <2>11 DEF IInv
  <1>12. ASSUME NEW t \in Tasks, NEW status \in Statuses, BootAnswered(t, status) PROVE IInv'
    <2>1. /\ plan[t] # <<>> /\ Head(plan[t]) = "answer"
          /\ UNCHANGED <<attempt, resets, beats, handle, early, clash>>
      BY <1>12 DEF BootAnswered, Doing
    <2>2. plan[t] = AnswerOn /\ AnswerOn \in Boots
      BY <2>1, ByHead DEF IInv, PlanType, Boots
    <2>3. /\ <<"announce", "beat">> \o Tail(AnswerOn) = AnnounceOn
          /\ <<"beat">> \o Tail(AnswerOn) = BeatOn
          /\ <<"boot">> \o Tail(AnswerOn) = BootOn
      BY DEF AnswerOn, AnnounceOn, BeatOn, BootOn
    <2>4. PICK p \in {AnnounceOn, BeatOn, BootOn, <<>>} :
            /\ plan' = [plan EXCEPT ![t] = p]
            /\ p \in {AnnounceOn, BeatOn} => welcome'
            /\ p = BootOn => attempt[t] < MaxBootRetries + 1
      <3>1. CASE status = "Accepted"
        BY <1>12, <2>2, <2>3, <3>1, Groups DEF BootAnswered, Then, ToBoot
      <3>2. CASE status = "Pending"
        BY <1>12, <2>2, <2>3, <3>2, Groups DEF BootAnswered, Then, ToBoot
      <3>3. CASE status = "Rejected" /\ attempt[t] < MaxBootRetries + 1
        BY <1>12, <2>2, <2>3, <3>3, Groups DEF BootAnswered, Then, ToBoot
      <3>4. CASE status = "Rejected" /\ ~(attempt[t] < MaxBootRetries + 1)
        <4>1. plan' = [plan EXCEPT ![t] = <<>>]
          BY <1>12, <3>4 DEF BootAnswered, Fail
        <4>2. <<>> \in Ends
          BY DEF Ends
        <4>3. QED
          BY <4>1, <4>2, Groups DEF Boots, ToBoot
      <3>5. QED
        BY <3>1, <3>2, <3>3, <3>4 DEF Statuses
    <2>5. p \in Plans /\ p \notin {SoftReset, HardReset}
      BY Groups DEF Plans, Boots, ToBoot, Ends
    <2>6. Becomes(t, p)
      BY <2>4, <2>5, DoneBecomes DEF IInv
    <2>7. ~clash => /\ beats = {}
                    /\ \A u \in Tasks : u # t => plan'[u] = <<>>
      BY <2>1, <2>2, <2>6, Alone DEF IInv, DryInv, Becomes
    <2>8. PlanType' /\ ClashType' /\ ResetsType'
      BY <2>1, <2>6 DEF IInv, ClashType, ResetsType, Becomes
    <2>9. AttemptInv'
      <3>1. attempt[t] \in Nat
        BY DEF IInv, AttemptInv
      <3>2. p \in ToBoot => p = BootOn
        <4>1. <<>> \in Ends
          BY DEF Ends
        <4>2. QED
          BY <4>1, Groups DEF Boots
      <3>3. QED
        BY <2>1, <2>4, <2>5, <2>6, <3>1, <3>2, LinkAssumption DEF IInv, AttemptInv, Becomes
    <2>10. AloneInv'
      BY <2>1, <2>6 DEF IInv, AloneInv, Becomes, Tasks
    <2>11. <<>> \in Ends
      BY DEF Ends
    <2>12. DryInv' /\ WelcomeInv'
      BY <2>1, <2>4, <2>6, <2>7, <2>11, Groups DEF DryInv, WelcomeInv, Becomes, Boots
    <2>13. OneHeartbeat' /\ HeartbeatsAfterBoot'
      BY <2>1 DEF IInv, OneHeartbeat, HeartbeatsAfterBoot
    <2>14. QED
      BY <2>8, <2>9, <2>10, <2>12, <2>13 DEF IInv
  <1>13. ASSUME NEW t \in Tasks, SpawnHeartbeat(t) PROVE IInv'
    <2>1. /\ plan[t] # <<>> /\ Head(plan[t]) = "beat" /\ plan' = [plan EXCEPT ![t] = Tail(@)]
          /\ beats' = beats \cup {handle'}
          /\ UNCHANGED <<attempt, resets, welcome, early, clash>>
      BY <1>13 DEF SpawnHeartbeat, Doing, Done, StartHeartbeat
    <2>2. plan[t] = BeatOn /\ BeatOn \in Boots
      BY <2>1, ByHead DEF IInv, PlanType, Boots
    <2>3. <<>> \in Ends /\ <<>> \in Plans
      BY DEF Ends, Plans
    <2>4. Becomes(t, <<>>)
      BY <2>1, <2>2, <2>3, FirstOfBoots, DoneBecomes DEF IInv
    <2>5. ~clash => /\ beats = {} /\ welcome
                    /\ \A u \in Tasks : plan'[u] = <<>>
      BY <2>1, <2>2, <2>4, Alone DEF IInv, DryInv, WelcomeInv, Becomes
    <2>6. PlanType' /\ ClashType' /\ ResetsType'
      BY <2>1, <2>4 DEF IInv, ClashType, ResetsType, Becomes
    <2>7. AttemptInv'
      BY <2>1, <2>3, <2>4, Groups DEF IInv, AttemptInv, Becomes, Boots
    <2>8. AloneInv'
      BY <2>1, <2>4 DEF IInv, AloneInv, Becomes, Tasks
    <2>9. DryInv' /\ WelcomeInv'
      BY <2>1, <2>3, <2>5, Groups DEF DryInv, WelcomeInv, Boots
    <2>10. OneHeartbeat' /\ HeartbeatsAfterBoot'
      BY <2>1, <2>5 DEF IInv, OneHeartbeat, HeartbeatsAfterBoot
    <2>11. QED
      BY <2>6, <2>7, <2>8, <2>9, <2>10 DEF IInv
  <1>14. ASSUME NEW t \in Tasks, Quiesce(t) PROVE IInv'
    <2>1. /\ plan[t] # <<>> /\ Head(plan[t]) = "quiesce" /\ plan' = [plan EXCEPT ![t] = Tail(@)]
          /\ beats' = beats \ {handle}
          /\ UNCHANGED <<attempt, resets, welcome, early, clash>>
      BY <1>14 DEF Quiesce, Doing, Done
    <2>2. PICK p : p = Tail(plan[t])
      OBVIOUS
    <2>3. \/ plan[t] \in {SoftReset, HardReset} /\ p \in ToBoot
          \/ plan[t] \in Ends /\ p \in Ends
      BY <2>1, <2>2, ByHead DEF IInv, PlanType
    <2>4. Becomes(t, p)
      BY <2>1, <2>2, <2>3, DoneBecomes DEF IInv, Plans, Boots
    <2>5. ~clash => beats' = {}
      BY <2>1 DEF IInv, OneHeartbeat
    <2>6. PlanType' /\ ClashType' /\ ResetsType'
      BY <2>1, <2>4 DEF IInv, ClashType, ResetsType, Becomes
    <2>7. AttemptInv'
      BY <2>1, <2>3, <2>4, Groups DEF IInv, AttemptInv, Becomes, Boots
    <2>8. AloneInv'
      BY <2>1, <2>4 DEF IInv, AloneInv, Becomes, Tasks
    <2>9. DryInv'
      BY <2>1, <2>5 DEF DryInv
    <2>10. WelcomeInv'
      BY <2>1, <2>3, <2>4, <2>5, Groups DEF IInv, WelcomeInv, Becomes, Boots
    <2>11. OneHeartbeat' /\ HeartbeatsAfterBoot'
      BY <2>1, <2>5 DEF IInv, OneHeartbeat, HeartbeatsAfterBoot
    <2>12. QED
      BY <2>6, <2>7, <2>8, <2>9, <2>10, <2>11 DEF IInv
  <1>15. ASSUME KillConsumer PROVE IInv'
    <2>1. /\ plan["app"] # <<>> /\ Head(plan["app"]) = "kill" /\ resets' = <<>>
          /\ plan' = [t \in Tasks |-> IF t = "app" THEN Tail(plan[t]) ELSE <<>>]
          /\ UNCHANGED <<attempt, beats, handle, welcome, early, clash>>
      BY <1>15 DEF KillConsumer, Doing
    <2>2. \A t \in Tasks : plan'[t] \in Ends
      <3>1. Tail(plan["app"]) \in Ends
        BY <2>1, ByHead DEF IInv, PlanType, Tasks
      <3>2. <<>> \in Ends
        BY DEF Ends
      <3>3. QED
        BY <2>1, <3>1, <3>2
    <2>3. PlanType' /\ ClashType' /\ ResetsType'
      BY <2>1, <2>2 DEF IInv, PlanType, ClashType, ResetsType, Plans
    <2>4. AttemptInv'
      BY <2>1, <2>2, Groups DEF IInv, AttemptInv, Boots
    <2>5. AloneInv'
      BY <2>1 DEF AloneInv, Tasks
    <2>6. DryInv' /\ WelcomeInv'
      BY <2>1, <2>2, Groups DEF IInv, DryInv, WelcomeInv, Boots
    <2>7. OneHeartbeat' /\ HeartbeatsAfterBoot'
      BY <2>1 DEF IInv, OneHeartbeat, HeartbeatsAfterBoot
    <2>8. QED
      BY <2>3, <2>4, <2>5, <2>6, <2>7 DEF IInv
  <1>16. ASSUME NEW t \in Tasks, t = "app", MakeUnavailable PROVE IInv'
    <2>1. /\ plan[t] # <<>> /\ Head(plan[t]) \in {"unavailable"}
          /\ plan' \in {[plan EXCEPT ![t] = Tail(@)], [plan EXCEPT ![t] = <<>>]}
          /\ UNCHANGED <<attempt, resets, beats, handle, welcome, early, clash>>
      BY <1>16 DEF MakeUnavailable, Doing, Done, Fail
    <2>2. PICK p \in {Tail(plan[t]), <<>>} : plan' = [plan EXCEPT ![t] = p]
      BY <2>1
    <2>3. plan[t] \in Plans /\ <<>> \in Ends
      BY DEF IInv, PlanType, Ends
    <2>4. \/ plan[t] \in ToBoot /\ p \in ToBoot
          \/ plan[t] \in Ends /\ p \in Ends
          \/ p = <<>>
      BY <2>1, <2>2, <2>3, ByHead
    <2>5. /\ p \in Plans /\ p \notin {SoftReset, HardReset, AnswerOn, AnnounceOn}
          /\ p \in Boots => plan[t] \in Boots
          /\ p \in ToBoot => plan[t] \in ToBoot
          /\ p = BeatOn => plan[t] = AnnounceOn
      BY <2>3, <2>4, Groups DEF Plans, Boots
    <2>6. QED
      BY <2>1, <2>2, <2>5, StepAlong
  <1>17. ASSUME NEW b \in Beats, Tick(b) PROVE IInv'
    <2>1. /\ beats # {} /\ early' = (early \/ ~welcome)
          /\ UNCHANGED <<plan, attempt, resets, beats, handle, welcome, clash>>
      BY <1>17 DEF Tick
    <2>2. HeartbeatsAfterBoot'
      BY <2>1 DEF IInv, WelcomeInv, HeartbeatsAfterBoot
    <2>3. QED
      BY <2>1, <2>2 DEF IInv, PlanType, ClashType, ResetsType, AttemptInv, AloneInv, DryInv,
         WelcomeInv,
         OneHeartbeat
  <1>18. ASSUME UNCHANGED <<plan, attempt, resets, beats, handle, welcome, early, clash>> PROVE IInv'
    BY <1>18 DEF IInv, PlanType, ClashType, ResetsType, AttemptInv, AloneInv, DryInv, WelcomeInv,
       OneHeartbeat, HeartbeatsAfterBoot
  <1>19. (\E k \in Sessions : LinkLost(k) \/ ReportDisconnected(k)) \/ UNCHANGED vars => IInv'
    BY <1>18 DEF LinkLost, ReportDisconnected, vars
  <1>20. QED
    BY <1>1, <1>2, <1>3, <1>4, <1>5, <1>6, <1>7, <1>8, <1>9, <1>10, <1>11, <1>12, <1>13, <1>14,
       <1>15, <1>16, <1>17, <1>19 DEF Next, TaskStep, Tasks

-----------------------------------------------------------------------------
(* Theorems *)

\* The invariant holds in every reachable state.
LEMMA Invariance == Spec => []IInv
  BY InitInv, StepInv, PTL DEF Spec

\* However boots, resets, losses of the link and calls of the application follow
\* each other without overlapping, at most one heartbeat task runs and its handle is
\* the one kept.
THEOREM OneHeartbeatHolds == Spec => []OneHeartbeat
  <1>1. IInv => OneHeartbeat
    BY DEF IInv
  <1>2. QED
    BY <1>1, Invariance, PTL

\* Under the same condition no heartbeat goes out between the beginning of a boot
\* and its welcome.
THEOREM HeartbeatsAfterBootHolds == Spec => []HeartbeatsAfterBoot
  <1>1. IInv => HeartbeatsAfterBoot
    BY DEF IInv
  <1>2. QED
    BY <1>1, Invariance, PTL

\* boot_sequence sends at most max_boot_retries + 1 BootNotifications, on each of
\* the two tasks that may run it, clash or not.
THEOREM BootIsBounded == Spec => [](\A t \in Tasks : attempt[t] \in 0..(MaxBootRetries + 1))
  <1>1. IInv => \A t \in Tasks : attempt[t] \in 0..(MaxBootRetries + 1)
    BY LinkAssumption DEF IInv, AttemptInv
  <1>2. QED
    BY <1>1, Invariance, PTL

-----------------------------------------------------------------------------
(* How many heartbeats there can be *)

\* Whether a plan may still start a heartbeat: one that is not an end does once at most.
Due(p) == IF p \in Ends THEN 0 ELSE 1

\* Every heartbeat that runs, and every one that is still to be started, is due to an
\* operation of its own.
CountInv ==
    /\ ops \in 0..MaxOps
    /\ beats \subseteq Beats /\ IsFiniteSet(beats)
    /\ Cardinality(beats) + Due(plan["app"]) + Due(plan["consumer"]) + Len(resets) <= ops

\* The numbers counted.
LEMMA Counted ==
    ASSUME CountInv, ResetsType
    PROVE  /\ Cardinality(beats) \in Nat /\ Len(resets) \in Nat
           /\ ops \in Nat /\ MaxOps \in Nat
  BY FS_CardinalityType, LinkAssumption DEF CountInv, ResetsType

\* The rest of an end is an end.
LEMMA RestOfEnd ==
    ASSUME NEW p \in Ends, p # <<>>
    PROVE  Tail(p) \in Ends
  BY FirstOfEnds DEF Ends

\* A task that goes on to another plan is not due for more than before.
LEMMA NoMoreDue ==
    ASSUME CountInv, ResetsType, PlanType, NEW t \in Tasks, NEW p,
           plan' = [plan EXCEPT ![t] = p], p \in Ends \/ plan[t] \notin Ends,
           UNCHANGED <<ops, resets, beats>>
    PROVE  CountInv'
  <1>1. plan'[t] = p /\ \A u \in Tasks : u # t => plan'[u] = plan[u]
    BY DEF PlanType
  <1>2. \A u \in Tasks : Due(plan'[u]) <= Due(plan[u])
    BY <1>1 DEF Due
  <1>3. Due(plan'["app"]) <= Due(plan["app"]) /\ Due(plan'["consumer"]) <= Due(plan["consumer"])
    BY <1>2 DEF Tasks
  <1>4. \A x : Due(x) \in Nat
    BY DEF Due
  <1> QED BY <1>3, <1>4, Counted DEF CountInv

\* There is a name for one more heartbeat while operations are left.
LEMMA OneMore ==
    ASSUME CountInv, ResetsType, Cardinality(beats) < MaxOps, StartHeartbeat
    PROVE  /\ handle' \in Beats /\ beats' \subseteq Beats
           /\ IsFiniteSet(beats') /\ Cardinality(beats') = Cardinality(beats) + 1
  <1>1. \E b \in Beats : b \notin beats
    <2> SUFFICES ASSUME Beats \subseteq beats PROVE FALSE
      OBVIOUS
    <2>1. beats = 1..MaxOps
      BY DEF CountInv, Beats
    <2>2. MaxOps \in Nat
      BY LinkAssumption
    <2>3. Cardinality(1..MaxOps) = MaxOps
      <3>1. PICK n \in Nat : n = MaxOps
        BY <2>2
      <3>2. Cardinality(1..n) = IF 1 > n THEN 0 ELSE n - 1 + 1
        BY FS_Interval
      <3> QED BY <3>1, <3>2
    <2> QED BY <2>1, <2>2, <2>3
  <1>2. handle' \in Beats /\ handle' \notin beats
    BY <1>1 DEF StartHeartbeat
  <1>3. beats' = beats \cup {handle'}
    BY DEF StartHeartbeat
  <1>4. IsFiniteSet(beats)
    BY DEF CountInv
  <1>5. /\ IsFiniteSet(beats \cup {handle'})
        /\ Cardinality(beats \cup {handle'}) = Cardinality(beats) + 1
    BY <1>2, <1>4, FS_AddElement
  <1> QED BY <1>2, <1>3, <1>5 DEF CountInv

\* Every step keeps the count.
LEMMA CountStep == IInv /\ CountInv /\ [Next]_vars => CountInv'
  <1> SUFFICES ASSUME IInv, CountInv, [Next]_vars PROVE CountInv'
    OBVIOUS
  <1> USE DEF link, beat
  <1>1. PlanType /\ ResetsType
    BY DEF IInv
  <1>2. \A x : Due(x) \in 0..1
    BY DEF Due
  <1>3. <<>> \in Ends /\ Due(<<>>) = 0
    BY DEF Ends, Due
  <1>4. ASSUME NEW steps, AppCall(steps)
        PROVE  /\ plan["app"] = <<>> /\ plan'["app"] = steps
               /\ plan'["consumer"] = plan["consumer"]
               /\ ops' = ops + 1 /\ ops < MaxOps /\ Cardinality(beats) < MaxOps
    <2>1. /\ plan["app"] = <<>> /\ plan' = [plan EXCEPT !["app"] = steps]
          /\ ops' = ops + 1 /\ ops < MaxOps
      BY <1>4 DEF AppCall, Room
    <2>2. plan'["app"] = steps /\ plan'["consumer"] = plan["consumer"]
      BY <1>1, <2>1 DEF PlanType, Tasks
    <2>3. Cardinality(beats) < MaxOps
      BY <1>1, <1>2, <2>1, Counted DEF CountInv
    <2> QED BY <2>1, <2>2, <2>3
  <1>5. ASSUME NEW steps, AppCall(steps), UNCHANGED <<resets, beats>> PROVE CountInv'
    BY <1>1, <1>2, <1>3, <1>4, <1>5, Counted DEF CountInv
  <1>6. CASE Start \/ Connect \/ StopOrDisconnect
    BY <1>5, <1>6 DEF Start, Connect, StopOrDisconnect
  <1>7. ASSUME NEW status \in Statuses, HandleBootNotificationResponse(status) PROVE CountInv'
    <2>1. AppCall(<<>>) /\ UNCHANGED resets /\ (StartHeartbeat \/ UNCHANGED beats)
      BY <1>7 DEF HandleBootNotificationResponse
    <2>2. CASE UNCHANGED beats
      BY <1>5, <2>1, <2>2
    <2>3. CASE StartHeartbeat
      <3>1. /\ plan["app"] = <<>> /\ plan'["app"] = <<>> /\ plan'["consumer"] = plan["consumer"]
            /\ ops' = ops + 1 /\ ops < MaxOps /\ Cardinality(beats) < MaxOps
        BY <1>4, <2>1
      <3>2. /\ beats' \subseteq Beats /\ IsFiniteSet(beats')
            /\ Cardinality(beats') = Cardinality(beats) + 1
        BY <1>1, <2>3, <3>1, OneMore
      <3> QED BY <1>1, <1>2, <2>1, <3>1, <3>2, Counted DEF CountInv
    <2> QED BY <2>1, <2>2, <2>3
  <1>8. ASSUME NEW kind \in Resets, RequestReset(kind) PROVE CountInv'
    <2>1. /\ ops < MaxOps /\ ops' = ops + 1 /\ resets' = Append(resets, kind)
          /\ UNCHANGED <<plan, beats>>
      BY <1>8 DEF RequestReset, Room
    <2>2. Len(resets') = Len(resets) + 1
      BY <1>1, <2>1 DEF ResetsType
    <2> QED BY <1>1, <1>2, <2>1, <2>2, Counted DEF CountInv
  <1>9. CASE TakeReset
    <2>1. /\ plan["consumer"] = <<>> /\ resets # <<>> /\ resets' = Tail(resets)
          /\ plan' = [plan EXCEPT !["consumer"] = Reset(Head(resets))]
          /\ UNCHANGED <<beats, ops>>
      BY <1>9 DEF TakeReset
    <2>2. Len(resets') = Len(resets) - 1
      BY <1>1, <2>1 DEF ResetsType
    <2>3. plan'["app"] = plan["app"]
      BY <1>1, <2>1 DEF PlanType, Tasks
    <2> QED BY <1>1, <1>2, <1>3, <2>1, <2>2, <2>3, Counted DEF CountInv
  <1>10. ASSUME NEW t \in Tasks, plan[t] # <<>>, UNCHANGED <<ops, resets, beats>>,
                Done(t) \/ Fail(t)
         PROVE  CountInv'
    <2>1. PICK p \in {Tail(plan[t]), <<>>} : plan' = [plan EXCEPT ![t] = p]
      BY <1>10 DEF Done, Fail
    <2>2. plan[t] \in Ends => p \in Ends
      BY <1>3, <1>10, <2>1, RestOfEnd
    <2> QED BY <1>1, <1>10, <2>1, <2>2, NoMoreDue
  <1>11. ASSUME NEW t \in Tasks,
                Open(t) \/ Install(t) \/ SetFlag(t) \/ Close(t) \/ BootFails(t) \/ Announce(t)
         PROVE  CountInv'
    BY <1>10, <1>11 DEF Open, Install, SetFlag, Close, BootFails, Announce, Doing
  <1>12. ASSUME NEW t \in Tasks, plan[t] # <<>>, Head(plan[t]) \in {"boot", "answer", "beat"}
         PROVE  plan[t] \notin Ends
    <2>1. plan[t] \in Plans
      BY <1>1 DEF PlanType
    <2>2. plan[t] \in {BootOn, AnswerOn, BeatOn}
      BY <1>12, <2>1, ByHead
    <2> QED BY <2>2, Groups DEF Boots, ToBoot
  <1>13. ASSUME NEW t \in Tasks, Boot(t) PROVE CountInv'
    <2>1. /\ plan[t] \notin Ends /\ UNCHANGED <<ops, resets, beats>>
          /\ plan' = [plan EXCEPT ![t] = <<"answer">> \o Tail(plan[t])]
      BY <1>12, <1>13 DEF Boot, Doing, Then
    <2> QED BY <1>1, <2>1, NoMoreDue
  <1>14. ASSUME NEW t \in Tasks, NEW status \in Statuses, BootAnswered(t, status) PROVE CountInv'
    <2>1. plan[t] \notin Ends /\ UNCHANGED <<ops, resets, beats>>
      BY <1>12, <1>14 DEF BootAnswered, Doing
    <2>2. \E p : plan' = [plan EXCEPT ![t] = p]
      BY <1>14 DEF BootAnswered, Then, Fail, Statuses
    <2> QED BY <1>1, <2>1, <2>2, NoMoreDue
  <1>15. ASSUME NEW t \in Tasks, SpawnHeartbeat(t) PROVE CountInv'
    <2>1. /\ plan[t] # <<>> /\ Head(plan[t]) = "beat" /\ StartHeartbeat
          /\ plan' = [plan EXCEPT ![t] = Tail(plan[t])] /\ UNCHANGED <<ops, resets>>
      BY <1>15 DEF SpawnHeartbeat, Doing, Done
    <2>2. plan[t] = BeatOn /\ plan[t] \notin Ends /\ Tail(plan[t]) = <<>>
      BY <1>1, <1>12, <2>1, ByHead, FirstOfBoots DEF PlanType
    <2>3. plan'[t] = <<>> /\ \A u \in Tasks : u # t => plan'[u] = plan[u]
      BY <1>1, <2>1, <2>2 DEF PlanType
    <2>4. Due(plan[t]) = 1 /\ Due(plan'[t]) = 0
      BY <1>3, <2>2, <2>3 DEF Due
    <2>5. Due(plan'["app"]) + Due(plan'["consumer"]) + 1 = Due(plan["app"]) + Due(plan["consumer"])
      <3>1. CASE t = "app"
        BY <1>2, <2>3, <2>4, <3>1 DEF Tasks
      <3>2. CASE t = "consumer"
        BY <1>2, <2>3, <2>4, <3>2 DEF Tasks
      <3> QED BY <3>1, <3>2 DEF Tasks
    <2>6. Cardinality(beats) < MaxOps
      BY <1>1, <1>2, <2>5, Counted DEF CountInv
    <2>7. /\ beats' \subseteq Beats /\ IsFiniteSet(beats')
          /\ Cardinality(beats') = Cardinality(beats) + 1
      BY <1>1, <2>1, <2>6, OneMore
    <2> QED BY <1>1, <1>2, <2>1, <2>5, <2>7, Counted DEF CountInv
  <1>16. ASSUME NEW t \in Tasks, Quiesce(t) PROVE CountInv'
    <2>1. /\ plan[t] # <<>> /\ beats' = beats \ {handle} /\ UNCHANGED <<ops, resets>>
          /\ plan' = [plan EXCEPT ![t] = Tail(plan[t])]
      BY <1>16 DEF Quiesce, Doing, Done
    <2>2. beats' \subseteq beats /\ IsFiniteSet(beats)
      BY <2>1 DEF CountInv
    <2>3. IsFiniteSet(beats') /\ Cardinality(beats') <= Cardinality(beats)
      BY <2>2, FS_Subset
    <2>4. Cardinality(beats') \in Nat
      BY <2>3, FS_CardinalityType
    <2>5. plan'[t] = Tail(plan[t]) /\ \A u \in Tasks : u # t => plan'[u] = plan[u]
      BY <1>1, <2>1 DEF PlanType
    <2>6. \A u \in Tasks : Due(plan'[u]) <= Due(plan[u])
      BY <2>1, <2>5, RestOfEnd DEF Due
    <2>7. Due(plan'["app"]) <= Due(plan["app"]) /\ Due(plan'["consumer"]) <= Due(plan["consumer"])
      BY <2>6 DEF Tasks
    <2> QED BY <1>1, <1>2, <2>1, <2>2, <2>3, <2>4, <2>7, Counted DEF CountInv
  <1>17. CASE KillConsumer
    <2>1. /\ plan["app"] # <<>> /\ plan'["app"] = Tail(plan["app"]) /\ plan'["consumer"] = <<>>
          /\ resets' = <<>> /\ UNCHANGED <<ops, beats>>
      BY <1>17 DEF KillConsumer, Doing, Tasks
    <2>2. Due(plan'["app"]) <= Due(plan["app"])
      BY <2>1, RestOfEnd DEF Due
    <2>3. Len(resets') = 0
      BY <2>1
    <2> QED BY <1>1, <1>2, <1>3, <2>1, <2>2, <2>3, Counted DEF CountInv
  <1>18. CASE MakeUnavailable
    BY <1>10, <1>18 DEF MakeUnavailable, Doing, Tasks
  <1>19. CASE UNCHANGED <<ops, beats, plan, resets>>
    BY <1>19 DEF CountInv
  <1> QED
    BY <1>6, <1>7, <1>8, <1>9, <1>11, <1>13, <1>14, <1>15, <1>16, <1>17, <1>18, <1>19
       DEF Next, TaskStep, vars, LinkLost, ReportDisconnected, Tick

\* What TypeOK says besides.
LinkTypes ==
    /\ opened \in [Tasks -> Sessions \cup {None}]
    /\ client \in Sessions \cup {None}
    /\ session \in [Sessions -> {"unused", "open", "ending", "over"}]
    /\ handle \in Beats \cup {None}

LinkSettings ==
    /\ consumer \in {"unborn", "alive", "gone"}
    /\ isConnected \in BOOLEAN
    /\ registration \in Statuses
    /\ connectors \in {"Available", "Unavailable"}

\* Every step keeps them: a heartbeat is named among the Beats because there is room.
LEMMA LinkTypesStep == LinkTypes /\ CountInv' /\ [Next]_vars => LinkTypes'
  <1> SUFFICES ASSUME LinkTypes, CountInv', [Next]_vars PROVE LinkTypes'
    OBVIOUS
  <1> USE DEF link, beat
  <1>1. ASSUME StartHeartbeat, UNCHANGED <<opened, client, session>> PROVE LinkTypes'
    <2>1. handle' \in Beats
      BY <1>1 DEF StartHeartbeat, CountInv
    <2> QED BY <1>1, <2>1 DEF LinkTypes
  <1>2. CASE UNCHANGED <<opened, client, session, handle>>
    BY <1>2 DEF LinkTypes
  <1>3. ASSUME NEW t \in Tasks, Open(t) PROVE LinkTypes'
    BY <1>3 DEF Open, LinkTypes
  <1>4. ASSUME NEW t \in Tasks, Install(t) PROVE LinkTypes'
    BY <1>4 DEF Install, LinkTypes
  <1>5. ASSUME NEW t \in Tasks, Close(t) PROVE LinkTypes'
    BY <1>5 DEF Close, LinkTypes
  <1>6. ASSUME NEW t \in Tasks, Quiesce(t) PROVE LinkTypes'
    BY <1>6 DEF Quiesce, LinkTypes
  <1>7. ASSUME NEW k \in Sessions, LinkLost(k) \/ ReportDisconnected(k) PROVE LinkTypes'
    BY <1>7 DEF LinkLost, ReportDisconnected, LinkTypes
  <1>8. ASSUME NEW status \in Statuses, HandleBootNotificationResponse(status) PROVE LinkTypes'
    BY <1>1, <1>2, <1>8 DEF HandleBootNotificationResponse
  <1>9. ASSUME NEW t \in Tasks, SpawnHeartbeat(t) PROVE LinkTypes'
    BY <1>1, <1>9 DEF SpawnHeartbeat
  <1>10. ASSUME NEW t \in Tasks, TaskStep(t) PROVE LinkTypes'
    BY <1>2, <1>3, <1>4, <1>5, <1>6, <1>9, <1>10
       DEF TaskStep, SetFlag, Boot, BootAnswered, BootFails, Announce
  <1> QED
    BY <1>2, <1>7, <1>8, <1>10
       DEF Next, vars, Start, Connect, StopOrDisconnect, RequestReset, TakeReset, KillConsumer,
           MakeUnavailable, Tick

\* So do the flags and statuses.
LEMMA SettingsStep == LinkSettings /\ [Next]_vars => LinkSettings'
  <1> SUFFICES ASSUME LinkSettings, [Next]_vars PROVE LinkSettings'
    OBVIOUS
  <1> USE DEF link, beat
  <1>1. CASE UNCHANGED <<consumer, isConnected, registration, connectors>>
    BY <1>1 DEF LinkSettings
  <1>2. CASE Start \/ Connect
    BY <1>2 DEF Start, Connect, SpawnConsumer, LinkSettings
  <1>3. ASSUME NEW status \in Statuses, HandleBootNotificationResponse(status) PROVE LinkSettings'
    BY <1>3 DEF HandleBootNotificationResponse, LinkSettings
  <1>4. ASSUME NEW t \in Tasks, SetFlag(t) PROVE LinkSettings'
    BY <1>4 DEF SetFlag, LinkSettings
  <1>5. ASSUME NEW t \in Tasks, NEW status \in Statuses, BootAnswered(t, status) PROVE LinkSettings'
    BY <1>5 DEF BootAnswered, LinkSettings
  <1>6. CASE KillConsumer
    BY <1>6 DEF KillConsumer, LinkSettings
  <1>7. CASE MakeUnavailable
    BY <1>7 DEF MakeUnavailable, LinkSettings
  <1>8. ASSUME NEW k \in Sessions, LinkLost(k) \/ ReportDisconnected(k) PROVE LinkSettings'
    BY <1>8 DEF LinkLost, ReportDisconnected, LinkSettings
  <1>9. ASSUME NEW t \in Tasks, TaskStep(t) PROVE LinkSettings'
    BY <1>1, <1>4, <1>5, <1>9
       DEF TaskStep, Open, Install, Close, Boot, BootFails, Announce, SpawnHeartbeat, Quiesce
  <1> QED
    BY <1>1, <1>2, <1>3, <1>6, <1>7, <1>8, <1>9
       DEF Next, vars, StopOrDisconnect, RequestReset, TakeReset, Tick

\* Type correctness; in particular the code never runs more heartbeats than operations
\* were begun, clash or not, although a replaced handle leaves its task running.
THEOREM LinkTypeCorrect == Spec => []TypeOK
  <1>1. Init => CountInv /\ LinkTypes /\ LinkSettings
    <2> SUFFICES ASSUME Init PROVE CountInv /\ LinkTypes /\ LinkSettings
      OBVIOUS
    <2>1. Due(<<>>) = 0
      BY DEF Due, Ends
    <2>2. plan["app"] = <<>> /\ plan["consumer"] = <<>> /\ resets = <<>> /\ beats = {} /\ ops = 0
      BY DEF Init, Tasks
    <2>3. CountInv
      BY <2>1, <2>2, FS_EmptySet, LinkAssumption DEF CountInv
    <2>4. LinkTypes /\ LinkSettings
      BY DEF Init, LinkTypes, LinkSettings, Statuses
    <2> QED BY <2>3, <2>4
  <1>2. IInv /\ CountInv /\ LinkTypes /\ LinkSettings => TypeOK
    <2> SUFFICES ASSUME IInv, CountInv, LinkTypes, LinkSettings PROVE TypeOK
      OBVIOUS
    <2>1. \A t \in Tasks : attempt[t] \in 0..(MaxBootRetries + 1)
      BY LinkAssumption DEF IInv, AttemptInv
    <2>2. \A i \in DOMAIN resets : resets[i] \in Resets
      BY DEF IInv, ResetsType
    <2> QED BY <2>1, <2>2 DEF CountInv, LinkTypes, LinkSettings, TypeOK
  <1> QED
    BY <1>1, <1>2, Invariance, CountStep, LinkTypesStep, SettingsStep, PTL DEF Spec
=============================================================================
