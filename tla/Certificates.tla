---------------------------- MODULE Certificates ----------------------------
(***************************************************************************)
(* Certificates of a 2.0.1 station (ocpp-cp/src/lib.rs,                    *)
(* v201_certificate_store.rs, v201_pending_csr.rs): the trust anchors the  *)
(* CSMS installs, lists and deletes by hash, and the provisioning of the   *)
(* station's own certificate, in which SignCertificate is answered at once *)
(* and the signed chain comes later as a CertificateSigned CALL that one   *)
(* pending marker correlates with the request.                             *)
(*                                                                         *)
(* SignCertificate is sent by the application and, on a trigger, by the    *)
(* command consumer; CertificateSigned is handled by the receive loop.  A  *)
(* PEM is a token; its armour and its body decide what is made of it.      *)
(***************************************************************************)
EXTENDS Naturals, FiniteSets

CONSTANTS
    Uses,        \* InstallCertificateUseEnumType
    Pems,        \* certificates that are PEM armoured and have a body
    Signers,     \* the tasks that may send SignCertificate
    CsrTypes,    \* certificateType of a request, or none
    MaxCsrs      \* bound: SignCertificate requests accepted

NoPem == "no pem"          \* an empty slot
BadPems == {"not armoured", "no body"}
NoMarker == [type |-> "nothing", seq |-> 0]

ASSUME CertAssumption ==
    /\ MaxCsrs \in Nat
    /\ Pems \cap (BadPems \cup {NoPem}) = {}

VARIABLES
    certs,       \* V201CertificateStore: the PEM installed for each use
    listing,     \* the hashes the CSMS was last told of
    signing,     \* each signer: where its request_sign_certificate is
    nextSeq,     \* next_seq, counted from 1
    pending,     \* the marker, or NoMarker
    credited,    \* history: <<k, m>> when the delivery that answers request k (0:
                 \* no numbered one) was correlated with the marker of request m
    displaced    \* history: the requests whose marker another one replaced

certVars == <<certs, listing, signing, nextSeq, pending, credited, displaced>>

NoSigning == [at |-> "idle", type |-> "nothing", seq |-> 0]

CertInit ==
    /\ certs = [u \in Uses |-> NoPem]
    /\ listing = {}
    /\ signing = [s \in Signers |-> NoSigning]
    /\ nextSeq = 1
    /\ pending = NoMarker
    /\ credited = {}
    /\ displaced = {}

---------------------------------------------------------------------------
(* Trust anchors *)

\* v201_install_certificate_status
InstallStatus(pem) ==
    CASE pem = "not armoured" -> "Rejected"
      [] pem = "no body" -> "Failed"
      [] OTHER -> "Accepted"

\* One certificate per use: another replaces it.
InstallCertificate(u, pem) ==
    /\ certs' = IF InstallStatus(pem) = "Accepted" THEN [certs EXCEPT ![u] = pem] ELSE certs
    /\ UNCHANGED <<listing, signing, nextSeq, pending, credited, displaced>>

\* v201_certificate_hash_data, over the use and the PEM; taken to be injective.
CertificateHashData(u, pem) == <<u, pem>>

\* v201_get_installed_certificate_ids_matches, for the uses asked for.
GetInstalledCertificateIds(asked) ==
    /\ listing' = {CertificateHashData(u, certs[u]) : u \in {v \in asked : certs[v] # NoPem}}
    /\ UNCHANGED <<certs, signing, nextSeq, pending, credited, displaced>>

\* v201_delete_certificate_target: the use whose certificate has the hash.
DeleteTarget(hash) == {u \in Uses : certs[u] # NoPem /\ CertificateHashData(u, certs[u]) = hash}

DeleteCertificate(hash) ==
    /\ hash \in listing
    /\ \/ /\ DeleteTarget(hash) = {}                   \* NotFound
          /\ UNCHANGED certs
       \/ \E u \in DeleteTarget(hash) : certs' = [certs EXCEPT ![u] = NoPem]
    /\ UNCHANGED <<listing, signing, nextSeq, pending, credited, displaced>>

---------------------------------------------------------------------------
(* Provisioning *)

\* request_sign_certificate, by the application or trigger_v201_sign_certificate.
SignCertificate(s, type) ==
    /\ signing[s].at = "idle"
    /\ signing' = [signing EXCEPT ![s] = [at |-> "calling", type |-> type, seq |-> 0]]
    /\ UNCHANGED <<certs, listing, nextSeq, pending, credited, displaced>>

\* The CALL fails or is answered Rejected: nothing is awaited.
SignRefused(s) ==
    /\ signing[s].at = "calling"
    /\ signing' = [signing EXCEPT ![s] = NoSigning]
    /\ UNCHANGED <<certs, listing, nextSeq, pending, credited, displaced>>

\* Accepted.  From here on the CSMS may deliver, whether the marker is there or not.
SignAccepted(s) ==
    /\ signing[s].at = "calling"
    /\ signing' = [signing EXCEPT ![s].at = "accepted"]
    /\ UNCHANGED <<certs, listing, nextSeq, pending, credited, displaced>>

\* record: the number is drawn before the lock of the slot is taken ...
DrawSeq(s) ==
    /\ signing[s].at = "accepted"
    /\ nextSeq <= MaxCsrs
    /\ signing' = [signing EXCEPT ![s] = [at |-> "drawn", type |-> @.type, seq |-> nextSeq]]
    /\ nextSeq' = nextSeq + 1
    /\ UNCHANGED <<certs, listing, pending, credited, displaced>>

\* ... and the marker then replaces whatever was pending.
Record(s) ==
    /\ signing[s].at = "drawn"
    /\ pending' = [type |-> signing[s].type, seq |-> signing[s].seq]
    /\ signing' = [signing EXCEPT ![s] = NoSigning]
    /\ displaced' = IF pending = NoMarker THEN displaced ELSE displaced \cup {pending.seq}
    /\ UNCHANGED <<certs, listing, nextSeq, credited>>

\* correlate_accepted takes the marker out.
TakenMarker == NoMarker

\* v201_certificate_signed_status: a chain without armour or body is Rejected.
ChainUsable(pem) == pem \notin BadPems

\* Mutant: the marker is taken before the chain is looked at.
CertificateSignedTakesFirst(pem, k) ==
    /\ k < nextSeq
    /\ pending' = TakenMarker
    /\ credited' = IF ChainUsable(pem) /\ pending # NoMarker
                   THEN credited \cup {<<k, pending.seq>>} ELSE credited
    /\ UNCHANGED <<certs, listing, signing, nextSeq, displaced>>

\* The CSMS delivers a chain, in answer to the request numbered k or (k = 0) to
\* none.  Nothing in the CALL names the request: whatever marker is there is taken,
\* and its type is compared only for the log.
CertificateSigned(pem, k) ==
    /\ k < nextSeq
    /\ IF ChainUsable(pem)
       THEN /\ pending' = TakenMarker
            /\ credited' = IF pending = NoMarker THEN credited        \* Unsolicited
                           ELSE credited \cup {<<k, pending.seq>>}
       ELSE UNCHANGED <<pending, credited>>
    /\ UNCHANGED <<certs, listing, signing, nextSeq, displaced>>

CertNext ==
    \/ \E u \in Uses, pem \in Pems \cup BadPems : InstallCertificate(u, pem)
    \/ \E asked \in SUBSET Uses : GetInstalledCertificateIds(asked)
    \/ \E hash \in listing : DeleteCertificate(hash)
    \/ \E s \in Signers :
        \/ \E type \in CsrTypes : SignCertificate(s, type)
        \/ SignRefused(s)
        \/ SignAccepted(s)
        \/ DrawSeq(s)
        \/ Record(s)
    \/ \E pem \in Pems \cup BadPems, k \in 0..MaxCsrs : CertificateSigned(pem, k)

CertSpec == CertInit /\ [][CertNext]_certVars

---------------------------------------------------------------------------
(* Properties *)

CertTypeOK ==
    /\ certs \in [Uses -> Pems \cup {NoPem}]
    /\ \A s \in Signers : signing[s].at \in {"idle", "calling", "accepted", "drawn"}
    /\ nextSeq \in 1..(MaxCsrs + 1)
    /\ pending.seq \in 0..MaxCsrs
    /\ credited \subseteq (0..MaxCsrs) \X (1..MaxCsrs)
    /\ displaced \subseteq 1..MaxCsrs

Drawn(k) == \E s \in Signers : signing[s].at = "drawn" /\ signing[s].seq = k
Credited(k) == \E d \in credited : d[2] = k

\* Every request that has drawn its number is in one place: with its signer, about
\* to be recorded; outstanding, "left in place for a later, usable
\* CertificateSigned" when a delivery is rejected (v201_pending_csr.rs 166-168);
\* or done with for good, credited with an accepted delivery or displaced by
\* another request, in whichever order the two were recorded.
RequestsAccountedFor ==
    \A k \in 1..(nextSeq - 1) :
        /\ Drawn(k) \/ pending.seq = k \/ Credited(k) \/ k \in displaced
        /\ Drawn(k) \/ pending.seq = k => ~Credited(k) /\ k \notin displaced

(* What the comments of the source claim and the code does not keep *)

\* "a second accepted request supersedes the first (whose delivery, if it ever
\* arrives, then correlates as Unsolicited)": no delivery is credited to a request
\* other than the one it answers.
DisplacedIsUnsolicited == \A d \in credited : d[1] # 0 => d[1] = d[2]

\* "every recorded marker carries a distinct, increasing seq": a marker is never
\* replaced by one with a smaller number, so the later request is the one that is
\* outstanding.
LaterIsOutstanding ==
    [][pending # NoMarker /\ pending' # NoMarker => pending'.seq >= pending.seq]_certVars
============================================================================
