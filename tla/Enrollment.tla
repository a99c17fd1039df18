------------------------------ MODULE Enrollment -------------------------------
(***************************************************************************)
(* Enrollments beside the requests of Delegation.  An enrollment reads the *)
(* identity several times, for the right to a CA certificate, for the      *)
(* organisational units and for the attributes, while it is modified or    *)
(* deleted; each read may refuse it.  What is signed is made from the CSR  *)
(* alone: of all that was checked and read, the certificate has the name,  *)
(* which must be the one that was authenticated, and the right to sign.    *)
(***************************************************************************)
EXTENDS Delegation

CONSTANTS
    Enrollments,    \* requests to enroll or to reenroll, beside Requests
    Asks            \* what they may ask for: a profile of CAs, a CSR of a CA,
                    \* attributes by name, required or not

ASSUME EnrollmentAssumption ==
    /\ IsFiniteSet(Enrollments)
    /\ \A ask \in Asks : /\ ask.profile \in BOOLEAN /\ ask.csr \in BOOLEAN
                         /\ ask.required \in BOOLEAN /\ ask.names \subseteq Texts

VARIABLES
    enr,    \* Enrollments -> the request in its goroutine, in the end the certificate
    seen    \* Enrollments -> the records that the identity had since it began

enrollVars == <<vars, enr, seen>>

Begun == {e \in Enrollments : enr[e].pc # "idle"}
Under(e) == enr[e].pc \in {"ca", "caller", "attrs", "sign"}
Step(e, r) == enr' = [enr EXCEPT ![e] = r] /\ UNCHANGED <<vars, seen>>

\* GetUser
Found(id) == users[id] # NoUser

\* Variant: only the profile is looked at.
ForCAByProfile(ask) == ask.profile

\* isRequestForCASigningCert
ForCA(ask) == ask.profile \/ ask.csr

\* attributeIsTrue
IsTrue(user, name) == Value(user.attrs, name) = {"true"}

-----------------------------------------------------------------------------
\* BasicAuthentication of an identity, or TokenAuthentication with an earlier
\* certificate, which the identity may not have outlived.
Authenticate(e, id, ask) ==
    /\ enr[e].pc = "idle"
    /\ calls + Cardinality(Begun) < MaxCalls
    /\ enr' = [enr EXCEPT ![e] = [pc |-> IF ForCA(ask) THEN "ca" ELSE "caller", id |-> id,
                                  ask |-> ask, ca |-> FALSE]]
    /\ seen' = [seen EXCEPT ![e] = {users[id]}]
    /\ UNCHANGED vars

\* processSignRequest: who asks for a CA certificate has hf.IntermediateCA.
CheckCA(e) ==
    /\ enr[e].pc = "ca"
    /\ Found(enr[e].id) /\ IsTrue(users[enr[e].id], "hf.IntermediateCA")
    /\ Step(e, [enr[e] EXCEPT !.pc = "caller"])

\* GetCaller and setRequestOUs
SetRequestOUs(e) ==
    /\ enr[e].pc = "caller"
    /\ Found(enr[e].id)
    /\ Step(e, [enr[e] EXCEPT !.pc = "attrs"])

\* GetAttrExtension: what is asked for, if it is not required, may be missing.
GetAttrExtension(e) ==
    LET ask == enr[e].ask
    IN  /\ enr[e].pc = "attrs"
        /\ Found(enr[e].id)
        /\ ask.required => ask.names \subseteq DOMAIN users[enr[e].id].attrs
        /\ Step(e, [enr[e] EXCEPT !.pc = "sign"])

\* signCert and parseCertificateRequest: whether the certificate is a CA's, the
\* CSR says; units, attributes and profile do not get there.
Sign(e) ==
    /\ enr[e].pc = "sign"
    /\ Step(e, [enr[e] EXCEPT !.pc = "issued", !.ca = enr[e].ask.csr])

\* The request is refused, or fails, or its server dies.
Abandon(e) ==
    /\ Under(e)
    /\ Step(e, [enr[e] EXCEPT !.pc = "over"])

\* A request of Delegation; the enrollments see what the identity has become.
Manage ==
    /\ Next
    /\ calls' + Cardinality(Begun) <= MaxCalls
    /\ seen' = [e \in Enrollments |->
                  IF Under(e) THEN seen[e] \cup {users'[enr[e].id]} ELSE seen[e]]
    /\ UNCHANGED enr

NoEnrollment == [pc |-> "idle", id |-> "none", ask |-> "none", ca |-> FALSE]

EnrollInit ==
    /\ Init
    /\ enr = [e \in Enrollments |-> NoEnrollment]
    /\ seen = [e \in Enrollments |-> {}]

Enroll(e) ==
    \/ \E id \in IDs, ask \in Asks : Authenticate(e, id, ask)
    \/ CheckCA(e) \/ SetRequestOUs(e) \/ GetAttrExtension(e) \/ Sign(e) \/ Abandon(e)

EnrollNext == Manage \/ \E e \in Enrollments : Enroll(e)

EnrollSpec == EnrollInit /\ [][EnrollNext]_enrollVars

-----------------------------------------------------------------------------
(* Properties *)

Issued(e) == enr[e].pc = "issued"

TypedEnrollment(r) ==
    /\ r.pc \in {"ca", "caller", "attrs", "sign", "issued", "over"}
    /\ r.id \in IDs /\ r.ask \in Asks /\ r.ca \in BOOLEAN

\* Enrollments keep their shape.
EnrollmentTypeOK ==
    \A e \in Enrollments : e \in Begun => TypedEnrollment(enr[e])

\* A certificate that may sign others is issued only to an identity that had
\* hf.IntermediateCA at some time while it was enrolled: the check looks at
\* profile and CSR, the signature at the CSR, and the right may be granted,
\* taken back, overwritten or gone with the identity between the two
\* (isRequestForCASigningCert, processSignRequest, parseCertificateRequest).
CAIsAuthorized ==
    \A e \in Enrollments : Issued(e) /\ enr[e].ca =>
        \E user \in seen[e] : IsTrue(user, "hf.IntermediateCA")

\* No CA certificate is issued at all unless an identity of the configuration
\* had hf.IntermediateCA, whatever registrars do for each other
\* (CanRegisterRequestedAttributes, attributeIsTrue).
CAIsConfigured ==
    \A e \in Enrollments : Issued(e) /\ enr[e].ca =>
        \E id \in DOMAIN Configured : IsTrue(Configured[id], "hf.IntermediateCA")
=============================================================================
