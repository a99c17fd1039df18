--------------------------- MODULE EnrollmentProofs ----------------------------
(***************************************************************************)
(* Proofs about Enrollment, for any number of enrollments and requests.    *)
(* What DelegationProofs shows of the stored identities holds beside       *)
(* enrollments as well, and passes on to what they read.                   *)
(***************************************************************************)
EXTENDS Enrollment, DelegationProofs

-----------------------------------------------------------------------------
(* Delegation goes on as before *)

LEMMA EnrollmentStutters ==
    ASSUME [EnrollNext]_enrollVars
    PROVE  [Next]_vars
<1>1. CASE Manage
    BY <1>1 DEF Manage
<1>2. ASSUME NEW e \in Enrollments, Enroll(e) PROVE UNCHANGED vars
    BY <1>2 DEF Enroll, Authenticate, CheckCA, SetRequestOUs, GetAttrExtension, Sign, Abandon, Step
<1>3. CASE UNCHANGED enrollVars
    BY <1>3 DEF enrollVars
<1> QED BY <1>1, <1>2, <1>3 DEF EnrollNext

\* Beside enrollments, requests do what they do without them: Enrollment
\* implements Delegation.
THEOREM ImplementsDelegation == EnrollSpec => Spec
<1>1. EnrollInit => Init
    BY DEF EnrollInit
<1>2. [EnrollNext]_enrollVars => [Next]_vars
    BY EnrollmentStutters
<1> QED BY <1>1, <1>2, PTL DEF EnrollSpec, Spec

-----------------------------------------------------------------------------
(* What an enrollment has read *)

\* A record that an identity may have had.
GoodRecord(id, user) == user = NoUser \/ (IsUser(user) /\ GoodUser(id, user))

ReadCA(r, records) ==
    r.pc \in {"caller", "attrs", "sign", "issued"} /\ ForCA(r.ask) =>
        \E user \in records : IsTrue(user, "hf.IntermediateCA")

GoodEnrollment(r, records) ==
    /\ TypedEnrollment(r)
    /\ \A user \in records : GoodRecord(r.id, user)
    /\ ReadCA(r, records)
    /\ r.ca => r.pc = "issued" /\ r.ask.csr

EnrollmentInv ==
    /\ Inv
    /\ enr = [e \in Enrollments |-> enr[e]] /\ seen = [e \in Enrollments |-> seen[e]]
    /\ \A e \in Enrollments : enr[e].pc # "idle" => GoodEnrollment(enr[e], seen[e])
    /\ \A e \in Enrollments : Under(e) => users[enr[e].id] \in seen[e]

\* More records, and a step of the request that reads nothing, leave it good.
LEMMA MoreRecords ==
    ASSUME NEW r, NEW records, NEW user, GoodEnrollment(r, records), GoodRecord(r.id, user)
    PROVE  GoodEnrollment(r, records \cup {user})
BY DEF GoodEnrollment, ReadCA

\* The rows of the table are good records.
LEMMA RowsGood ==
    ASSUME Inv, NEW id \in IDs
    PROVE  GoodRecord(id, users[id])
BY DEF Inv, TypeOK, GoodRecord

\* A step of one enrollment keeps what the others have.
LEMMA EnrollmentStep ==
    ASSUME EnrollmentInv, NEW e \in Enrollments, NEW r, NEW records,
           enr' = [enr EXCEPT ![e] = r], seen' = [seen EXCEPT ![e] = records],
           UNCHANGED vars,
           GoodEnrollment(r, records), users[r.id] \in records
    PROVE  EnrollmentInv'
<1>1. Inv'
    <2>1. [Next]_vars
        OBVIOUS
    <2> QED BY <2>1, NextInv DEF EnrollmentInv
<1>2. users' = users
    BY DEF vars
<1>3. enr' = [d \in Enrollments |-> enr'[d]] /\ seen' = [d \in Enrollments |-> seen'[d]]
    BY DEF EnrollmentInv
<1>4. enr'[e] = r /\ seen'[e] = records
    BY DEF EnrollmentInv
<1>5. \A d \in Enrollments : d # e => enr'[d] = enr[d] /\ seen'[d] = seen[d]
    BY DEF EnrollmentInv
<1>6. \A d \in Enrollments : enr'[d].pc # "idle" => GoodEnrollment(enr'[d], seen'[d])
    BY <1>4, <1>5 DEF EnrollmentInv
<1>7. \A d \in Enrollments : Under(d)' => users'[enr'[d].id] \in seen'[d]
    <2> SUFFICES ASSUME NEW d \in Enrollments, Under(d)' PROVE users'[enr'[d].id] \in seen'[d]
        OBVIOUS
    <2>1. CASE d = e
        BY <2>1, <1>2, <1>4
    <2>2. CASE d # e
        <3>1. Under(d)
            BY <2>2, <1>5 DEF Under
        <3> QED BY <2>2, <3>1, <1>2, <1>5 DEF EnrollmentInv
    <2> QED BY <2>1, <2>2
<1> QED BY <1>1, <1>3, <1>6, <1>7 DEF EnrollmentInv

\* A step without a read keeps the records.
LEMMA SameRecords ==
    ASSUME EnrollmentInv, NEW e \in Enrollments, NEW r, Step(e, r), Under(e),
           GoodEnrollment(r, seen[e]), r.id = enr[e].id
    PROVE  EnrollmentInv'
<1>1. seen' = [seen EXCEPT ![e] = seen[e]]
    BY DEF EnrollmentInv, Step
<1> QED BY <1>1, EnrollmentStep DEF EnrollmentInv, Step

LEMMA EnrollInitInv == EnrollInit => EnrollmentInv
<1> SUFFICES ASSUME EnrollInit PROVE EnrollmentInv
    OBVIOUS
<1>1. Inv
    BY InitInv DEF EnrollInit
<1>2. \A e \in Enrollments : enr[e].pc = "idle"
    BY DEF EnrollInit, NoEnrollment
<1> QED BY <1>1, <1>2 DEF EnrollmentInv, EnrollInit, Under

LEMMA AuthenticateInv ==
    ASSUME EnrollmentInv, NEW e \in Enrollments, NEW id \in IDs, NEW ask \in Asks,
           Authenticate(e, id, ask)
    PROVE  EnrollmentInv'
<1> DEFINE r == [pc |-> IF ForCA(ask) THEN "ca" ELSE "caller", id |-> id, ask |-> ask, ca |-> FALSE]
<1>1. enr' = [enr EXCEPT ![e] = r] /\ seen' = [seen EXCEPT ![e] = {users[id]}] /\ UNCHANGED vars
    BY DEF Authenticate
<1>2. /\ r.pc = IF ForCA(ask) THEN "ca" ELSE "caller"
      /\ r.id = id /\ r.ask = ask /\ r.ca = FALSE
    OBVIOUS
<1> HIDE DEF r
<1>3. TypedEnrollment(r)
    BY <1>2 DEF TypedEnrollment
<1>4. GoodRecord(id, users[id])
    BY RowsGood DEF EnrollmentInv
<1>5. ReadCA(r, {users[id]})
    BY <1>2 DEF ReadCA
<1>6. GoodEnrollment(r, {users[id]})
    BY <1>2, <1>3, <1>4, <1>5 DEF GoodEnrollment
<1> QED BY <1>1, <1>2, <1>6, EnrollmentStep

LEMMA CheckCAInv ==
    ASSUME EnrollmentInv, NEW e \in Enrollments, CheckCA(e)
    PROVE  EnrollmentInv'
<1> DEFINE r == [enr[e] EXCEPT !.pc = "caller"]
<1>1. Step(e, r) /\ Under(e) /\ enr[e].pc = "ca" /\ IsTrue(users[enr[e].id], "hf.IntermediateCA")
    BY DEF CheckCA, Under
<1>2. GoodEnrollment(enr[e], seen[e]) /\ users[enr[e].id] \in seen[e]
    BY <1>1 DEF EnrollmentInv
<1>3. r.pc = "caller" /\ r.id = enr[e].id /\ r.ask = enr[e].ask /\ r.ca = enr[e].ca
    BY <1>2 DEF GoodEnrollment, TypedEnrollment
<1> HIDE DEF r
<1>4. GoodEnrollment(r, seen[e])
    BY <1>1, <1>2, <1>3 DEF GoodEnrollment, TypedEnrollment, ReadCA
<1> QED BY <1>1, <1>3, <1>4, SameRecords

\* setRequestOUs and GetAttrExtension may refuse; what they read is not signed.
LEMMA LookedUpInv ==
    ASSUME EnrollmentInv, NEW e \in Enrollments, SetRequestOUs(e) \/ GetAttrExtension(e)
    PROVE  EnrollmentInv'
<1>1. PICK pc \in {"attrs", "sign"} :
          Step(e, [enr[e] EXCEPT !.pc = pc]) /\ Under(e) /\ enr[e].pc \in {"caller", "attrs"}
    BY DEF SetRequestOUs, GetAttrExtension, Under
<1> DEFINE r == [enr[e] EXCEPT !.pc = pc]
<1>2. GoodEnrollment(enr[e], seen[e])
    BY <1>1 DEF EnrollmentInv, Under
<1>3. r.pc = pc /\ r.id = enr[e].id /\ r.ask = enr[e].ask /\ r.ca = enr[e].ca
    BY <1>2 DEF GoodEnrollment, TypedEnrollment
<1>4. Step(e, r)
    BY <1>1
<1> HIDE DEF r
<1>5. GoodEnrollment(r, seen[e])
    BY <1>1, <1>2, <1>3 DEF GoodEnrollment, TypedEnrollment, ReadCA
<1> QED BY <1>1, <1>3, <1>4, <1>5, SameRecords

LEMMA ManageInv ==
    ASSUME EnrollmentInv, Manage
    PROVE  EnrollmentInv'
<1>1. Inv'
    <2>1. [Next]_vars
        BY DEF Manage
    <2> QED BY <2>1, NextInv DEF EnrollmentInv
<1>2. enr' = enr
    BY DEF Manage
<1>3. \A e \in Enrollments :
          seen'[e] = IF Under(e) THEN seen[e] \cup {users'[enr[e].id]} ELSE seen[e]
    BY DEF Manage
<1>4. seen' = [e \in Enrollments |-> seen'[e]]
    BY DEF Manage
<1>5. ASSUME NEW e \in Enrollments, enr[e].pc # "idle" PROVE GoodEnrollment(enr[e], seen'[e])
    <2>1. GoodEnrollment(enr[e], seen[e])
        BY <1>5 DEF EnrollmentInv
    <2>2. CASE ~Under(e)
        BY <2>1, <2>2, <1>3
    <2>3. CASE Under(e)
        <3>1. enr[e].id \in IDs
            BY <2>1 DEF GoodEnrollment, TypedEnrollment
        <3>2. GoodRecord(enr[e].id, users'[enr[e].id])
            BY <1>1, <3>1 DEF Inv, TypeOK, GoodRecord
        <3>3. GoodEnrollment(enr[e], seen[e] \cup {users'[enr[e].id]})
            BY <2>1, <3>2, MoreRecords
        <3>4. seen'[e] = seen[e] \cup {users'[enr[e].id]}
            BY <2>3, <1>3
        <3> QED BY <3>3, <3>4
    <2> QED BY <2>2, <2>3
<1>6. ASSUME NEW e \in Enrollments, Under(e)' PROVE users'[enr'[e].id] \in seen'[e]
    BY <1>2, <1>3, <1>6 DEF Under
<1> QED BY <1>1, <1>2, <1>4, <1>5, <1>6 DEF EnrollmentInv

\* signCert and a refusal read nothing.
LEMMA EndInv ==
    ASSUME EnrollmentInv, NEW e \in Enrollments, Sign(e) \/ Abandon(e)
    PROVE  EnrollmentInv'
<1>1. PICK r : /\ Step(e, r)
               /\ \/ enr[e].pc = "sign" /\ r = [enr[e] EXCEPT !.pc = "issued", !.ca = enr[e].ask.csr]
                  \/ Under(e) /\ r = [enr[e] EXCEPT !.pc = "over"]
    BY DEF Sign, Abandon
<1>2. Under(e) /\ GoodEnrollment(enr[e], seen[e])
    BY <1>1 DEF EnrollmentInv, Under
<1>3. /\ r.id = enr[e].id /\ r.ask = enr[e].ask
      /\ \/ enr[e].pc = "sign" /\ r.pc = "issued" /\ r.ca = enr[e].ask.csr
         \/ r.pc = "over" /\ r.ca = enr[e].ca
    <2>1. CASE enr[e].pc = "sign" /\ r = [enr[e] EXCEPT !.pc = "issued", !.ca = enr[e].ask.csr]
        BY <2>1
    <2>2. CASE r = [enr[e] EXCEPT !.pc = "over"]
        BY <2>2
    <2> QED BY <1>1, <2>1, <2>2
<1>4. enr[e].ca = FALSE /\ enr[e].ask.csr \in BOOLEAN
    BY <1>2, EnrollmentAssumption DEF GoodEnrollment, TypedEnrollment, Under
<1>5. TypedEnrollment(r)
    BY <1>2, <1>3, <1>4 DEF GoodEnrollment, TypedEnrollment
<1>6. ReadCA(r, seen[e])
    BY <1>2, <1>3 DEF GoodEnrollment, ReadCA
<1>7. GoodEnrollment(r, seen[e])
    BY <1>2, <1>3, <1>4, <1>5, <1>6 DEF GoodEnrollment
<1> QED BY <1>1, <1>2, <1>3, <1>7, SameRecords

LEMMA EnrollNextInv == EnrollmentInv /\ [EnrollNext]_enrollVars => EnrollmentInv'
<1> SUFFICES ASSUME EnrollmentInv, [EnrollNext]_enrollVars PROVE EnrollmentInv'
    OBVIOUS
<1>1. CASE Manage
    BY <1>1, ManageInv
<1>2. ASSUME NEW e \in Enrollments, Enroll(e) PROVE EnrollmentInv'
    BY <1>2, AuthenticateInv, CheckCAInv, LookedUpInv, EndInv DEF Enroll
<1>3. CASE UNCHANGED enrollVars
    <2>1. Inv'
        BY <1>3, NextInv DEF EnrollmentInv, enrollVars
    <2>2. enr' = enr /\ seen' = seen /\ users' = users
        BY <1>3 DEF enrollVars, vars
    <2> QED BY <2>1, <2>2 DEF EnrollmentInv, Under
<1> QED BY <1>1, <1>2, <1>3 DEF EnrollNext

LEMMA EnrollInvariance == EnrollSpec => []EnrollmentInv
<1>1. EnrollInit => EnrollmentInv
    BY EnrollInitInv
<1>2. EnrollmentInv /\ [EnrollNext]_enrollVars => EnrollmentInv'
    BY EnrollNextInv
<1> QED BY <1>1, <1>2, PTL DEF EnrollSpec

-----------------------------------------------------------------------------
(* Theorems *)

\* Enrollments keep their shape, for any identities and requests.
THEOREM EnrollmentTypeCorrect == EnrollSpec => []EnrollmentTypeOK
<1>1. EnrollmentInv => EnrollmentTypeOK
    BY DEF EnrollmentInv, EnrollmentTypeOK, GoodEnrollment, Begun
<1> QED BY <1>1, EnrollInvariance, PTL

\* A CA certificate goes only to who had hf.IntermediateCA while enrolling.
THEOREM CAsAuthorized == EnrollSpec => []CAIsAuthorized
<1>1. EnrollmentInv => CAIsAuthorized
    <2> SUFFICES ASSUME EnrollmentInv, NEW e \in Enrollments, Issued(e), enr[e].ca
                 PROVE  \E user \in seen[e] : IsTrue(user, "hf.IntermediateCA")
        BY DEF CAIsAuthorized
    <2>1. ReadCA(enr[e], seen[e]) /\ enr[e].ask.csr
        BY DEF EnrollmentInv, GoodEnrollment, Issued
    <2> QED BY <2>1 DEF ReadCA, Issued, ForCA
<1> QED BY <1>1, EnrollInvariance, PTL

\* No CA certificate is issued unless an identity of the configuration had the
\* right, for any sequence of registrations, modifications and enrollments.
THEOREM CAsConfigured == EnrollSpec => []CAIsConfigured
<1>1. EnrollmentInv => CAIsConfigured
    <2> SUFFICES ASSUME EnrollmentInv, NEW e \in Enrollments, Issued(e), enr[e].ca
                 PROVE  \E id \in DOMAIN Configured : IsTrue(Configured[id], "hf.IntermediateCA")
        BY DEF CAIsConfigured
    <2>1. GoodEnrollment(enr[e], seen[e])
        BY DEF EnrollmentInv, Issued
    <2>2. PICK user \in seen[e] : IsTrue(user, "hf.IntermediateCA")
        BY <2>1 DEF GoodEnrollment, ReadCA, Issued, ForCA
    <2>3. user # NoUser
        BY <2>2, NoneFacts DEF IsTrue, NoUser
    <2>4. Powers(user.attrs) \subseteq InitialPowers
        BY <2>1, <2>3 DEF GoodEnrollment, GoodRecord, GoodUser
    <2>5. <<"hf.IntermediateCA", "true">> \in Powers(user.attrs)
        BY <2>2 DEF Powers, IsTrue, Booleans
    <2>6. PICK id \in DOMAIN Configured :
              <<"hf.IntermediateCA", "true">> \in Powers(Configured[id].attrs)
        BY <2>4, <2>5 DEF InitialPowers
    <2>7. Value(Configured[id].attrs, "hf.IntermediateCA") = {"true"}
        BY <2>6 DEF Powers, Roles, DelegateRoles, RegistrarAttr
    <2> QED BY <2>7 DEF IsTrue
<1> QED BY <1>1, EnrollInvariance, PTL
=============================================================================
