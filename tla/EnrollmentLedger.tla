-------------------------- MODULE EnrollmentLedger --------------------------
(***************************************************************************)
(* What the CA promises about membership and certificates, whatever its    *)
(* handlers do in between: a certificate belongs to one identity for ever  *)
(* and is never good again once it was withdrawn, no enrollment is         *)
(* answered that has no certificate of its own, and whoever is deleted     *)
(* loses every certificate in the same step.                               *)
(***************************************************************************)
EXTENDS Naturals, FiniteSets

CONSTANTS
    Ids,        \* enrollment IDs
    Serials,    \* certificate serial numbers
    Founders,   \* the identities of the configuration
    None        \* no identity

VARIABLES
    member,     \* the identities that are registered
    owner,      \* Serials -> the identity a certificate was issued to, or None
    good,       \* the certificates that are not revoked
    answered    \* Ids -> enrollments answered with success since registration

Issued(id) == {s \in Serials : owner[s] = id}

Register(id) ==
    /\ member' = member \cup {id}
    /\ answered' = [answered EXCEPT ![id] = 0]
    /\ UNCHANGED <<owner, good>>

Issue(s, id) ==
    /\ owner[s] = None
    /\ owner' = [owner EXCEPT ![s] = id]
    /\ good' = good \cup {s}
    /\ UNCHANGED <<member, answered>>

Answer(id) ==
    /\ id \in member
    /\ answered[id] < Cardinality(Issued(id))
    /\ answered' = [answered EXCEPT ![id] = @ + 1]
    /\ UNCHANGED <<member, owner, good>>

Withdraw(s) == good' = good \ {s} /\ UNCHANGED <<member, owner, answered>>

WithdrawAll(id) == good' = good \ Issued(id) /\ UNCHANGED <<member, owner, answered>>

Delete(id) ==
    /\ id \in member
    /\ member' = member \ {id}
    /\ good' = good \ Issued(id)
    /\ UNCHANGED <<owner, answered>>

Init ==
    /\ member = Founders
    /\ owner = [s \in Serials |-> None]
    /\ good = {}
    /\ answered = [id \in Ids |-> 0]

Next ==
    \/ \E id \in Ids : Register(id) \/ Answer(id) \/ WithdrawAll(id) \/ Delete(id)
    \/ \E s \in Serials : Withdraw(s) \/ \E id \in Ids : Issue(s, id)

Spec == Init /\ [][Next]_<<member, owner, good, answered>>
=============================================================================
