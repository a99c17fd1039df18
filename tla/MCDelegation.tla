----------------------------- MODULE MCDelegation ------------------------------
(* Delegation and Enrollment with an administrator of the configuration, a    *)
(* registrar of an affiliation below the root, and a name that is free.       *)
EXTENDS Enrollment, SequencesExt, TLC

CONSTANTS r1, r2

MCSymmetry == Permutations({r1, r2})

MCTypes == {"client", "peer"}
MCAffiliations == {"", "org1", "org1.a", "org2"}
MCBelow == [aff \in MCAffiliations |-> IF aff = "org1" THEN {"org1.a"} ELSE {}]

MCPatterns == {"*", "hf.*"}
MCReserved == Booleans \cup Lists \cup Fixed \cup {"hf.*", "hf.Other"}
MCTexts == MCReserved \cup MCPatterns \cup MCTypes \cup MCAffiliations
             \cup {"admin", "registrar", "new", "color", "true", "false"}
MCPrefixed == ("*" :> MCTexts) @@ ("hf.*" :> MCReserved)

\* Attributes that are not repeated
Once(attrs) == [name \in DOMAIN attrs |-> <<attrs[name]>>]

MCConfigured ==
    [id \in {"admin", "registrar"} |->
        LET admin == id = "admin"
            aff == IF admin THEN "" ELSE "org1"
        IN  [type |-> "client", aff |-> aff,
             attrs |-> Once(Roles :> IF admin THEN MCTypes ELSE {"client"})
                       @@ Once(RegistrarAttr :> IF admin THEN {"*"} ELSE {"hf.*"})
                       @@ Once("hf.IntermediateCA" :> IF admin THEN {"true"} ELSE {"false"})
                       @@ Once(IF admin THEN (DelegateRoles :> MCTypes) ELSE
                               [name \in Fixed |-> CASE name = "hf.EnrollmentID" -> {id}
                                                    [] name = "hf.Type" -> {"client"}
                                                    [] name = "hf.Affiliation" -> {aff} \ {""}])]]

Body(type, aff, attrs) == [type |-> type, aff |-> aff, attrs |-> attrs]
Ask(attrs) == Body("unset", "unset", Once(attrs))

\* What one request may ask for: each kind of attribute, granted and deleted,
\* roles and delegate roles twice, small first and then large or the other way,
\* and a deletion followed by a value.
MCBodies ==
    {Ask(Roles :> {"client"}), Ask(Roles :> {}),
     Body("client", "org1", Once(Roles :> {"client"} @@ DelegateRoles :> {"client", "peer"})),
     Body("client", "org1", Roles :> <<{"client", "peer"}, {"client"}>>),
     Ask(Roles :> {"client", "peer"} @@ DelegateRoles :> {"peer"}),
     Body("unset", "unset", Roles :> <<{"client"}>> @@ DelegateRoles :> <<{"client"}, {"client", "peer"}>>),
     Body("unset", "unset", "hf.IntermediateCA" :> <<{}, {"true"}>>),
     Body("peer", "org1.a", None), Body("unset", "", None), Body("unset", "org2", None),
     Ask(DelegateRoles :> {"peer"}),
     Ask(RegistrarAttr :> {"hf.IntermediateCA"}), Ask(RegistrarAttr :> {"hf.*", "color"}),
     Ask("hf.IntermediateCA" :> {"true"}), Ask("hf.GenCRL" :> {"true"}), Ask("hf.IntermediateCA" :> {}),
     Ask("hf.IntermediateCA" :> {"false"} @@ RegistrarAttr :> {"hf.IntermediateCA"}),
     Ask("hf.Type" :> {"peer"}), Ask("hf.Other" :> {"true"}), Ask("color" :> {"true"})}

\* CA certificates asked for either way, attributes by default and by name.
Want(profile, csr, names) ==
    [profile |-> profile, csr |-> csr, names |-> names, required |-> names = {Roles}]
MCAsks == {Want(FALSE, FALSE, {}), Want(FALSE, TRUE, {}), Want(TRUE, FALSE, {Roles}), Want(TRUE, TRUE, Booleans)}

\* The loop of getNewAttributes over the entries of one name
Entry(stored, value) ==
    IF stored = <<>> THEN (IF value = {} THEN <<>> ELSE <<value>>)
    ELSE (IF value = {} THEN <<>> ELSE <<value>>) \o Tail(stored)

ShortLists == UNION {[1 .. n -> {{}, {"a"}, {"b"}}] : n \in 0 .. 3}

ASSUME MergedEntriesAsLooped ==
    \A stored, asked \in ShortLists : MergedEntries(stored, asked) = FoldLeft(Entry, stored, asked)
=============================================================================
