--------------------------- MODULE MCAffiliations ---------------------------
(***************************************************************************)
(* Instances of Affiliations for TLC.  The segments "a" and "b" build      *)
(* hierarchies of two levels.                                              *)
(***************************************************************************)
EXTENDS Affiliations, TLC

CONSTANTS mgr, user

MCIds == {mgr, user}
MCRoles == [id \in MCIds |-> IF id = mgr THEN "some" ELSE "absent"]

MCSegments == {"a", "b"}
MCNames == {<<"a">>, <<"b">>, <<"a", "a">>, <<"a", "b">>, <<"b", "a">>, <<"b", "b">>}
MCExact == {<<"a", "a">>, <<"b", "b">>}

\* The configuration has "a" and "a.b"; the manager is at the root, the user
\* in "a.b".
MCConfigured == {<<"a">>, <<"a", "b">>}
MCHome == [id \in MCIds |-> IF id = mgr THEN <<>> ELSE <<"a", "b">>]

MCRenames == {<<<<"a">>, <<"b">>>>, <<<<"b">>, <<"a">>>>,
              <<<<"a", "a">>, <<"a", "b">>>>, <<<<"a", "b">>, <<"a", "a">>>>}

\* Renamings to another parent, which need not exist.
MCFarRenames == {<<<<"a", "b">>, <<"b", "b">>>>, <<<<"a">>, <<"b">>>>}
MCAllRenames == MCRenames \cup MCFarRenames

\* A manager of "a" that is no registrar, and one of everything that is.
MCManagersHome == [id \in MCIds |-> IF id = mgr THEN <<"a">> ELSE <<>>]
MCManagersRoles == [id \in MCIds |-> IF id = mgr THEN "empty" ELSE "some"]

\* Fewer names: what is renamed from "a" to "b" and below keeps its place.
MCFewNames == {<<"a">>, <<"b">>, <<"a", "b">>, <<"b", "b">>}
MCFewAdded == {<<"b", "b">>}
MCFewRenames == {<<<<"a">>, <<"b">>>>, <<<<"a", "b">>, <<"b", "b">>>>}

Symmetry == Permutations(Requests)
=============================================================================
