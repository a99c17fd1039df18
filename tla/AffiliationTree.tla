--------------------------- MODULE AffiliationTree ---------------------------
(***************************************************************************)
(* What the affiliations endpoint and the identities' endpoints promise of *)
(* the affiliation hierarchy: affiliations come and go, and identities     *)
(* belong to one of them.  A removal takes a whole subtree with the        *)
(* identities in it, a renaming moves a whole subtree with the identities  *)
(* in it onto free names, and nothing else that either does is visible.    *)
(***************************************************************************)
EXTENDS Integers, Sequences, SequencesExt

CONSTANTS
    Names,          \* affiliations: non-empty sequences of segments
    Ids,            \* enrollment IDs
    Configured,     \* the affiliations in the configuration of a server
    ConfiguredHome, \* Ids -> the affiliation the configuration gives it, or Gone
    Gone            \* the home of an id that is not registered

Root == <<>>

VARIABLES
    affs,       \* the affiliations that exist
    home        \* Ids -> the affiliation of the identity, Root or Gone

Within(n) == {m \in Names : IsPrefix(n, m)}

Create(n) == affs' = affs \cup {n} /\ UNCHANGED home

Enter(id, a) == home' = [home EXCEPT ![id] = a] /\ UNCHANGED affs

Delete(n) ==
    /\ affs' = affs \ Within(n)
    /\ home' = [id \in Ids |-> IF home[id] \in Within(n) THEN Gone ELSE home[id]]

\* The path of m, which is within o, after o became n.
Moved(o, n, m) == n \o SubSeq(m, Len(o) + 1, Len(m))

Rename(o, n) ==
    LET old == affs \cap Within(o)
    IN  /\ \A m \in old : Moved(o, n, m) \notin affs \ old
        /\ affs' = (affs \ old) \cup {Moved(o, n, m) : m \in old}
        /\ home' = [id \in Ids |-> IF home[id] \in old
                                   THEN Moved(o, n, home[id]) ELSE home[id]]

\* A server that starts adds what its configuration names.
Load ==
    /\ affs' = affs \cup Configured
    /\ home' = [id \in Ids |-> IF home[id] = Gone THEN ConfiguredHome[id]
                                                 ELSE home[id]]

Init ==
    /\ affs = Configured
    /\ home = ConfiguredHome

Next ==
    \/ \E n \in Names : Create(n) \/ Delete(n)
    \/ \E o, n \in Names : Rename(o, n)
    \/ \E id \in Ids, a \in Names \cup {Root} : Enter(id, a)
    \/ Load

Spec == Init /\ [][Next]_<<affs, home>>
=============================================================================
