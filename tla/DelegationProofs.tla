--------------------------- MODULE DelegationProofs ----------------------------
(***************************************************************************)
(* Proofs about Delegation, for any identities, attributes, patterns and   *)
(* number of requests, whatever names a list of attributes repeats.        *)
(***************************************************************************)
EXTENDS Delegation, SequenceTheorems, FiniteSetTheorems, TLAPS

-----------------------------------------------------------------------------
(* Entries of one name *)

LEMMA LastInRange ==
    ASSUME NEW S, NEW entries \in Seq(S), entries # <<>>
    PROVE  /\ entries[Len(entries)] \in Range(entries) /\ entries[1] \in Range(entries)
           /\ Range(entries) \subseteq S
<1>1. /\ Len(entries) \in Nat \ {0} /\ DOMAIN entries = 1 .. Len(entries)
      /\ \A i \in 1 .. Len(entries) : entries[i] \in S
    BY EmptySeq, LenProperties
<1> QED BY <1>1 DEF Range

\* What is left of the entries of one name: the last one was asked for, or was
\* the last before.
LEMMA MergedFacts ==
    ASSUME NEW S, NEW stored \in Seq(S), NEW asked \in Seq(S), asked # <<>>,
           NEW merged, merged = MergedEntries(stored, asked)
    PROVE  /\ merged \in Seq(S)
           /\ merged # <<>> => \/ merged[Len(merged)] \in Range(asked)
                               \/ stored # <<>> /\ merged[Len(merged)] = stored[Len(stored)]
           /\ merged = <<>> => {} \in Range(asked)
<1> DEFINE empty == {i \in DOMAIN asked : asked[i] = {}}
           deleted == Cardinality(empty)
           last == asked[Len(asked)]
           tail(d) == SubSeq(stored, d, Len(stored))
<1>1. last \in Range(asked) /\ last \in S
    BY LastInRange
<1>2. deleted \in Nat
    <2>1. DOMAIN asked = 1 .. Len(asked) /\ Len(asked) \in Nat
        BY LenProperties
    <2>2. IsFiniteSet(1 .. Len(asked))
        BY <2>1, FS_Interval
    <2>3. IsFiniteSet(empty)
        BY <2>1, <2>2, FS_Subset
    <2> QED BY <2>3, FS_CardinalityType
<1>3. merged = IF last = {} THEN tail(deleted + 1) ELSE <<last>> \o tail(deleted + 2)
    BY DEF MergedEntries
<1> HIDE DEF deleted, last
<1>4. ASSUME NEW d \in {deleted + 1, deleted + 2}
      PROVE  /\ tail(d) \in Seq(S)
             /\ Len(tail(d)) \in Nat
             /\ Len(tail(d)) # 0 => /\ stored # <<>>
                                    /\ tail(d)[Len(tail(d))] = stored[Len(stored)]
    <2>1. d \in Int /\ d >= 1 /\ Len(stored) \in Nat
        BY <1>2, LenProperties
    <2>2. \A i \in d .. Len(stored) : stored[i] \in S
        BY <2>1, ElementOfSeq
    <2>3. /\ tail(d) \in Seq(S)
          /\ Len(tail(d)) = IF d <= Len(stored) THEN Len(stored) - d + 1 ELSE 0
          /\ \A i \in 1 .. Len(stored) - d + 1 : tail(d)[i] = stored[d + i - 1]
        BY <2>1, <2>2, SubSeqProperties
    <2>4. ASSUME Len(tail(d)) # 0
          PROVE  stored # <<>> /\ tail(d)[Len(tail(d))] = stored[Len(stored)]
        <3>1. d <= Len(stored) /\ Len(tail(d)) = Len(stored) - d + 1
            BY <2>1, <2>3, <2>4
        <3>2. tail(d)[Len(stored) - d + 1] = stored[d + (Len(stored) - d + 1) - 1]
            BY <2>1, <2>3, <3>1
        <3>3. d + (Len(stored) - d + 1) - 1 = Len(stored)
            BY <2>1
        <3>4. stored # <<>>
            BY <2>1, <3>1, EmptySeq
        <3> QED BY <3>1, <3>2, <3>3, <3>4
    <2> QED BY <2>1, <2>3, <2>4
<1>5. CASE last = {}
    <2>1. merged = tail(deleted + 1)
        BY <1>3, <1>5
    <2>2. merged # <<>> => Len(merged) # 0
        BY <1>4, <2>1, EmptySeq
    <2> QED BY <1>1, <1>4, <1>5, <2>1, <2>2
<1>6. CASE last # {}
    <2> DEFINE rest == tail(deleted + 2)
    <2>1. rest \in Seq(S) /\ <<last>> \in Seq(S) /\ Len(<<last>>) = 1 /\ <<last>>[1] = last
        BY <1>1, <1>4
    <2>2. merged = <<last>> \o rest
        BY <1>3, <1>6
    <2>3. Len(rest) \in Nat /\ (Len(rest) # 0 => stored # <<>> /\ rest[Len(rest)] = stored[Len(stored)])
        BY <1>4
    <2> HIDE DEF rest
    <2>4. /\ merged \in Seq(S) /\ Len(merged) = 1 + Len(rest)
          /\ \A i \in 1 .. 1 + Len(rest) : merged[i] = IF i <= 1 THEN <<last>>[i] ELSE rest[i - 1]
        BY <2>1, <2>2, ConcatProperties
    <2>5. merged # <<>>
        BY <2>3, <2>4, EmptySeq
    <2>6. merged[1 + Len(rest)] = IF 1 + Len(rest) <= 1 THEN <<last>>[1 + Len(rest)]
                                  ELSE rest[1 + Len(rest) - 1]
        BY <2>3, <2>4
    <2>7. CASE Len(rest) = 0
        BY <1>1, <2>1, <2>4, <2>5, <2>6, <2>7
    <2>8. CASE Len(rest) # 0
        BY <2>3, <2>4, <2>5, <2>6, <2>8
    <2> QED BY <2>7, <2>8
<1> QED BY <1>5, <1>6

\* Where no name is repeated, what is asked for takes the place of what was.
LEMMA MergedSingle ==
    ASSUME NEW S, NEW stored \in Seq(S), Len(stored) <= 1, NEW value \in S
    PROVE  MergedEntries(stored, <<value>>) = IF value = {} THEN <<>> ELSE <<value>>
<1> DEFINE asked == <<value>>
           deleted == Cardinality({i \in DOMAIN asked : asked[i] = {}})
<1>1. Len(stored) \in Nat
    BY LenProperties
<1>2. asked # <<>> /\ Len(asked) = 1 /\ asked[1] = value /\ DOMAIN asked = {1}
    OBVIOUS
<1>3. CASE value = {}
    <2>1. {i \in DOMAIN asked : asked[i] = {}} = {1}
        BY <1>2, <1>3
    <2>2. deleted = 1
        BY <2>1, FS_Singleton
    <2>3. SubSeq(stored, 1 + 1, Len(stored)) = <<>>
        BY <1>1, SubSeqEmpty
    <2> QED BY <1>2, <1>3, <2>2, <2>3 DEF MergedEntries
<1>4. CASE value # {}
    <2>1. {i \in DOMAIN asked : asked[i] = {}} = {}
        BY <1>2, <1>4
    <2>2. deleted = 0
        BY <2>1, FS_EmptySet
    <2>3. SubSeq(stored, 0 + 2, Len(stored)) = <<>>
        BY <1>1, SubSeqEmpty
    <2>4. <<value>> \o <<>> = <<value>>
        <3>1. <<value>> \in Seq(S)
            OBVIOUS
        <3> QED BY <3>1, ConcatEmptySeq
    <2> QED BY <1>2, <1>4, <2>2, <2>3, <2>4 DEF MergedEntries
<1> QED BY <1>3, <1>4

-----------------------------------------------------------------------------
(* What a grant gives *)

\* Who may register every entry of a list may register whatever the list covers.
LEMMA CoversThrough ==
    ASSUME NEW owned, NEW entries,
           \A entry \in entries : Covers(owned, entry),
           NEW name, Covers(entries, name)
    PROVE  Covers(owned, name)
<1>1. PICK entry \in entries : IF entry \in Patterns THEN name \in Prefixed[entry]
                                                    ELSE name = entry
    BY DEF Covers
<1>2. CASE entry \notin Patterns
    BY <1>1, <1>2
<1>3. CASE entry \in Patterns
    <2>1. PICK own \in owned : IF own \in Patterns THEN entry \in Prefixed[own] ELSE entry = own
        BY DEF Covers
    <2>2. own \in Patterns /\ entry \in Prefixed[own]
        BY <2>1, <1>3
    <2>3. Prefixed[entry] \subseteq Prefixed[own]
        BY <2>2, <1>3, PrefixAssumption
    <2> QED BY <1>1, <1>3, <2>2, <2>3 DEF Covers
<1> QED BY <1>2, <1>3

\* A kind of attribute is granted only by who has it.
LEMMA GrantedName ==
    ASSUME NEW asked, NEW user, NEW registrar, CanGrant(asked, user, registrar),
           NEW name \in (Booleans \cup Lists) \cap DOMAIN asked, NEW value \in Range(asked[name])
    PROVE  /\ name \in Booleans => Value(registrar, name) = {"true"}
           /\ name \in {Roles, DelegateRoles} => value \subseteq Value(registrar, name)
           /\ name = RegistrarAttr =>
                \A entry \in value : Covers(Value(registrar, name), entry)
<1>1. name \in Reserved
    BY PrefixAssumption
<1>2. Authorized(asked, name, value, user, registrar)
    BY DEF CanGrant
<1>3. CASE name \in Booleans
    <2>1. name \notin Lists
        BY <1>3 DEF Booleans, Lists, Roles, DelegateRoles, RegistrarAttr
    <2> QED BY <1>1, <1>2, <1>3, <2>1 DEF Authorized, BooleanAllowed, Lists
<1>4. CASE name \in Lists
    <2>1. name \notin Booleans
        BY <1>4 DEF Booleans, Lists, Roles, DelegateRoles, RegistrarAttr
    <2>2. ListAllowed(asked, name, value, user, Value(registrar, name))
        BY <1>1, <1>2, <2>1 DEF Authorized
    <2>4. RegistrarAttr \notin {Roles, DelegateRoles}
        BY DEF Roles, DelegateRoles, RegistrarAttr
    <2> QED BY <2>1, <2>2, <2>4 DEF ListAllowed
<1> QED BY <1>3, <1>4

\* Attributes that are the user's, or were asked for and granted by registrar,
\* empower to nothing beyond what one of the two was empowered to.
LEMMA GrantedPowers ==
    ASSUME NEW asked, NEW user, NEW registrar, CanGrant(asked, user, registrar),
           NEW attrs, NEW old,
           \A name \in Booleans \cup Lists :
              \/ Value(attrs, name) = Value(old, name)
              \/ name \in DOMAIN asked /\ Value(attrs, name) \in Range(asked[name])
    PROVE  Powers(attrs) \subseteq Powers(old) \cup Powers(registrar)
<1> USE DEF Lists
<1>1. ASSUME NEW name \in Booleans, Value(attrs, name) = {"true"}
      PROVE  Value(old, name) = {"true"} \/ Value(registrar, name) = {"true"}
    BY <1>1, GrantedName
<1>2. ASSUME NEW name \in {Roles, DelegateRoles}, NEW role \in Value(attrs, name)
      PROVE  role \in Value(old, name) \/ role \in Value(registrar, name)
    BY <1>2, GrantedName
<1>3. ASSUME NEW name, Covers(Value(attrs, RegistrarAttr), name)
      PROVE  \/ Covers(Value(old, RegistrarAttr), name)
             \/ Covers(Value(registrar, RegistrarAttr), name)
    <2> DEFINE value == Value(attrs, RegistrarAttr)
    <2>1. CASE RegistrarAttr \in DOMAIN asked /\ value \in Range(asked[RegistrarAttr])
        <3>1. \A entry \in value : Covers(Value(registrar, RegistrarAttr), entry)
            BY <2>1, GrantedName
        <3> QED BY <1>3, <3>1, CoversThrough
    <2>2. CASE value = Value(old, RegistrarAttr)
        BY <1>3, <2>2
    <2> QED BY <2>1, <2>2
<1>4. SUFFICES ASSUME NEW power \in Powers(attrs)
               PROVE  power \in Powers(old) \cup Powers(registrar)
    OBVIOUS
<1>5. CASE \E name \in Booleans : power = <<name, "true">> /\ Value(attrs, name) = {"true"}
    BY <1>5, <1>1 DEF Powers
<1>6. CASE \E role \in Value(attrs, Roles) : power = <<Roles, role>>
    BY <1>6, <1>2 DEF Powers
<1>7. CASE \E role \in Value(attrs, DelegateRoles) : power = <<DelegateRoles, role>>
    BY <1>7, <1>2 DEF Powers
<1>8. CASE \E name \in Texts : power = <<RegistrarAttr, name>> /\ Covers(Value(attrs, RegistrarAttr), name)
    BY <1>8, <1>3 DEF Powers
<1> QED BY <1>5, <1>6, <1>7, <1>8 DEF Powers

\* No request may name an attribute that repeats a column.
LEMMA FixedNotGranted ==
    ASSUME NEW asked, NEW user, NEW registrar, CanGrant(asked, user, registrar), IsAttrs(asked)
    PROVE  DOMAIN asked \cap Fixed = {}
<1> SUFFICES ASSUME NEW name \in DOMAIN asked, name \in Fixed PROVE FALSE
    OBVIOUS
<1>1. name \in Reserved
    BY PrefixAssumption
<1>2. name \notin Booleans /\ name \notin Lists
    BY DEF Fixed, Booleans, Lists, Roles, DelegateRoles, RegistrarAttr
<1>3. PICK value : value \in Range(asked[name])
    <2>1. asked[name] \in Seq(SUBSET Texts) /\ asked[name] # <<>>
        BY DEF IsAttrs
    <2> QED BY <2>1, LastInRange
<1>4. Authorized(asked, name, value, user, registrar)
    BY <1>3 DEF CanGrant
<1> QED BY <1>1, <1>2, <1>4 DEF Authorized

-----------------------------------------------------------------------------
(* Names and values of the two ways attributes are written *)

LEMMA EntriesType ==
    ASSUME NEW attrs, IsAttrs(attrs), NEW name
    PROVE  /\ Entries(attrs, name) \in Seq(SUBSET Texts)
           /\ name \in DOMAIN attrs <=> Entries(attrs, name) # <<>>
           /\ name \in DOMAIN attrs => /\ Entries(attrs, name) = attrs[name]
                                       /\ Value(attrs, name) \in Range(attrs[name])
                                       /\ Asked(attrs, name) \in Range(attrs[name])
<1>1. CASE name \in DOMAIN attrs
    <2>1. Entries(attrs, name) = attrs[name] /\ attrs[name] \in Seq(SUBSET Texts) /\ attrs[name] # <<>>
        BY <1>1 DEF IsAttrs, Entries
    <2>2. attrs[name][Len(attrs[name])] \in Range(attrs[name]) /\ attrs[name][1] \in Range(attrs[name])
        BY <2>1, LastInRange
    <2> QED BY <1>1, <2>1, <2>2 DEF Value, Asked
<1>2. CASE name \notin DOMAIN attrs
    BY <1>2, EmptySeq DEF Entries
<1> QED BY <1>1, <1>2

LEMMA SingleValue ==
    ASSUME NEW attrs, IsAttrs(attrs), NEW name \in DOMAIN attrs, Len(Entries(attrs, name)) <= 1
    PROVE  /\ attrs[name] = <<Value(attrs, name)>> /\ Asked(attrs, name) = Value(attrs, name)
           /\ Value(attrs, name) \in SUBSET Texts
<1>1. attrs[name] \in Seq(SUBSET Texts) /\ attrs[name] # <<>> /\ Entries(attrs, name) = attrs[name]
    BY EntriesType
<1>2. Len(attrs[name]) = 1 /\ attrs[name][1] \in SUBSET Texts
    <2>1. Len(attrs[name]) \in Nat \ {0}
        BY <1>1, EmptySeq
    <2>2. Len(attrs[name]) = 1
        <3>1. PICK n : n = Len(attrs[name])
            OBVIOUS
        <3>2. n <= 1
            BY <1>1, <3>1, Zenon
        <3>3. n \in Nat \ {0}
            BY <2>1, <3>1, Zenon
        <3>4. n = 1
            BY <3>2, <3>3
        <3> QED BY <3>1, <3>4, Zenon
    <2> QED BY <1>1, <2>2, ElementOfSeq
<1>3. attrs[name] = <<attrs[name][1]>>
    BY <1>1, <1>2, SeqEqual
<1> QED BY <1>2, <1>3 DEF Value, Asked

LEMMA AttrsMade ==
    ASSUME NEW attrs, DOMAIN attrs \subseteq Texts, attrs = [name \in DOMAIN attrs |-> attrs[name]],
           \A name \in DOMAIN attrs : attrs[name] \in Seq(SUBSET Texts) /\ attrs[name] # <<>>
    PROVE  IsAttrs(attrs)
<1>1. attrs \in [DOMAIN attrs -> Seq(SUBSET Texts)]
    BY Zenon
<1> QED BY <1>1, Zenon DEF IsAttrs

LEMMA WithFixedOutside ==
    ASSUME NEW asked, NEW fixed, NEW name, name \notin DOMAIN fixed
    PROVE  /\ Entries(WithFixed(asked, fixed), name) = Entries(asked, name)
           /\ Value(WithFixed(asked, fixed), name) = Value(asked, name)
BY DEF Entries, Value, WithFixed

LEMMA WithFixedInside ==
    ASSUME NEW asked, NEW fixed, NEW name \in DOMAIN fixed, name \notin DOMAIN asked
    PROVE  Entries(WithFixed(asked, fixed), name) = <<fixed[name]>>
BY DEF Entries, WithFixed

LEMMA WithFixedType ==
    ASSUME NEW asked, NEW fixed, IsAttrs(asked), DOMAIN fixed \subseteq Texts,
           \A name \in DOMAIN fixed : fixed[name] \in SUBSET Texts
    PROVE  IsAttrs(WithFixed(asked, fixed))
<1> DEFINE attrs == WithFixed(asked, fixed)
<1>1. attrs = [name \in DOMAIN attrs |-> attrs[name]] /\ DOMAIN attrs = DOMAIN asked \cup DOMAIN fixed
    BY DEF WithFixed
<1>2. ASSUME NEW name \in DOMAIN attrs PROVE attrs[name] \in Seq(SUBSET Texts) /\ attrs[name] # <<>>
    <2>1. CASE name \notin DOMAIN fixed
        <3>1. name \in DOMAIN asked /\ attrs[name] = asked[name]
            BY <1>1, <2>1 DEF WithFixed
        <3> QED BY <3>1 DEF IsAttrs
    <2>2. CASE name \in DOMAIN fixed
        <3> DEFINE entries == Entries(asked, name)
                   added == <<fixed[name]>>
        <3>1. attrs[name] = entries \o added
            BY <1>1, <2>2 DEF WithFixed
        <3>2. entries \in Seq(SUBSET Texts)
            BY EntriesType
        <3>3. added \in Seq(SUBSET Texts) /\ Len(added) = 1 /\ added # <<>>
            BY <2>2
        <3> HIDE DEF entries, added
        <3>4. attrs[name] \in Seq(SUBSET Texts)
            BY <3>1, <3>2, <3>3, ConcatProperties
        <3>5. attrs[name] # <<>>
            BY <3>1, <3>2, <3>3, ConcatEqualIffEmpty
        <3> QED BY <3>4, <3>5
    <2> QED BY <2>1, <2>2
<1>3. DOMAIN attrs \subseteq Texts
    BY <1>1 DEF IsAttrs
<1>4. IsAttrs(attrs)
    <2> HIDE DEF attrs
    <2> QED BY <1>1, <1>2, <1>3, AttrsMade
<1> QED BY <1>4

LEMMA MergedEntriesOf ==
    ASSUME NEW attrs, NEW asked, IsAttrs(attrs), IsAttrs(asked), NEW name,
           NEW merged, merged = MergedEntries(Entries(attrs, name), Entries(asked, name))
    PROVE  /\ Entries(Merged(attrs, asked), name) = merged
           /\ name \in DOMAIN Merged(attrs, asked) <=> merged # <<>>
           /\ Value(Merged(attrs, asked), name) = IF merged = <<>> THEN {} ELSE merged[Len(merged)]
           /\ merged \in Seq(SUBSET Texts)
<1>1. Entries(attrs, name) \in Seq(SUBSET Texts) /\ Entries(asked, name) \in Seq(SUBSET Texts)
    BY EntriesType
<1>2. merged \in Seq(SUBSET Texts)
    <2>1. CASE Entries(asked, name) = <<>>
        BY <1>1, <2>1 DEF MergedEntries
    <2>2. CASE Entries(asked, name) # <<>>
        BY <1>1, <2>2, MergedFacts
    <2> QED BY <2>1, <2>2
<1>3. name \notin DOMAIN attrs \cup DOMAIN asked => merged = <<>>
    BY DEF Entries, MergedEntries
<1>4. name \in DOMAIN Merged(attrs, asked) <=> merged # <<>>
    BY <1>3 DEF Merged
<1>5. merged # <<>> => Merged(attrs, asked)[name] = merged
    BY <1>4 DEF Merged
<1> QED BY <1>2, <1>4, <1>5 DEF Entries, Value

\* What an identity has after a modification it had before, or was asked for.
LEMMA MergedValue ==
    ASSUME NEW attrs, NEW asked, IsAttrs(attrs), IsAttrs(asked), NEW name
    PROVE  \/ Value(Merged(attrs, asked), name) = Value(attrs, name)
           \/ name \in DOMAIN asked /\ Value(Merged(attrs, asked), name) \in Range(asked[name])
<1> DEFINE stored == Entries(attrs, name)
           new == Entries(asked, name)
           merged == MergedEntries(stored, new)
<1>1. stored \in Seq(SUBSET Texts) /\ new \in Seq(SUBSET Texts)
    BY EntriesType
<1>2. Value(Merged(attrs, asked), name) = IF merged = <<>> THEN {} ELSE merged[Len(merged)]
    BY MergedEntriesOf
<1>3. Value(attrs, name) = IF stored = <<>> THEN {} ELSE stored[Len(stored)]
    BY EntriesType DEF Value, Entries
<1>4. CASE name \notin DOMAIN asked
    <2>1. new = <<>>
        BY <1>4 DEF Entries
    <2> QED BY <1>2, <1>3, <2>1 DEF MergedEntries
<1>5. CASE name \in DOMAIN asked
    <2>1. new = asked[name] /\ new # <<>>
        BY <1>5, EntriesType
    <2> HIDE DEF stored, new
    <2>2. /\ merged # <<>> => \/ merged[Len(merged)] \in Range(new)
                              \/ stored # <<>> /\ merged[Len(merged)] = stored[Len(stored)]
          /\ merged = <<>> => {} \in Range(new)
        BY <1>1, <2>1, MergedFacts
    <2> HIDE DEF merged
    <2> QED BY <1>2, <1>3, <1>5, <2>1, <2>2
<1> QED BY <1>4, <1>5

\* Where no name is repeated, it has what it was asked for.
LEMMA MergedOnce ==
    ASSUME NEW attrs, NEW asked, IsAttrs(attrs), IsAttrs(asked), NEW name \in DOMAIN asked,
           Len(Entries(attrs, name)) <= 1, Len(Entries(asked, name)) <= 1
    PROVE  /\ Value(Merged(attrs, asked), name) = Value(asked, name)
           /\ Entries(Merged(attrs, asked), name)
                = IF Value(asked, name) = {} THEN <<>> ELSE <<Value(asked, name)>>
<1> DEFINE value == Value(asked, name)
<1>1. Entries(attrs, name) \in Seq(SUBSET Texts)
    BY EntriesType
<1>2. Entries(asked, name) = <<value>> /\ value \in SUBSET Texts
    BY SingleValue, EntriesType
<1> HIDE DEF value
<1>3. MergedEntries(Entries(attrs, name), <<value>>) = IF value = {} THEN <<>> ELSE <<value>>
    BY <1>1, <1>2, MergedSingle
<1>4. PICK merged : merged = MergedEntries(Entries(attrs, name), Entries(asked, name))
    OBVIOUS
<1>5. /\ Entries(Merged(attrs, asked), name) = merged
      /\ Value(Merged(attrs, asked), name) = IF merged = <<>> THEN {} ELSE merged[Len(merged)]
    BY <1>4, MergedEntriesOf
<1>6. merged = IF value = {} THEN <<>> ELSE <<value>>
    BY <1>2, <1>3, <1>4
<1>7. <<value>>[Len(<<value>>)] = value /\ <<value>> # <<>>
    OBVIOUS
<1> QED BY <1>5, <1>6, <1>7 DEF value

\* An attribute disappears only if a request asks for the empty value.
LEMMA MergedKept ==
    ASSUME NEW attrs, NEW asked, IsAttrs(attrs), IsAttrs(asked),
           NEW name \in DOMAIN attrs \cup DOMAIN asked, name \notin DOMAIN Merged(attrs, asked)
    PROVE  name \in DOMAIN asked /\ {} \in Range(asked[name])
<1> DEFINE merged == MergedEntries(Entries(attrs, name), Entries(asked, name))
<1>1. merged = <<>>
    BY MergedEntriesOf
<1>2. Entries(attrs, name) \in Seq(SUBSET Texts) /\ Entries(asked, name) \in Seq(SUBSET Texts)
    BY EntriesType
<1>3. Entries(asked, name) # <<>>
    <2>1. SUFFICES ASSUME Entries(asked, name) = <<>> PROVE FALSE
        OBVIOUS
    <2>2. Entries(attrs, name) = <<>>
        BY <1>1, <2>1 DEF MergedEntries
    <2> QED BY <2>1, <2>2, EntriesType
<1>4. {} \in Range(Entries(asked, name))
    BY <1>1, <1>2, <1>3, MergedFacts
<1> QED BY <1>3, <1>4, EntriesType

LEMMA MergedType ==
    ASSUME NEW attrs, NEW asked, IsAttrs(attrs), IsAttrs(asked)
    PROVE  IsAttrs(Merged(attrs, asked))
<1> DEFINE all == Merged(attrs, asked)
<1>1. DOMAIN all \subseteq Texts
    BY DEF Merged, IsAttrs
<1>2. ASSUME NEW name \in DOMAIN all PROVE all[name] \in Seq(SUBSET Texts) /\ all[name] # <<>>
    BY <1>2, MergedEntriesOf DEF Entries
<1>3. all = [name \in DOMAIN all |-> all[name]]
    BY DEF Merged
<1>4. IsAttrs(all)
    <2> HIDE DEF all
    <2> QED BY <1>1, <1>2, <1>3, AttrsMade
<1> QED BY <1>4

LEMMA NoneFacts == IsAttrs(None) /\ \A name : Value(None, name) = {}
BY DEF IsAttrs, Value, None

\* What the checks of the two lists found in the request.
LEMMA DelegatesLookedUp ==
    ASSUME NEW asked, NEW user, NEW registrar, CanGrant(asked, user, registrar),
           DelegateRoles \in DOMAIN asked,
           NEW value \in Range(asked[DelegateRoles]), value # {}
    PROVE  DelegatesChecked(asked, user)
<1>1. Authorized(asked, DelegateRoles, value, user, registrar)
    BY DEF CanGrant
<1>2. DelegateRoles \notin Booleans /\ DelegateRoles \in Reserved /\ DelegateRoles # RegistrarAttr
    BY PrefixAssumption DEF Booleans, Lists, DelegateRoles, RegistrarAttr
<1> QED BY <1>1, <1>2 DEF Authorized, ListAllowed

LEMMA RegistrableLookedUp ==
    ASSUME NEW asked, NEW user, NEW registrar, CanGrant(asked, user, registrar),
           RegistrarAttr \in DOMAIN asked,
           NEW value \in Range(asked[RegistrarAttr]), NEW entry \in value
    PROVE  Owned(asked, user, entry)
<1>1. Authorized(asked, RegistrarAttr, value, user, registrar)
    BY DEF CanGrant
<1>2. RegistrarAttr \notin Booleans /\ RegistrarAttr \in Reserved
    BY PrefixAssumption DEF Booleans, Lists, RegistrarAttr
<1> QED BY <1>1, <1>2 DEF Authorized, ListAllowed

\* Where the roles are not repeated, the value that is checked is the one that counts.
LEMMA AskedOnce ==
    ASSUME NEW asked, IsAttrs(asked), ~Repeats(asked), NEW name \in {Roles, DelegateRoles}
    PROVE  Asked(asked, name) = Value(asked, name) /\ Len(Entries(asked, name)) <= 1
<1>1. Len(Entries(asked, name)) \in Nat
    BY EntriesType, LenProperties
<1>2. Len(Entries(asked, name)) <= 1
    <2>1. PICK n \in Nat : n = Len(Entries(asked, name))
        BY <1>1
    <2>2. ~(n > 1)
        BY <2>1, Zenon DEF Repeats
    <2>3. n <= 1
        BY <2>1, <2>2
    <2> QED BY <2>1, <2>3
<1>3. CASE name \in DOMAIN asked
    BY <1>2, <1>3, SingleValue
<1>4. CASE name \notin DOMAIN asked
    BY <1>2, <1>4 DEF Asked, Value
<1> QED BY <1>3, <1>4

LEMMA KindsDisjoint == (Booleans \cup Lists) \cap Fixed = {}
BY DEF Fixed, Booleans, Lists, Roles, DelegateRoles, RegistrarAttr

-----------------------------------------------------------------------------
(* Types *)

LEMMA UserMade ==
    ASSUME NEW type \in Types, NEW aff \in Affiliations, NEW attrs, IsAttrs(attrs)
    PROVE  IsUser([type |-> type, aff |-> aff, attrs |-> attrs])
BY DEF IsUser

LEMMA UserFields ==
    ASSUME NEW user, IsUser(user)
    PROVE  /\ user.type \in Types /\ user.aff \in Affiliations /\ IsAttrs(user.attrs)
           /\ user # NoUser
BY DelegationAssumption DEF IsUser, NoUser

LEMMA ChangedFixedType ==
    ASSUME NEW id \in IDs, NEW type \in Types \cup {Unset}, NEW aff \in Affiliations \cup {Unset},
           NEW changed, changed = ChangedFixed(id, type, aff)
    PROVE  /\ DOMAIN changed \subseteq Fixed /\ DOMAIN changed \subseteq Texts
           /\ \A name \in DOMAIN changed : changed[name] \in SUBSET Texts
<1>1. Fixed \subseteq Texts
    BY PrefixAssumption
<1>2. "hf.Type" \in Fixed /\ "hf.Affiliation" \in Fixed
    BY DEF Fixed
<1>3. type # Unset => FixedOf(id, type, aff)["hf.Type"] \subseteq Texts
    BY DelegationAssumption DEF FixedOf, Fixed
<1>4. aff # Unset => FixedOf(id, type, aff)["hf.Affiliation"] \subseteq Texts
    BY DelegationAssumption DEF FixedOf, Fixed
<1> QED BY <1>1, <1>2, <1>3, <1>4 DEF ChangedFixed

LEMMA AllFixedType ==
    ASSUME NEW id \in IDs, NEW type \in Types, NEW aff \in Affiliations,
           NEW fixed, fixed = FixedOf(id, type, aff)
    PROVE  /\ DOMAIN fixed = Fixed /\ DOMAIN fixed \subseteq Texts
           /\ \A name \in DOMAIN fixed : fixed[name] \in SUBSET Texts
BY PrefixAssumption, DelegationAssumption DEF FixedOf, Fixed

-----------------------------------------------------------------------------
(* The inductive invariant *)

GoodUser(id, user) == Powers(user.attrs) \subseteq InitialPowers /\ Agrees(id, user)

GoodContext(c) ==
    /\ c.pc # "idle" => Powers(c.caller.attrs) \subseteq InitialPowers
    /\ c.pc \in Writes => /\ WithinReach(c) /\ DelegatesKept(c) /\ RegistrableKept(c)
                          /\ GoodUser(c.id, c.write)

Inv ==
    /\ TypeOK
    /\ \A id \in IDs : users[id] # NoUser => GoodUser(id, users[id])
    /\ \A r \in Requests : GoodContext(ctx[r])

LEMMA NoPowers == Powers(None) = {}
<1>1. \A name : ~Covers(Value(None, RegistrarAttr), name)
    BY NoneFacts DEF Covers
<1> QED BY <1>1, NoneFacts DEF Powers

\* The context of a registration that passed its checks.
LEMMA RegisterPrepared ==
    ASSUME NEW c, TypedContext(c), GoodContext(c), c.pc = "process",
           NEW id \in IDs, NEW body \in Bodies,
           NEW type \in Types, NEW aff \in Affiliations,
           ActsOn(c.caller, type), InReach(c.caller, aff),
           CanGrant(body.attrs, None, c.caller.attrs),
           NEW d, d = [pc |-> "insert", caller |-> c.caller, id |-> id, read |-> NoUser,
                       attrs |-> body.attrs,
                       write |-> [type |-> type, aff |-> aff,
                                  attrs |-> WithFixed(body.attrs, FixedOf(id, type, aff))]]
    PROVE  TypedContext(d) /\ GoodContext(d)
<1> DEFINE fixed == FixedOf(id, type, aff)
           attrs == WithFixed(body.attrs, fixed)
<1>1. IsAttrs(body.attrs) /\ IsUser(c.caller) /\ Powers(c.caller.attrs) \subseteq InitialPowers
    BY DelegationAssumption DEF TypedContext, GoodContext
<1>2. /\ DOMAIN fixed = Fixed /\ DOMAIN fixed \subseteq Texts
      /\ \A name \in DOMAIN fixed : fixed[name] \in SUBSET Texts
    BY AllFixedType
<1>3. TypedContext(d)
    <2>1. IsAttrs(attrs)
        BY <1>1, <1>2, WithFixedType
    <2>2. IsUser(d.write)
        BY <2>1, UserMade
    <2> QED BY <1>1, <2>2 DEF TypedContext, Writes
<1>4. \A name \in Booleans \cup Lists : Value(attrs, name) = Value(body.attrs, name)
    BY <1>2, KindsDisjoint, WithFixedOutside
<1>5. Powers(attrs) \subseteq Powers(None) \cup Powers(c.caller.attrs)
    <2>1. ASSUME NEW name \in Booleans \cup Lists
          PROVE  \/ Value(attrs, name) = Value(None, name)
                 \/ name \in DOMAIN body.attrs /\ Value(attrs, name) \in Range(body.attrs[name])
        <3>1. CASE name \in DOMAIN body.attrs
            BY <1>1, <1>4, <3>1, EntriesType
        <3>2. CASE name \notin DOMAIN body.attrs
            BY <1>4, <3>2, NoneFacts DEF Value
        <3> QED BY <3>1, <3>2
    <2> HIDE DEF attrs
    <2> QED BY <2>1, GrantedPowers
<1>6. WithinReach(d) /\ Powers(d.write.attrs) \subseteq InitialPowers
    BY <1>1, <1>5, NoPowers DEF WithinReach, NoUser
<1>7. Agrees(d.id, d.write)
    <2>1. SUFFICES ASSUME NEW name \in Fixed
                   PROVE  name \in DOMAIN attrs /\ attrs[name] = <<fixed[name]>>
        BY DEF Agrees
    <2>2. name \notin DOMAIN body.attrs
        BY <1>1, FixedNotGranted
    <2>3. name \in DOMAIN attrs
        BY <1>2 DEF WithFixed
    <2>4. Entries(attrs, name) = <<fixed[name]>>
        BY <1>2, <2>2, WithFixedInside
    <2> QED BY <2>3, <2>4 DEF Entries
<1>8. DelegatesKept(d)
    <2>1. Roles \in Lists /\ DelegateRoles \in Lists
        BY DEF Lists
    <2>2. SUFFICES ASSUME ~Repeats(body.attrs)
                   PROVE  Value(body.attrs, DelegateRoles) \subseteq Value(body.attrs, Roles)
        BY <1>4, <2>1 DEF DelegatesKept, DelegatesExceed
    <2>3. SUFFICES ASSUME Value(body.attrs, DelegateRoles) # {}
                   PROVE  Value(body.attrs, DelegateRoles) \subseteq Value(body.attrs, Roles)
        OBVIOUS
    <2>4. DelegateRoles \in DOMAIN body.attrs
        BY <2>3 DEF Value
    <2>5. DelegatesChecked(body.attrs, None)
        BY <1>1, <2>3, <2>4, EntriesType, DelegatesLookedUp
    <2>6. Asked(body.attrs, DelegateRoles) = Value(body.attrs, DelegateRoles)
          /\ Asked(body.attrs, Roles) = Value(body.attrs, Roles)
        BY <1>1, <2>2, AskedOnce
    <2> QED BY <2>5, <2>6, NoneFacts DEF DelegatesChecked, RolesInView
<1>9. RegistrableKept(d)
    <2>1. SUFFICES ASSUME NEW entry \in Value(attrs, RegistrarAttr), entry \in Reserved
                   PROVE  entry \in DOMAIN attrs
        BY DEF RegistrableKept, Unowned
    <2>2. entry \in Value(body.attrs, RegistrarAttr)
        BY <1>4, <2>1 DEF Lists
    <2>3. RegistrarAttr \in DOMAIN body.attrs
        BY <2>2 DEF Value
    <2>4. Owned(body.attrs, None, entry)
        BY <1>1, <2>2, <2>3, EntriesType, RegistrableLookedUp
    <2> QED BY <2>1, <2>4 DEF Owned, None, WithFixed
<1> QED BY <1>1, <1>3, <1>6, <1>7, <1>8, <1>9 DEF GoodContext, GoodUser, Writes

\* The context of a modification that passed its checks.
LEMMA ModifyPrepared ==
    ASSUME NEW c, TypedContext(c), GoodContext(c), c.pc = "process",
           NEW id \in IDs, NEW body \in Bodies, NEW user, IsUser(user), GoodUser(id, user),
           CanManage(c.caller, user),
           body.aff # Unset => InReach(c.caller, body.aff),
           body.type # Unset => ActsOn(c.caller, body.type),
           CanGrant(body.attrs, user.attrs, c.caller.attrs),
           NEW asked, asked = WithFixed(body.attrs, ChangedFixed(id, body.type, body.aff)),
           NEW d, d = [pc |-> "update", caller |-> c.caller, id |-> id, read |-> user,
                       attrs |-> body.attrs,
                       write |-> [type |-> Chosen(body.type, user.type),
                                  aff |-> Chosen(body.aff, user.aff),
                                  attrs |-> Merged(user.attrs, asked)]]
    PROVE  TypedContext(d) /\ GoodContext(d)
<1> DEFINE attrs == Merged(user.attrs, asked)
           changed == ChangedFixed(id, body.type, body.aff)
<1>1. /\ IsAttrs(body.attrs) /\ IsUser(c.caller) /\ Powers(c.caller.attrs) \subseteq InitialPowers
      /\ body.type \in Types \cup {Unset} /\ body.aff \in Affiliations \cup {Unset}
    BY DelegationAssumption DEF TypedContext, GoodContext
<1>2. user.type \in Types /\ user.aff \in Affiliations /\ IsAttrs(user.attrs)
    BY UserFields
<1>3. d.write.type \in Types /\ d.write.aff \in Affiliations
    BY <1>1, <1>2 DEF Chosen
<1>4. /\ DOMAIN changed \subseteq Fixed /\ DOMAIN changed \subseteq Texts
      /\ \A name \in DOMAIN changed : changed[name] \in SUBSET Texts
    BY <1>1, ChangedFixedType
<1>5. IsAttrs(asked)
    BY <1>1, <1>4, WithFixedType
<1>6. IsUser(d.write)
    BY <1>2, <1>3, <1>5, MergedType, UserMade
<1>7. TypedContext(d)
    BY <1>1, <1>6 DEF TypedContext, Writes
<1>8. DOMAIN asked = DOMAIN body.attrs \cup DOMAIN changed
      /\ DOMAIN body.attrs \cap Fixed = {}
    BY <1>1, FixedNotGranted DEF WithFixed
<1>9. \A name : name \notin DOMAIN changed =>
          /\ Entries(asked, name) = Entries(body.attrs, name)
          /\ Value(asked, name) = Value(body.attrs, name)
          /\ name \in DOMAIN body.attrs => asked[name] = body.attrs[name]
    BY WithFixedOutside DEF WithFixed
<1>10. \A name \in Booleans \cup Lists : name \notin DOMAIN changed
    BY <1>4, KindsDisjoint
<1>11. ASSUME NEW name \in Booleans \cup Lists
       PROVE  \/ Value(attrs, name) = Value(user.attrs, name)
              \/ name \in DOMAIN body.attrs /\ Value(attrs, name) \in Range(body.attrs[name])
    <2>1. \/ Value(attrs, name) = Value(user.attrs, name)
          \/ name \in DOMAIN asked /\ Value(attrs, name) \in Range(asked[name])
        BY <1>2, <1>5, MergedValue
    <2> QED BY <1>8, <1>9, <1>10, <2>1
<1>12. Powers(attrs) \subseteq Powers(user.attrs) \cup Powers(c.caller.attrs)
    <2> HIDE DEF attrs
    <2> QED BY <1>11, GrantedPowers
<1>13. WithinReach(d)
    BY <1>12 DEF WithinReach, CanManage, Chosen
<1>14. Powers(d.write.attrs) \subseteq InitialPowers
    BY <1>1, <1>12 DEF GoodUser
<1>15. Agrees(d.id, d.write)
    <2> DEFINE fixed(name) == FixedOf(id, d.write.type, d.write.aff)[name]
               before(name) == FixedOf(id, user.type, user.aff)[name]
    <2>1. SUFFICES ASSUME NEW name \in Fixed
                   PROVE  /\ name \in DOMAIN attrs => attrs[name] = <<fixed(name)>>
                          /\ name \notin DOMAIN attrs /\ id \notin DOMAIN Configured =>
                                fixed(name) = {}
        BY DEF Agrees
    <2>2. /\ name \in DOMAIN user.attrs => user.attrs[name] = <<before(name)>>
          /\ name \notin DOMAIN user.attrs /\ id \notin DOMAIN Configured => before(name) = {}
        BY DEF GoodUser, Agrees
    <2>3. IsAttrs(attrs)
        BY <1>2, <1>5, MergedType
    <2>4. CASE name \in DOMAIN changed
        <3>1. changed[name] = fixed(name)
            <4>1. CASE name = "hf.EnrollmentID"
                BY <2>4, <4>1 DEF ChangedFixed
            <4>2. CASE name = "hf.Type"
                BY <2>4, <4>2 DEF ChangedFixed, FixedOf, Chosen
            <4>3. CASE name = "hf.Affiliation"
                BY <2>4, <4>3 DEF ChangedFixed, FixedOf, Chosen
            <4> QED BY <4>1, <4>2, <4>3 DEF Fixed
        <3>2. Entries(asked, name) = <<fixed(name)>> /\ name \in DOMAIN asked
            BY <1>8, <2>4, <3>1, WithFixedInside
        <3> HIDE DEF fixed, before
        <3>3. Len(Entries(asked, name)) <= 1 /\ Value(asked, name) = fixed(name)
            <4>1. asked[name] = <<fixed(name)>>
                BY <3>2 DEF Entries
            <4>2. Len(<<fixed(name)>>) = 1 /\ <<fixed(name)>>[1] = fixed(name)
                OBVIOUS
            <4> QED BY <3>2, <4>1, <4>2 DEF Value
        <3>4. Len(Entries(user.attrs, name)) <= 1
            <4>1. Len(<<>>) = 0 /\ Len(<<before(name)>>) = 1
                OBVIOUS
            <4>2. Entries(user.attrs, name) \in {<<>>, <<before(name)>>}
                BY <2>2 DEF Entries
            <4>3. PICK n \in {0, 1} : n = Len(Entries(user.attrs, name))
                BY <4>1, <4>2, Zenon
            <4>4. n <= 1
                OBVIOUS
            <4> QED BY <4>3, <4>4, Zenon
        <3>5. Entries(attrs, name) = IF fixed(name) = {} THEN <<>> ELSE <<fixed(name)>>
            <4>1. Entries(attrs, name)
                    = IF Value(asked, name) = {} THEN <<>> ELSE <<Value(asked, name)>>
                BY <1>2, <1>5, <3>2, <3>3, <3>4, MergedOnce, ZenonT(30)
            <4> QED BY <3>3, <4>1
        <3> QED BY <2>3, <3>5, EntriesType
    <2>5. CASE name \notin DOMAIN changed
        <3>1. fixed(name) = before(name)
            <4>1. CASE name = "hf.EnrollmentID"
                BY <4>1 DEF FixedOf
            <4>2. CASE name = "hf.Type"
                BY <2>5, <4>2 DEF ChangedFixed, FixedOf, Chosen
            <4>3. CASE name = "hf.Affiliation"
                BY <2>5, <4>3 DEF ChangedFixed, FixedOf, Chosen
            <4> QED BY <4>1, <4>2, <4>3 DEF Fixed
        <3> HIDE DEF fixed, before
        <3>2. Entries(asked, name) = <<>>
            BY <1>8, <2>5 DEF Entries
        <3>3. Entries(attrs, name) = Entries(user.attrs, name)
            <4>1. MergedEntries(Entries(user.attrs, name), <<>>) = Entries(user.attrs, name)
                BY DEF MergedEntries
            <4>2. Entries(attrs, name) = MergedEntries(Entries(user.attrs, name), Entries(asked, name))
                BY <1>2, <1>5, MergedEntriesOf
            <4> QED BY <3>2, <4>1, <4>2
        <3> QED BY <1>2, <2>2, <2>3, <3>1, <3>3, EntriesType
    <2> QED BY <2>4, <2>5
<1>16. DelegatesKept(d)
    <2>1. SUFFICES ASSUME DelegatesExceed(attrs), ~DelegatesExceed(user.attrs),
                          ~Repeats(body.attrs), ~Repeats(user.attrs)
                   PROVE  /\ Roles \in DOMAIN body.attrs
                          /\ DelegateRoles \in DOMAIN body.attrs => Value(body.attrs, Roles) = {}
        BY DEF DelegatesKept
    <2>2. \A name \in {Roles, DelegateRoles} :
              Value(attrs, name) = IF name \in DOMAIN body.attrs THEN Value(body.attrs, name)
                                   ELSE Value(user.attrs, name)
        <3>1. TAKE name \in {Roles, DelegateRoles}
        <3>2. name \notin DOMAIN changed
            BY <1>10, <3>1 DEF Lists
        <3>3. CASE name \in DOMAIN body.attrs
            <4>1. Len(Entries(user.attrs, name)) <= 1
                BY <1>2, <2>1, <3>1, AskedOnce
            <4>2. Len(Entries(body.attrs, name)) <= 1
                BY <1>1, <2>1, <3>1, AskedOnce
            <4>3. Len(Entries(asked, name)) <= 1
                BY <1>9, <3>2, <4>2
            <4>4. Value(attrs, name) = Value(asked, name)
                BY <1>2, <1>5, <1>8, <3>3, <4>1, <4>3, MergedOnce
            <4> QED BY <1>9, <3>2, <3>3, <4>4
        <3>4. CASE name \notin DOMAIN body.attrs
            BY <1>1, <1>2, <1>11, <3>1, <3>4 DEF Lists
        <3> QED BY <3>3, <3>4
    <2>3. CASE DelegateRoles \notin DOMAIN body.attrs
        BY <2>1, <2>2, <2>3 DEF DelegatesExceed
    <2>4. CASE DelegateRoles \in DOMAIN body.attrs
        <3>1. Value(attrs, DelegateRoles) = Value(body.attrs, DelegateRoles)
            BY <2>2, <2>4
        <3>2. Value(body.attrs, DelegateRoles) # {}
            BY <2>1, <3>1 DEF DelegatesExceed
        <3>3. DelegatesChecked(body.attrs, user.attrs)
            BY <1>1, <2>4, <3>2, EntriesType, DelegatesLookedUp
        <3>4. Asked(body.attrs, DelegateRoles) = Value(body.attrs, DelegateRoles)
              /\ Asked(body.attrs, Roles) = Value(body.attrs, Roles)
            BY <1>1, <2>1, AskedOnce
        <3>5. Roles \notin DOMAIN body.attrs => Value(body.attrs, Roles) = {}
            BY DEF Value
        <3> QED BY <2>1, <2>2, <2>4, <3>1, <3>3, <3>4, <3>5
                DEF DelegatesExceed, DelegatesChecked, RolesInView
    <2> QED BY <2>3, <2>4
<1>17. RegistrableKept(d)
    <2>1. SUFFICES ASSUME NEW entry \in Value(attrs, RegistrarAttr), entry \in Reserved,
                          entry \notin DOMAIN attrs,
                          {} \notin Range(Entries(body.attrs, entry)),
                          ~(entry = "hf.Affiliation" /\ d.write.aff = Root)
                   PROVE  entry \in Unowned(user.attrs)
        BY DEF RegistrableKept, Unowned
    <2>2. entry \notin DOMAIN user.attrs \cup DOMAIN asked
        <3>1. SUFFICES ASSUME entry \in DOMAIN user.attrs \cup DOMAIN asked PROVE FALSE
            OBVIOUS
        <3>2. entry \in DOMAIN asked /\ {} \in Range(asked[entry])
            BY <1>2, <1>5, <2>1, <3>1, MergedKept
        <3>3. CASE entry \notin DOMAIN changed
            BY <1>8, <1>9, <2>1, <3>2, <3>3 DEF Entries
        <3>4. CASE entry \in DOMAIN changed
            <4>1. entry \notin DOMAIN body.attrs
                BY <1>4, <1>8, <3>4
            <4>2. asked[entry] = <<changed[entry]>>
                BY <3>2, <3>4, <4>1, WithFixedInside DEF Entries
            <4>3. changed[entry] = {}
                BY <3>2, <4>2 DEF Range
            <4>4. entry = "hf.Affiliation" /\ body.aff # Unset /\ {body.aff} \ {Root} = {}
                BY <3>4, <4>3 DEF ChangedFixed, FixedOf, Fixed
            <4> QED BY <2>1, <4>4 DEF Chosen
        <3> QED BY <3>3, <3>4
    <2>3. \/ Value(attrs, RegistrarAttr) = Value(user.attrs, RegistrarAttr)
          \/ /\ RegistrarAttr \in DOMAIN body.attrs
             /\ Value(attrs, RegistrarAttr) \in Range(body.attrs[RegistrarAttr])
        BY <1>11 DEF Lists
    <2>4. CASE Value(attrs, RegistrarAttr) = Value(user.attrs, RegistrarAttr)
        BY <2>1, <2>2, <2>4 DEF Unowned
    <2>5. CASE /\ RegistrarAttr \in DOMAIN body.attrs
               /\ Value(attrs, RegistrarAttr) \in Range(body.attrs[RegistrarAttr])
        <3>1. Owned(body.attrs, user.attrs, entry)
            BY <2>1, <2>5, RegistrableLookedUp
        <3> QED BY <1>8, <2>1, <2>2, <3>1 DEF Owned
    <2> QED BY <2>3, <2>4, <2>5
<1> QED BY <1>1, <1>7, <1>13, <1>14, <1>15, <1>16, <1>17 DEF GoodContext, GoodUser, Writes

-----------------------------------------------------------------------------
(* Every step keeps the invariant *)

LEMMA InitInv == Init => Inv
<1> SUFFICES ASSUME Init PROVE Inv
    OBVIOUS
<1> USE DEF Init
<1>1. \A id \in IDs : IsUser(users[id]) \/ users[id] = NoUser
    BY DelegationAssumption
<1>2. \A r \in Requests : ctx[r] = Idle /\ TypedContext(ctx[r]) /\ GoodContext(ctx[r])
    BY DEF Idle, TypedContext, GoodContext, Writes
<1>3. TypeOK
    BY <1>1, <1>2, DelegationAssumption DEF TypeOK
<1>4. ASSUME NEW id \in IDs, users[id] # NoUser PROVE GoodUser(id, users[id])
    <2>1. id \in DOMAIN Configured /\ users[id] = Configured[id]
        BY <1>4
    <2>2. Powers(users[id].attrs) \subseteq InitialPowers
        BY <2>1 DEF InitialPowers
    <2> QED BY <2>1, <2>2, DelegationAssumption DEF GoodUser
<1> QED BY <1>2, <1>3, <1>4 DEF Inv

\* A step of a request changes its context, and nothing else or one row.
LEMMA ContextStep ==
    ASSUME Inv, NEW r \in Requests, NEW d, TypedContext(d), GoodContext(d),
           ctx' = [ctx EXCEPT ![r] = d], users' = users, calls' \in 0 .. MaxCalls
    PROVE  Inv'
<1>1. ctx' = [q \in Requests |-> ctx'[q]] /\ \A q \in Requests : ctx'[q] = IF q = r THEN d ELSE ctx[q]
    BY DEF Inv, TypeOK
<1>2. \A q \in Requests : TypedContext(ctx'[q]) /\ GoodContext(ctx'[q])
    BY <1>1 DEF Inv, TypeOK
<1>3. TypeOK'
    BY <1>1, <1>2 DEF Inv, TypeOK
<1> QED BY <1>2, <1>3 DEF Inv

LEMMA IdleGood == TypedContext(Idle) /\ GoodContext(Idle)
BY DEF Idle, TypedContext, GoodContext, Writes

LEMMA RowStep ==
    ASSUME Inv, NEW r \in Requests, NEW id \in IDs, NEW user,
           user = NoUser \/ (IsUser(user) /\ GoodUser(id, user)),
           users' = [users EXCEPT ![id] = user] \/ users' = users,
           Finish(r), calls' = calls
    PROVE  Inv'
<1>1. ctx' = [q \in Requests |-> ctx'[q]] /\ \A q \in Requests : ctx'[q] = IF q = r THEN Idle ELSE ctx[q]
    BY DEF Inv, TypeOK, Finish
<1>2. \A q \in Requests : TypedContext(ctx'[q]) /\ GoodContext(ctx'[q])
    BY <1>1, IdleGood DEF Inv, TypeOK
<1>3. users' = [i \in IDs |-> users'[i]]
    BY DEF Inv, TypeOK
<1>4. \A i \in IDs : users'[i] = users[i] \/ (i = id /\ users'[i] = user)
    BY DEF Inv, TypeOK
<1>5. \A i \in IDs : IsUser(users'[i]) \/ users'[i] = NoUser
    BY <1>4 DEF Inv, TypeOK
<1>6. \A i \in IDs : users'[i] # NoUser => GoodUser(i, users'[i])
    BY <1>4 DEF Inv
<1>7. TypeOK'
    BY <1>1, <1>2, <1>3, <1>5 DEF Inv, TypeOK
<1> QED BY <1>2, <1>6, <1>7 DEF Inv

LEMMA NextInv == Inv /\ [Next]_vars => Inv'
<1> SUFFICES ASSUME Inv, [Next]_vars PROVE Inv'
    OBVIOUS
<1>1. \A q \in Requests : TypedContext(ctx[q]) /\ GoodContext(ctx[q])
    BY DEF Inv, TypeOK
<1>2. \A i \in IDs : users[i] # NoUser => IsUser(users[i]) /\ GoodUser(i, users[i])
    BY DEF Inv, TypeOK
<1>3. calls \in 0 .. MaxCalls
    BY DEF Inv, TypeOK
<1>4. ASSUME NEW r \in Requests, NEW id \in IDs, GetCaller(r, id) PROVE Inv'
    <2> DEFINE d == [Idle EXCEPT !.pc = "process", !.caller = users[id]]
    <2>1. d.pc = "process" /\ d.caller = users[id]
        BY DEF Idle
    <2>2. IsUser(users[id]) /\ GoodUser(id, users[id])
        BY <1>2, <1>4 DEF GetCaller
    <2>3. TypedContext(d) /\ GoodContext(d)
        BY <2>1, <2>2 DEF TypedContext, GoodContext, GoodUser, Writes
    <2>4. calls' \in 0 .. MaxCalls
        BY <1>3, <1>4, DelegationAssumption DEF GetCaller
    <2>5. ctx' = [ctx EXCEPT ![r] = d] /\ users' = users
        BY <1>4 DEF GetCaller
    <2> HIDE DEF d
    <2> QED BY <2>3, <2>4, <2>5, ContextStep
<1>5. ASSUME NEW r \in Requests, NEW id \in IDs, Delete(r, id) PROVE Inv'
    <2> DEFINE d == [pc |-> "delete", caller |-> ctx[r].caller, id |-> id, read |-> users[id],
                     attrs |-> None, write |-> NoUser]
    <2>1. ctx[r].pc = "process" /\ ctx' = [ctx EXCEPT ![r] = d] /\ users' = users /\ calls' = calls
        BY <1>5 DEF Delete, Prepare, At
    <2>2. TypedContext(d) /\ GoodContext(d)
        BY <1>1, <2>1 DEF TypedContext, GoodContext, Writes
    <2> HIDE DEF d
    <2> QED BY <1>3, <2>1, <2>2, ContextStep
<1>6. ASSUME NEW r \in Requests, NEW id \in IDs, NEW body \in Bodies, Register(r, id, body) PROVE Inv'
    <2> DEFINE type == Chosen(body.type, ctx[r].caller.type)
               aff == Chosen(body.aff, ctx[r].caller.aff)
               d == [pc |-> "insert", caller |-> ctx[r].caller, id |-> id, read |-> NoUser,
                     attrs |-> body.attrs,
                     write |-> [type |-> type, aff |-> aff,
                                attrs |-> WithFixed(body.attrs, FixedOf(id, type, aff))]]
    <2>1. /\ ctx[r].pc = "process" /\ ctx' = [ctx EXCEPT ![r] = d] /\ users' = users /\ calls' = calls
          /\ ActsOn(ctx[r].caller, type) /\ InReach(ctx[r].caller, aff)
          /\ CanGrant(body.attrs, None, ctx[r].caller.attrs)
        BY <1>6 DEF Register, Prepare, At
    <2>2. IsUser(ctx[r].caller)
        BY <1>1, <2>1 DEF TypedContext
    <2>3. type \in Types /\ aff \in Affiliations
        BY <2>2, UserFields, DelegationAssumption DEF Chosen
    <2>4. TypedContext(d) /\ GoodContext(d)
        <3> HIDE DEF type, aff
        <3> QED BY <1>1, <2>1, <2>3, RegisterPrepared
    <2> HIDE DEF d
    <2> QED BY <1>3, <2>1, <2>4, ContextStep
<1>7. ASSUME NEW r \in Requests, NEW id \in IDs, NEW body \in Bodies, Modify(r, id, body) PROVE Inv'
    <2> DEFINE user == users[id]
               asked == WithFixed(body.attrs, ChangedFixed(id, body.type, body.aff))
               d == [pc |-> "update", caller |-> ctx[r].caller, id |-> id, read |-> user,
                     attrs |-> body.attrs,
                     write |-> [type |-> Chosen(body.type, user.type),
                                aff |-> Chosen(body.aff, user.aff),
                                attrs |-> Merged(user.attrs, asked)]]
    <2>1. /\ ctx[r].pc = "process" /\ ctx' = [ctx EXCEPT ![r] = d] /\ users' = users /\ calls' = calls
          /\ user # NoUser /\ CanManage(ctx[r].caller, user)
          /\ body.aff # Unset => InReach(ctx[r].caller, body.aff)
          /\ body.type # Unset => ActsOn(ctx[r].caller, body.type)
          /\ CanGrant(body.attrs, user.attrs, ctx[r].caller.attrs)
        BY <1>7 DEF Modify, Prepare, At
    <2>2. IsUser(user) /\ GoodUser(id, user)
        BY <1>2, <2>1
    <2>3. TypedContext(d) /\ GoodContext(d)
        <3> HIDE DEF user, asked
        <3>1. asked = WithFixed(body.attrs, ChangedFixed(id, body.type, body.aff))
            BY DEF asked
        <3> QED BY <1>1, <2>1, <2>2, <3>1, ModifyPrepared
    <2> HIDE DEF d
    <2> QED BY <1>3, <2>1, <2>3, ContextStep
<1>8. ASSUME NEW r \in Requests, InsertUser(r) \/ UpdateUser(r) PROVE Inv'
    <2>1. ctx[r].pc \in Writes /\ Finish(r) /\ calls' = calls
        BY <1>8 DEF InsertUser, UpdateUser, At, Writes
    <2>2. ctx[r].id \in IDs /\ IsUser(ctx[r].write) /\ GoodUser(ctx[r].id, ctx[r].write)
        BY <1>1, <2>1 DEF TypedContext, GoodContext
    <2>3. users' = [users EXCEPT ![ctx[r].id] = ctx[r].write] \/ users' = users
        BY <1>8 DEF InsertUser, UpdateUser
    <2> QED BY <2>1, <2>2, <2>3, RowStep
<1>9. ASSUME NEW r \in Requests, DeleteUser(r) PROVE Inv'
    <2>1. ctx[r].id \in IDs
        BY <1>1, <1>9 DEF DeleteUser, At, TypedContext
    <2>2. users' = [users EXCEPT ![ctx[r].id] = NoUser] /\ Finish(r) /\ calls' = calls
        BY <1>9 DEF DeleteUser
    <2>3. PICK user : user = NoUser
        OBVIOUS
    <2>4. user = NoUser \/ (IsUser(user) /\ GoodUser(ctx[r].id, user))
        BY <2>3
    <2>5. users' = [users EXCEPT ![ctx[r].id] = user] \/ users' = users
        BY <2>2, <2>3
    <2> QED BY <2>1, <2>2, <2>4, <2>5, RowStep
<1>10. ASSUME NEW r \in Requests, Leave(r) PROVE Inv'
    <2>1. ctx' = [ctx EXCEPT ![r] = Idle] /\ users' = users /\ calls' \in 0 .. MaxCalls
        BY <1>3, <1>10 DEF Leave, Finish
    <2> QED BY <2>1, IdleGood, ContextStep
<1>11. CASE UNCHANGED vars
    <2>1. users' = users /\ ctx' = ctx /\ calls' = calls
        BY <1>11 DEF vars
    <2>2. TypeOK'
        BY <2>1 DEF Inv, TypeOK
    <2> QED BY <2>1, <2>2 DEF Inv
<1> QED BY <1>4, <1>5, <1>6, <1>7, <1>8, <1>9, <1>10, <1>11 DEF Next

LEMMA Invariance == Spec => []Inv
<1>1. Init => Inv
    BY InitInv
<1>2. Inv /\ [Next]_vars => Inv'
    BY NextInv
<1> QED BY <1>1, <1>2, PTL DEF Spec

-----------------------------------------------------------------------------
(* Theorems *)

\* Rows and requests keep their shape, for any identities and requests.
THEOREM TypeCorrect == Spec => []TypeOK
<1>1. Inv => TypeOK
    BY DEF Inv
<1> QED BY <1>1, Invariance, PTL

\* No sequence of registrations and modifications, however they overlap, gives
\* an identity a power that no identity of the configuration had.
THEOREM PowersBounded == Spec => []NoNewPower
<1>1. Inv => NoNewPower
    <2> SUFFICES ASSUME Inv, NEW id \in IDs PROVE Powers(users[id].attrs) \subseteq InitialPowers
        BY DEF NoNewPower
    <2>1. CASE users[id] = NoUser
        BY <2>1, NoPowers DEF NoUser
    <2>2. CASE users[id] # NoUser
        BY <2>2 DEF Inv, GoodUser
    <2> QED BY <2>1, <2>2
<1> QED BY <1>1, Invariance, PTL

\* The attributes for name, type and affiliation agree with the columns.
THEOREM ColumnsAgree == Spec => []AttributesAgree
<1>1. Inv => AttributesAgree
    BY DEF Inv, AttributesAgree, GoodUser
<1> QED BY <1>1, Invariance, PTL

\* A request writes only what is within its caller's reach and powers.
THEOREM Reach == Spec => []WritesWithinReach
<1>1. Inv => WritesWithinReach
    BY DEF Inv, GoodContext, WritesWithinReach
<1> QED BY <1>1, Invariance, PTL

\* A request keeps the roles to delegate among the roles, where neither it nor
\* the row has an entry too many for one of the two, and unless it lowers the
\* roles alone.
THEOREM DelegatesBounded == Spec => []DelegatesWithinRoles
<1>1. Inv => DelegatesWithinRoles
    BY DEF Inv, GoodContext, DelegatesWithinRoles
<1> QED BY <1>1, Invariance, PTL

\* A request keeps what may be registered among what is owned.
THEOREM RegistrableOwned == Spec => []RegistrableIsOwned
<1>1. Inv => RegistrableIsOwned
    BY DEF Inv, GoodContext, RegistrableIsOwned
<1> QED BY <1>1, Invariance, PTL
=============================================================================
