------------------------------- MODULE Attributes ------------------------------
(***************************************************************************)
(* The attributes of identities and who may grant them.  Attributes are a  *)
(* list of names and values, in requests as in the table, and nothing      *)
(* keeps a name from standing in it twice: here every name has the         *)
(* sequence of its values, since no code depends on the order of different *)
(* names.  A value is a set of texts: the entries of a list, the one text  *)
(* of any other value, and the empty set for the empty string, which       *)
(* deletes an attribute.  Texts stand for what they are up to spaces and,  *)
(* in roles, the case of letters.                                          *)
(***************************************************************************)
EXTENDS Integers, Sequences, FiniteSets, Functions

CONSTANTS
    Texts,      \* everything an attribute may be called or hold
    Reserved,   \* the texts that begin with "hf."
    Patterns,   \* the texts that end with "*"
    Prefixed    \* Patterns -> the texts that begin like the pattern

Roles == "hf.Registrar.Roles"
DelegateRoles == "hf.Registrar.DelegateRoles"
RegistrarAttr == "hf.Registrar.Attributes"

Booleans == {"hf.Revoker", "hf.IntermediateCA", "hf.GenCRL", "hf.AffiliationMgr"}
Lists == {Roles, DelegateRoles, RegistrarAttr}
Fixed == {"hf.EnrollmentID", "hf.Type", "hf.Affiliation"}

\* What begins like a longer beginning begins like the shorter one as well.
ASSUME PrefixAssumption ==
    /\ Booleans \cup Lists \cup Fixed \subseteq Reserved
    /\ Reserved \subseteq Texts /\ Patterns \subseteq Texts
    /\ Prefixed \in [Patterns -> SUBSET Texts]
    /\ \A p \in Patterns : \A q \in Prefixed[p] \cap Patterns : Prefixed[q] \subseteq Prefixed[p]

IsAttrs(attrs) ==
    /\ DOMAIN attrs \subseteq Texts
    /\ attrs \in [DOMAIN attrs -> Seq(SUBSET Texts)]
    /\ \A name \in DOMAIN attrs : attrs[name] # <<>>

None == [name \in {} |-> {}]

Entries(attrs, name) == IF name \in DOMAIN attrs THEN attrs[name] ELSE <<>>

\* newDBUser: an identity has the last of its entries.
Value(attrs, name) == IF name \in DOMAIN attrs THEN attrs[name][Len(attrs[name])] ELSE {}

\* GetAttrValue: a request is looked up for the first.
Asked(asked, name) == IF name \in DOMAIN asked THEN asked[name][1] ELSE {}

-----------------------------------------------------------------------------
\* canRegisterAttr: an entry of hf.Registrar.Attributes names the attribute or
\* is a pattern that it matches.
Covers(entries, name) ==
    \E entry \in entries : IF entry \in Patterns THEN name \in Prefixed[entry] ELSE name = entry

\* checkHfRegistrarAttrValues: a reserved attribute that an identity may
\* register is one that it has, or is about to get.
Owned(asked, user, entry) ==
    entry \in Reserved => entry \in DOMAIN asked \cup DOMAIN user

\* Variant: roles of the request and of the identity.
RolesInViewOfBoth(asked, user) == Asked(asked, Roles) \cup Value(user, Roles)

\* checkDelegateRoleValues: roles of the request, or else of the identity.
RolesInView(asked, user) ==
    IF Asked(asked, Roles) # {} THEN Asked(asked, Roles) ELSE Value(user, Roles)

DelegatesChecked(asked, user) == Asked(asked, DelegateRoles) \subseteq RolesInView(asked, user)

\* validateBooleanAttribute
BooleanAllowed(value, owned) == owned = {"true"} /\ value \in {{}, {"true"}, {"false"}}

\* validateListAttribute, for one of the entries that are asked for
ListAllowed(asked, name, value, user, owned) ==
    \/ value = {}
    \/ /\ name = RegistrarAttr
       /\ \A entry \in value : Covers(owned, entry) /\ Owned(asked, user, entry)
    \/ /\ name # RegistrarAttr
       /\ value \subseteq owned
       /\ name = DelegateRoles => DelegatesChecked(asked, user)

\* Variant: attributes are granted by who does not have them.
AuthorizedUnowned(asked, name, value, user, registrar) ==
    \/ name \in Booleans /\ value \in {{}, {"true"}, {"false"}}
    \/ name \in Lists \cap DOMAIN registrar /\ ListAllowed(asked, name, value, user, Value(registrar, name))
    \/ name \notin Reserved

\* getAttributeControl and isRegistrarAuthorized: what is reserved must be the
\* caller's own, the fixed attributes are nobody's to grant.
Authorized(asked, name, value, user, registrar) ==
    \/ /\ name \in Booleans \cap DOMAIN registrar
       /\ BooleanAllowed(value, Value(registrar, name))
    \/ /\ name \in Lists \cap DOMAIN registrar
       /\ ListAllowed(asked, name, value, user, Value(registrar, name))
    \/ name \notin Reserved

\* CanRegisterRequestedAttributes, entry by entry; user is None for a new
\* identity.
CanGrant(asked, user, registrar) ==
    \A name \in DOMAIN asked :
        /\ Covers(Value(registrar, RegistrarAttr), name)
        /\ \A value \in Range(asked[name]) : Authorized(asked, name, value, user, registrar)

-----------------------------------------------------------------------------
\* addAttributeToRequest, for the attributes nobody may ask for
WithFixed(asked, fixed) ==
    [name \in DOMAIN asked \cup DOMAIN fixed |->
        IF name \in DOMAIN fixed THEN Entries(asked, name) \o <<fixed[name]>> ELSE asked[name]]

\* getNewAttributes for one name: every value that is asked for takes the place
\* of the first that is there, or is appended, and an empty one deletes it.  So
\* each deletion takes one, and of the others only the last remains.
MergedEntries(stored, asked) ==
    LET deleted == Cardinality({i \in DOMAIN asked : asked[i] = {}})
        last == asked[Len(asked)]
    IN  IF asked = <<>> THEN stored
        ELSE IF last = {} THEN SubSeq(stored, deleted + 1, Len(stored))
        ELSE <<last>> \o SubSeq(stored, deleted + 2, Len(stored))

\* getNewAttributes
Merged(attrs, asked) ==
    LET entries(name) == MergedEntries(Entries(attrs, name), Entries(asked, name))
    IN  [name \in {n \in DOMAIN attrs \cup DOMAIN asked : entries(n) # <<>>} |-> entries(name)]

-----------------------------------------------------------------------------
\* What the attributes empower an identity to do or to grant.
Powers(attrs) ==
    {<<name, "true">> : name \in {n \in Booleans : Value(attrs, n) = {"true"}}}
      \cup {<<Roles, role>> : role \in Value(attrs, Roles)}
      \cup {<<DelegateRoles, role>> : role \in Value(attrs, DelegateRoles)}
      \cup {<<RegistrarAttr, name>> : name \in {t \in Texts : Covers(Value(attrs, RegistrarAttr), t)}}
=============================================================================
