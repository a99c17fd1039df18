------------------------------ MODULE Delegation -------------------------------
(***************************************************************************)
(* How authority passes from one identity to another.  A registrar         *)
(* registers, modifies and deletes identities; the checks use the caller   *)
(* and the identity as the request read them, and a modification writes    *)
(* the whole record back that it read.  Requests run at the same time and  *)
(* may end at any point.                                                   *)
(***************************************************************************)
EXTENDS Attributes

CONSTANTS
    IDs,            \* names of identities
    Types,          \* types of identities
    Affiliations,   \* names of affiliations, Root among them
    Root,           \* the empty name
    Below,          \* Affiliations -> those whose name continues this one's
    Configured,     \* the identities of the configuration: some IDs -> User
    Bodies,         \* what requests may ask for: type, affiliation and attributes
    Requests,       \* requests that run at the same time
    Unset,          \* what a request leaves open
    MaxCalls        \* bound on the number of requests

NoUser == [type |-> "none", aff |-> Root, attrs |-> None]

IsUser(user) ==
    /\ user = [type |-> user.type, aff |-> user.aff, attrs |-> user.attrs]
    /\ user.type \in Types /\ user.aff \in Affiliations /\ IsAttrs(user.attrs)

\* The attributes that repeat what is in other columns.
FixedOf(id, type, aff) ==
    [name \in Fixed |-> CASE name = "hf.EnrollmentID" -> {id}
                          [] name = "hf.Type" -> {type}
                          [] name = "hf.Affiliation" -> {aff} \ {Root}]

\* The attributes agree with the columns and with the name, and none of them is
\* repeated; an identity of the configuration may lack them.
Agrees(id, user) ==
    \A name \in Fixed :
        LET fixed == FixedOf(id, user.type, user.aff)[name]
        IN  /\ name \in DOMAIN user.attrs => user.attrs[name] = <<fixed>>
            /\ name \notin DOMAIN user.attrs /\ id \notin DOMAIN Configured => fixed = {}

ASSUME DelegationAssumption ==
    /\ Types \cup IDs \cup Affiliations \subseteq Texts /\ "none" \notin Types \cup IDs
    /\ Root \in Affiliations
    /\ Below \in [Affiliations -> SUBSET Affiliations]
    /\ DOMAIN Configured \subseteq IDs
    /\ \A id \in DOMAIN Configured : IsUser(Configured[id]) /\ Agrees(id, Configured[id])
    /\ \A body \in Bodies :
          /\ body.type \in Types \cup {Unset} /\ body.aff \in Affiliations \cup {Unset}
          /\ IsAttrs(body.attrs)
    /\ Unset \notin Types \cup Affiliations
    /\ MaxCalls \in Nat

VARIABLES
    users,  \* IDs -> the row of table users, or NoUser
    ctx,    \* Requests -> the request in its goroutine
    calls   \* how many requests there were

vars == <<users, ctx, calls>>

Idle == [pc |-> "idle", caller |-> NoUser, id |-> "none", read |-> NoUser,
         attrs |-> None, write |-> NoUser]

At(r, pc) == ctx[r].pc = pc
Finish(r) == ctx' = [ctx EXCEPT ![r] = Idle]

\* The checks are passed; what is left is the statement that changes the row.
Prepare(r, pc, id, read, attrs, write) ==
    ctx' = [ctx EXCEPT ![r] = [pc |-> pc, caller |-> ctx[r].caller, id |-> id, read |-> read,
                               attrs |-> attrs, write |-> write]]

-----------------------------------------------------------------------------
(* The checks *)

\* isRegistrar, canActOnType
ActsOn(caller, type) == type \in Value(caller.attrs, Roles)

\* containsAffiliation
InReach(caller, aff) ==
    caller.aff = Root \/ aff = caller.aff \/ aff \in Below[caller.aff]

\* Variant: only the type is looked at.
CanManageType(caller, user) == ActsOn(caller, user.type)

\* CanManageUser
CanManage(caller, user) == InReach(caller, user.aff) /\ ActsOn(caller, user.type)

Chosen(asked, default) == IF asked = Unset THEN default ELSE asked

-----------------------------------------------------------------------------
(* A request *)

\* TokenAuthentication and GetCaller
GetCaller(r, id) ==
    /\ At(r, "idle") /\ users[id] # NoUser
    /\ calls < MaxCalls /\ calls' = calls + 1
    /\ ctx' = [ctx EXCEPT ![r] = [Idle EXCEPT !.pc = "process", !.caller = users[id]]]
    /\ UNCHANGED users

\* normalizeRegistrationRequest, canRegister and registerUserID up to the
\* lookup of the name.
Register(r, id, body) ==
    LET caller == ctx[r].caller
        newType == Chosen(body.type, caller.type)
        newAff == Chosen(body.aff, caller.aff)
    IN  /\ At(r, "process")
        /\ ActsOn(caller, newType)
        /\ InReach(caller, newAff)
        /\ CanGrant(body.attrs, None, caller.attrs)
        /\ users[id] = NoUser
        /\ Prepare(r, "insert", id, NoUser, body.attrs,
                   [type |-> newType, aff |-> newAff,
                    attrs |-> WithFixed(body.attrs, FixedOf(id, newType, newAff))])
        /\ UNCHANGED <<users, calls>>

\* InsertUser, with a key on the name; without one IdentityRegistry shows more.
InsertUser(r) ==
    /\ At(r, "insert")
    /\ users' = IF users[ctx[r].id] = NoUser
                THEN [users EXCEPT ![ctx[r].id] = ctx[r].write] ELSE users
    /\ Finish(r)
    /\ UNCHANGED calls

\* Variant: the attributes that repeat type and affiliation are left alone.
ChangedFixedLeft(id, type, aff) == None

\* getModifyReq: type and affiliation, where they are asked for, show in the
\* attributes as well.
ChangedFixed(id, type, aff) ==
    [name \in (IF type = Unset THEN {} ELSE {"hf.Type"})
                \cup (IF aff = Unset THEN {} ELSE {"hf.Affiliation"}) |->
        FixedOf(id, type, aff)[name]]

\* processPutRequest up to the update: getModifyReq, then CanModifyUser.
Modify(r, id, body) ==
    LET caller == ctx[r].caller
        user == users[id]
        asked == WithFixed(body.attrs, ChangedFixed(id, body.type, body.aff))
    IN  /\ At(r, "process")
        /\ user # NoUser /\ CanManage(caller, user)
        /\ body.aff # Unset => InReach(caller, body.aff)
        /\ body.type # Unset => ActsOn(caller, body.type)
        /\ CanGrant(body.attrs, user.attrs, caller.attrs)
        /\ Prepare(r, "update", id, user, body.attrs,
                   [type |-> Chosen(body.type, user.type), aff |-> Chosen(body.aff, user.aff),
                    attrs |-> Merged(user.attrs, asked)])
        /\ UNCHANGED <<users, calls>>

\* UpdateUser writes every column.
UpdateUser(r) ==
    /\ At(r, "update")
    /\ users' = IF users[ctx[r].id] # NoUser
                THEN [users EXCEPT ![ctx[r].id] = ctx[r].write] ELSE users
    /\ Finish(r)
    /\ UNCHANGED calls

\* processDeleteRequest
Delete(r, id) ==
    /\ At(r, "process")
    /\ users[id] # NoUser /\ CanManage(ctx[r].caller, users[id])
    /\ Prepare(r, "delete", id, users[id], None, NoUser)
    /\ UNCHANGED <<users, calls>>

DeleteUser(r) ==
    /\ At(r, "delete")
    /\ users' = [users EXCEPT ![ctx[r].id] = NoUser]
    /\ Finish(r)
    /\ UNCHANGED calls

\* The request is refused, or fails, or its server dies.
Leave(r) ==
    /\ ~At(r, "idle")
    /\ Finish(r)
    /\ UNCHANGED <<users, calls>>

Init ==
    /\ users = [id \in IDs |-> IF id \in DOMAIN Configured THEN Configured[id] ELSE NoUser]
    /\ ctx = [r \in Requests |-> Idle]
    /\ calls = 0

Next ==
    \E r \in Requests :
        \/ \E id \in IDs : GetCaller(r, id) \/ Delete(r, id)
        \/ \E id \in IDs, body \in Bodies : Register(r, id, body) \/ Modify(r, id, body)
        \/ InsertUser(r) \/ UpdateUser(r) \/ DeleteUser(r) \/ Leave(r)

Spec == Init /\ [][Next]_vars

-----------------------------------------------------------------------------
(* Properties *)

Writes == {"insert", "update"}

TypedContext(c) ==
    /\ c.pc \in {"idle", "process", "delete"} \cup Writes
    /\ c.pc # "idle" => IsUser(c.caller)
    /\ c.pc \in Writes => IsUser(c.write) /\ IsAttrs(c.attrs)
    /\ c.pc = "update" => IsUser(c.read)
    /\ c.pc \in Writes \cup {"delete"} => c.id \in IDs

\* Rows and requests keep their shape.
TypeOK ==
    /\ users = [id \in IDs |-> users[id]]
    /\ \A id \in IDs : IsUser(users[id]) \/ users[id] = NoUser
    /\ ctx = [r \in Requests |-> ctx[r]]
    /\ \A r \in Requests : TypedContext(ctx[r])
    /\ calls \in 0 .. MaxCalls

InitialPowers == UNION {Powers(Configured[id].attrs) : id \in DOMAIN Configured}

\* Whatever registrars do for each other, and whatever requests overwrite, no
\* identity is ever empowered to what no identity of the configuration was
\* (CanRegisterRequestedAttributes, getNewAttributes).
NoNewPower == \A id \in IDs : Powers(users[id].attrs) \subseteq InitialPowers

\* The attributes for name, type and affiliation agree with the columns that
\* authority is checked with, and stand in the list once, whichever of two
\* requests writes last; in the root there may be no attribute for the
\* affiliation, and identities of the configuration may lack any (registerUserID,
\* getModifyReq).
AttributesAgree == \A id \in IDs : users[id] # NoUser => Agrees(id, users[id])

WithinReach(c) ==
    /\ InReach(c.caller, c.write.aff)
    /\ ActsOn(c.caller, c.write.type)
    /\ Powers(c.write.attrs) \subseteq Powers(c.caller.attrs) \cup Powers(c.read.attrs)

\* What is written is within the caller's reach, the parts of the record that
\* the request did not ask to change included (CanManageUser, CanModifyUser).
WritesWithinReach == \A r \in Requests : ctx[r].pc \in Writes => WithinReach(ctx[r])

DelegatesExceed(attrs) == ~(Value(attrs, DelegateRoles) \subseteq Value(attrs, Roles))

Repeats(attrs) == \E name \in {Roles, DelegateRoles} : Len(Entries(attrs, name)) > 1

DelegatesKept(c) ==
    DelegatesExceed(c.write.attrs) =>
        \/ DelegatesExceed(c.read.attrs)
        \/ Repeats(c.attrs) \/ Repeats(c.read.attrs)
        \/ /\ Roles \in DOMAIN c.attrs
           /\ DelegateRoles \in DOMAIN c.attrs => Value(c.attrs, Roles) = {}

\* The roles an identity may delegate are among its own after every request, if
\* they were before, unless the request or the row has an entry too many for
\* either, where the first is checked and the last one counts, or the request
\* lowers hf.Registrar.Roles and does not name hf.Registrar.DelegateRoles, or
\* deletes it (checkDelegateRoleValues against newDBUser and getNewAttributes).
DelegatesWithinRoles == \A r \in Requests : ctx[r].pc \in Writes => DelegatesKept(ctx[r])

Unowned(attrs) == (Value(attrs, RegistrarAttr) \cap Reserved) \ DOMAIN attrs

RegistrableKept(c) ==
    \A entry \in Unowned(c.write.attrs) :
        \/ entry \in Unowned(c.read.attrs)
        \/ {} \in Range(Entries(c.attrs, entry))
        \/ entry = "hf.Affiliation" /\ c.write.aff = Root

\* The reserved attributes that an identity may register for others are among
\* its own after every request, if they were before, unless the request deletes
\* them, as a move into the root does (checkHfRegistrarAttrValues).
RegistrableIsOwned == \A r \in Requests : ctx[r].pc \in Writes => RegistrableKept(ctx[r])
=============================================================================
