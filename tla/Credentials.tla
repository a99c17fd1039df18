------------------------------ MODULE Credentials ------------------------------
(***************************************************************************)
(* How authorities and clients come by keys, certificates and chains.  An  *)
(* authority generates its certificate or enrolls with its parent when its *)
(* server first starts; a client enrolls with an authority by command.     *)
(* Both write what they got into files, one after the other, and may be    *)
(* interrupted between any two.                                            *)
(***************************************************************************)
EXTENDS CertificateChain

CONSTANTS
    Authorities,    \* CAs, each in a server of its own
    Root,           \* the one that has no parent
    Clients,        \* home directories of clients
    Commands,       \* processes of zigledger-ca-client
    Home,           \* Commands -> Clients
    Parent,         \* with whom the other CAs and the clients enroll
    ParentFirst,    \* the CAs that run with CA_CHAIN_PARENT_FIRST
    Allowance,      \* how often the parent lets them enroll
    MaxCerts,       \* Processes -> bound on the certificates it asks for
    MaxTrouble,     \* bound on crashes, failures, renewals and second starts
    NoFile, Torn    \* no file, and a file whose writing was interrupted

Nodes == Authorities \cup Clients
Processes == Authorities \cup Commands
HomeOf(x) == IF x \in Authorities THEN x ELSE Home[x]

\* Every node is below its parent.
Hierarchy(depth) == \A n \in Nodes \ {Root} : depth[Parent[n]] < depth[n]

ASSUME CredentialsAssumption ==
    /\ Root \in Authorities
    /\ Home \in [Commands -> Clients]
    /\ Parent \in [Nodes \ {Root} -> Authorities]
    /\ Authorities \cap Clients = {} /\ Authorities \cap Commands = {}
    /\ IsFiniteSet(Nodes) /\ \E depth \in [Nodes -> 0 .. Cardinality(Nodes)] : Hierarchy(depth)
    /\ Allowance \in [Nodes \ {Root} -> Nat]
    /\ MaxCerts \in [Processes -> Nat] /\ MaxTrouble \in Nat

VARIABLES
    disk,       \* Nodes -> the files of the home directory
    proc,       \* Processes -> what the process is about
    signed,     \* every certificate that was ever signed
    spent,      \* Nodes -> the enrollments that the parent has counted
    cut,        \* <<home, file>>: the file is not as an interrupted process meant it
    renewed,    \* the authorities that were given another certificate
    trouble     \* how much of MaxTrouble there was

vars == <<disk, proc, signed, spent, cut, renewed, trouble>>

\* The files of an authority or of a client: private keys in the keystore, the
\* key file, the certificate, the chain or cacerts, and intermediatecerts.
Files(keyfile, cert) ==
    [keys |-> {}, keyfile |-> keyfile, cert |-> cert, chain |-> NoFile, ints |-> NoFile]

\* A process; cn says that CSR.CN is set in its memory.
Process(pc) ==
    [pc |-> pc, cn |-> FALSE, cmd |-> "enroll", renew |-> FALSE,
     key |-> NoFile, with |-> NoFile, cert |-> NoFile, chain |-> <<>>]

At(x, pc) == proc[x].pc = pc
Goto(x, pc) == [proc EXCEPT ![x].pc = pc]
Running(a) == At(a, "running")
Trouble == trouble < MaxTrouble /\ trouble' = trouble + 1

Held(n) == disk[n].cert \notin {NoFile, Torn}

\* Variant: what ends is a command.
EndedIdle(x) == Process("idle")

\* A command, or the start of a server, has ended; the server's process lives on.
Ended(x) == IF x \in Authorities THEN [Process("stopped") EXCEPT !.cn = proc[x].cn]
                                 ELSE Process("idle")

Ends(x) == [proc EXCEPT ![x] = Ended(x)]

Fresh(x) == Process(IF x \in Authorities THEN "down" ELSE "idle")

\* Variant: CSR.CN outlives the process.
DiedKept(x) == [Fresh(x) EXCEPT !.cn = proc[x].cn]

\* The process is gone.
Died(x) == Fresh(x)

-----------------------------------------------------------------------------
(* Keys *)

\* A new key, told from all that something was ever signed for.
NewKey(x) == [of |-> x, n |-> 1 + Cardinality({cert \in signed : cert.key.of = x})]

Few(x) == NewKey(x).n <= MaxCerts[x]

\* Variant: the key is ephemeral.
WithKeyEphemeral(h, key) == disk

\* BCCSPKeyRequestGenerate: the key is in the keystore before it is used.
WithKey(h, key) == [disk EXCEPT ![h].keys = @ \cup {key}]

\* GetSignerFromCertFile: the certificate can be read, its key is there.
HasSigner(h) == Held(h) /\ disk[h].cert.key \in disk[h].keys

-----------------------------------------------------------------------------
(* The start of an authority *)

\* Server.Start in a new process, or Server.Init(true), or a second start in
\* the process of the first.
Start(a, renew) ==
    /\ proc[a].pc \in {"down", "stopped"}
    /\ IF At(a, "stopped") \/ renew THEN Trouble ELSE UNCHANGED trouble
    /\ proc' = [proc EXCEPT ![a] = [Process("init") EXCEPT !.cn = proc[a].cn, !.renew = renew]]
    /\ UNCHANGED <<disk, signed, spent, cut, renewed>>

Exit(a) ==
    /\ At(a, "stopped")
    /\ proc' = [proc EXCEPT ![a] = Died(a)]
    /\ UNCHANGED <<disk, signed, spent, cut, renewed, trouble>>

Generates(a) == proc[a].renew \/ disk[a].cert = NoFile

MatchingKeys(a) == disk[a].cert.key = disk[a].keyfile

\* validateCertAndKey: the certificate can be read and fits the key file.
ValidCertAndKey(a) == Held(a) /\ MatchingKeys(a)

\* initKeyMaterial, the files exist: with a key file they must fit, without one
\* the key must be in the keystore.  CSR.CN is loaded from the certificate.
LoadKeyMaterial(a) ==
    /\ At(a, "init") /\ ~Generates(a)
    /\ proc' = IF IF disk[a].keyfile # NoFile THEN ValidCertAndKey(a) ELSE HasSigner(a)
               THEN [proc EXCEPT ![a].pc = "signer", ![a].cn = TRUE]
               ELSE Ends(a)
    /\ UNCHANGED <<disk, signed, spent, cut, renewed, trouble>>

\* getCACert of a root: the certificate is signed with its own key.
GenerateRoot(a) ==
    LET key == NewKey(a)
        cert == [subject |-> a, key |-> key, issuer |-> a, signer |-> key]
    IN  /\ At(a, "init") /\ Generates(a) /\ a = Root
        /\ disk' = WithKey(a, key)
        /\ signed' = signed \cup {cert}
        /\ renewed' = IF disk[a].cert = NoFile THEN renewed ELSE renewed \cup {a}
        /\ proc' = [proc EXCEPT ![a].pc = "cert", ![a].key = key, ![a].cert = cert]
        /\ UNCHANGED <<spent, cut, trouble>>

\* getCACert of another: it enrolls with the parent, unless CSR.CN is set.
RequestCACert(a) ==
    LET key == NewKey(a)
    IN  /\ At(a, "init") /\ Generates(a) /\ a # Root /\ Few(a)
        /\ IF proc[a].cn
           THEN proc' = Ends(a) /\ UNCHANGED <<disk, renewed>>
           ELSE /\ disk' = WithKey(a, key)
                /\ renewed' = IF disk[a].cert = NoFile THEN renewed ELSE renewed \cup {a}
                /\ proc' = [proc EXCEPT ![a].pc = "request", ![a].key = key]
        /\ UNCHANGED <<signed, spent, cut, trouble>>

\* ImportBCCSPKeyFromPEM: the keystore then keeps the key of the key file.
ImportKeyFile(a) == disk[a].keyfile # NoFile /\ disk' = WithKey(a, disk[a].keyfile)

\* BccspBackedSigner: the key of the keystore, or else the key file
BackedSigner(a) ==
    \/ HasSigner(a) /\ UNCHANGED disk
    \/ ~HasSigner(a) /\ ImportKeyFile(a)

InitEnrollmentSigner(a) ==
    /\ At(a, "signer") /\ Held(a)
    /\ BackedSigner(a)
    /\ proc' = IF proc[a].renew THEN Ends(a)
               ELSE [proc EXCEPT ![a].pc = "running", ![a].cert = disk[a].cert]
    /\ UNCHANGED <<signed, spent, cut, renewed, trouble>>

-----------------------------------------------------------------------------
(* Commands of a client *)

Begin(p, cmd, key, with) ==
    proc' = [proc EXCEPT ![p] = [Process("request") EXCEPT !.cmd = cmd, !.key = key, !.with = with]]

\* runEnroll up to the request
Enroll(p) ==
    /\ At(p, "idle") /\ Few(p)
    /\ disk' = WithKey(Home[p], NewKey(p))
    /\ Begin(p, "enroll", NewKey(p), NoFile)
    /\ UNCHANGED <<signed, spent, cut, renewed, trouble>>

\* CheckEnrollment: the command is refused without a certificate and its key.
Enrolled(h) == HasSigner(h)

\* LoadIdentity
MyIdentity(h) == disk[h].cert

\* runReenroll up to the request
Reenroll(p) ==
    /\ At(p, "idle") /\ Few(p)
    /\ Enrolled(Home[p])
    /\ disk' = WithKey(Home[p], NewKey(p))
    /\ Begin(p, "reenroll", NewKey(p), MyIdentity(Home[p]))
    /\ UNCHANGED <<signed, spent, cut, renewed, trouble>>

\* runGetCACert up to the request
GetCACert(p) ==
    /\ At(p, "idle")
    /\ Begin(p, "getcacert", NoFile, NoFile)
    /\ UNCHANGED <<disk, signed, spent, cut, renewed, trouble>>

-----------------------------------------------------------------------------
(* The authority that is asked *)

\* getCAChain: the chain file, or the certificate file of a root.
ChainOf(a) ==
    IF disk[a].chain # NoFile THEN disk[a].chain
    ELSE IF a = Root THEN (IF Held(a) THEN <<disk[a].cert>> ELSE <<>>)
    ELSE NoFile

Database(a) == {cert \in signed : cert.issuer = a /\ ~SelfSigned(cert)}

BasicAuthentication(x) == spent[HomeOf(x)] < Allowance[HomeOf(x)]

\* With the certificate held so far: this CA issued it and has it in its database.
TokenAuthentication(x, a) ==
    /\ ChainOf(a) # NoFile
    /\ Accepts(ChainOf(a), proc[x].with)
    /\ proc[x].with \in Database(a)

Authenticated(x, a) ==
    CASE proc[x].cmd = "enroll" -> BasicAuthentication(x)
      [] proc[x].cmd = "reenroll" -> TokenAuthentication(x, a)
      [] proc[x].cmd = "getcacert" -> TRUE

\* The request fails: nobody listens, or who does refuses.
Refuse(x) ==
    LET a == Parent[HomeOf(x)]
    IN  /\ At(x, "request")
        /\ ~Running(a) \/ ~Authenticated(x, a)
        /\ proc' = Ends(x)
        /\ UNCHANGED <<disk, signed, spent, cut, renewed, trouble>>

\* enrollHandler and reenrollHandler: the certificate is signed and in the
\* database when the chain is read; without a chain there is no answer.
HandleEnroll(x) ==
    LET h == HomeOf(x)
        a == Parent[h]
        cert == [subject |-> h, key |-> proc[x].key, issuer |-> a, signer |-> proc[a].cert.key]
    IN  /\ At(x, "request") /\ proc[x].cmd # "getcacert"
        /\ Running(a) /\ Authenticated(x, a)
        /\ signed' = signed \cup {cert}
        /\ IF ChainOf(a) = NoFile
           THEN proc' = Ends(x) /\ UNCHANGED spent
           ELSE /\ spent' = IF proc[x].cmd = "enroll" THEN [spent EXCEPT ![h] = @ + 1] ELSE spent
                /\ proc' = [proc EXCEPT ![x].pc = "answered", ![x].cert = cert, ![x].chain = ChainOf(a)]
        /\ UNCHANGED <<disk, cut, renewed, trouble>>

\* cainfoHandler
HandleCAInfo(x) ==
    LET a == Parent[HomeOf(x)]
    IN  /\ At(x, "request") /\ proc[x].cmd = "getcacert"
        /\ Running(a)
        /\ proc' = IF ChainOf(a) = NoFile THEN Ends(x)
                   ELSE [proc EXCEPT ![x].pc = "answered", ![x].chain = ChainOf(a)]
        /\ UNCHANGED <<disk, signed, spent, cut, renewed, trouble>>

-----------------------------------------------------------------------------
(* Files *)

Writes == {"cert", "chain", "ints"}

\* Variant: an authority writes its certificate before its chain.
AuthorityFilesCertFirst(a) == IF a = Root THEN <<"cert">> ELSE <<"cert", "chain">>

\* The order of files.  getCACert and initKeyMaterial: a chain unless it is the root
AuthorityFiles(a) == IF a = Root THEN <<"cert">> ELSE <<"chain", "cert">>

\* storeCAChain: cacerts, then intermediatecerts
ChainFiles == <<"chain", "ints">>

\* runEnroll and runReenroll: the certificate, then storeCAChain
EnrollFiles == <<"cert">> \o ChainFiles
ReenrollFiles == <<"cert">> \o ChainFiles

Order(x) ==
    CASE x \in Authorities -> AuthorityFiles(x)
      [] x \in Commands /\ proc[x].cmd = "enroll" -> EnrollFiles
      [] x \in Commands /\ proc[x].cmd = "reenroll" -> ReenrollFiles
      [] x \in Commands /\ proc[x].cmd = "getcacert" -> ChainFiles

\* The files still to be written, the one that is being written first
Remaining(x) ==
    LET now == CHOOSE i \in DOMAIN Order(x) : Order(x)[i] = proc[x].pc
    IN  IF proc[x].pc \in Writes THEN SubSeq(Order(x), now, Len(Order(x))) ELSE <<>>

\* The answer arrives; CSR.CN of an authority is now the name it enrolled as.
Receive(x) ==
    /\ At(x, "answered")
    /\ proc' = [proc EXCEPT ![x].pc = Head(Order(x)), ![x].cn = x \in Authorities]
    /\ UNCHANGED <<disk, signed, spent, cut, renewed, trouble>>

Content(x, file) ==
    CASE file = "cert" -> proc[x].cert
      [] file = "chain" /\ x \in Authorities -> Concat(proc[x].chain, proc[x].cert, x \in ParentFirst)
      [] file = "chain" /\ x \notin Authorities -> Roots(proc[x].chain)
      [] file = "ints" -> Intermediates(proc[x].chain)

\* The chain of an authority is in order, of the others it matters what they hold.
Emptied(x, file) ==
    IF file = "cert" THEN Torn ELSE IF x \in Authorities THEN <<>> ELSE {}

\* WriteFile of the next file
WriteFile(x) ==
    LET file == proc[x].pc
        rest == Tail(Remaining(x))
    IN  /\ file \in Writes
        /\ disk' = [disk EXCEPT ![HomeOf(x)][file] = Content(x, file)]
        /\ proc' = IF rest # <<>> THEN Goto(x, Head(rest))
                   ELSE IF x \in Authorities THEN Goto(x, "signer") ELSE Ends(x)
        /\ cut' = cut \ {<<HomeOf(x), file>>}
        /\ UNCHANGED <<signed, spent, renewed, trouble>>

\* The process dies, or what it does fails and a server lives on stopped.  The
\* file that was being written may be left empty.
Interrupt(x) ==
    LET file == proc[x].pc
        h == HomeOf(x)
    IN  /\ file \notin {"idle", "down", "stopped"}
        /\ Trouble
        /\ \E end \in {Died(x), Ended(x)} : proc' = [proc EXCEPT ![x] = end]
        /\ \/ UNCHANGED disk
           \/ /\ file \in Writes
              /\ disk' = [disk EXCEPT ![h][file] = Emptied(x, file)]
        /\ cut' = cut \cup {<<h, due>> : due \in ToSet(Remaining(x))}
        /\ UNCHANGED <<signed, spent, renewed>>

-----------------------------------------------------------------------------
FirstKey(a) == [of |-> a, n |-> 1]
GivenCert(a) ==
    LET by == IF a = Root THEN a ELSE Parent[a]
    IN  [subject |-> a, key |-> FirstKey(a), issuer |-> by, signer |-> FirstKey(by)]

\* The operator may have put certificates and keys there, but no chain; whose
\* parent has none cannot have one.
Init ==
    \E given \in SUBSET Authorities :
        /\ \A a \in given \ {Root} : Parent[a] \in given
        /\ disk = [n \in Nodes |-> IF n \in given THEN Files(FirstKey(n), GivenCert(n))
                                   ELSE Files(NoFile, NoFile)]
        /\ proc = [x \in Processes |-> Fresh(x)]
        /\ signed = {GivenCert(a) : a \in given}
        /\ spent = [n \in Nodes |-> 0]
        /\ cut = {} /\ renewed = {} /\ trouble = 0

StartStep(a) ==
    \/ Start(a, FALSE) \/ Exit(a)
    \/ LoadKeyMaterial(a) \/ GenerateRoot(a) \/ RequestCACert(a) \/ InitEnrollmentSigner(a)

Answer(x) == Refuse(x) \/ HandleEnroll(x) \/ HandleCAInfo(x)

Next ==
    \/ \E a \in Authorities : StartStep(a) \/ Start(a, TRUE)
    \/ \E p \in Commands : Enroll(p) \/ Reenroll(p) \/ GetCACert(p)
    \/ \E x \in Processes : Answer(x) \/ Receive(x) \/ WriteFile(x) \/ Interrupt(x)

Spec == Init /\ [][Next]_vars

\* A server that is down is started again, one whose start failed ends, and what
\* a start does goes on; no command has to.
FairSpec ==
    /\ Spec
    /\ \A a \in Authorities : WF_vars(StartStep(a) \/ Answer(a) \/ Receive(a) \/ WriteFile(a))

-----------------------------------------------------------------------------
(* Properties *)

\* The certificates in a chain file, cacerts or intermediatecerts
CertsIn(n, file) == IF n \in Authorities THEN ToSet(disk[n][file]) ELSE disk[n][file]

\* Homes and processes keep their shape, and nobody holds a certificate that was
\* not signed.
TypeOK ==
    /\ \A n \in Nodes :
          /\ DOMAIN disk[n] = {"keys", "keyfile", "cert", "chain", "ints"}
          /\ disk[n].cert \in signed \cup {NoFile, Torn}
          /\ \A file \in {"chain", "ints"} : disk[n][file] = NoFile \/ CertsIn(n, file) \subseteq signed
    /\ \A a \in Authorities :
          proc[a].pc \in {"down", "stopped", "init", "request", "answered", "chain", "cert", "signer", "running"}
    /\ \A p \in Commands : proc[p].pc \in {"idle", "request", "answered", "cert", "chain", "ints"}
    /\ spent \in [Nodes -> Nat]
    /\ cut \subseteq Nodes \X Writes /\ renewed \subseteq Authorities
    /\ trouble \in 0 .. MaxTrouble

\* A certificate in a file has its private key beside it, whenever the process
\* that wrote it or the one before it died (BCCSPKeyRequestGenerate, writeFile,
\* StoreMyIdentity).
KeyAtHand == \A n \in Nodes : Held(n) => disk[n].cert.key \in disk[n].keys \cup {disk[n].keyfile}

\* A renewal that was interrupted may leave the chain of another certificate.
HalfRenewed(a) == <<a, "cert">> \in cut /\ a \in renewed

\* The chain that a running authority hands out holds the certificate that it
\* signs with; a first start that was interrupted is made good by the next one,
\* only a renewal is not (getCACert, initKeyMaterial, getCAChain).
ServesItsChain ==
    \A a \in Authorities :
        Running(a) /\ ~HalfRenewed(a) /\ ChainOf(a) # NoFile => proc[a].cert \in ToSet(ChainOf(a))

\* An authority honours the certificates that it signed with its present key,
\* in either order of its chain, unless another was renewed: a parent that was
\* renewed by half gives its children a chain they do not belong to
\* (VerifyCertificate, concatChain).
HonoursItsOwn ==
    \A a \in Authorities :
        Running(a) /\ ~HalfRenewed(a) /\ renewed \subseteq {a} /\ ChainOf(a) # NoFile =>
            \A cert \in Database(a) : cert.signer = proc[a].cert.key => Accepts(ChainOf(a), cert)

\* What verifies was issued by this CA, as the comment of VerifyCertificate says,
\* or is the certificate of this CA itself, which its parent issued and which
\* the comment leaves out; where the chain begins with the parent's, what the
\* parent signed verifies too (ca.go:520, getVerifyOptions).
VerifiedIsOwn ==
    \A a \in Authorities \ ParentFirst :
        Running(a) /\ ChainOf(a) # NoFile =>
            \A cert \in signed : Accepts(ChainOf(a), cert) => cert.issuer = a \/ cert.subject = a

\* What a client keeps verifies its certificate from cacerts over
\* intermediatecerts, if no writing was interrupted and no authority renewed,
\* even if two commands wrote at the same time (storeCAChain).
HomeVerifies ==
    \A h \in Clients :
        LET d == disk[h]
            writing == \E p \in Commands : Home[p] = h /\ proc[p].pc \in Writes
        IN  renewed = {} /\ cut \cap ({h} \X Writes) = {} /\ ~writing /\ Held(h) =>
                Anchored(d.chain, d.ints, d.cert)

\* What a start cannot get over: an empty certificate, a certificate that does
\* not fit the key file, or no certificate when the parent gives no more or does
\* not answer.
Stuck(a) ==
    \/ disk[a].cert = Torn
    \/ Held(a) /\ disk[a].keyfile \notin {NoFile, disk[a].cert.key}
    \/ /\ disk[a].cert = NoFile /\ a # Root
       /\ spent[a] >= Allowance[a] \/ ~Running(Parent[a]) \/ ChainOf(Parent[a]) = NoFile

\* Started again and again, an authority runs, whatever interrupted it before,
\* unless it is stuck (initKeyMaterial).
EventuallyRuns == \A a \in Authorities : []<>(Running(a) \/ Stuck(a))
=============================================================================
