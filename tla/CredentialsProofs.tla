--------------------------- MODULE CredentialsProofs ---------------------------
(***************************************************************************)
(* What holds of keys, certificates and chains for any hierarchy of        *)
(* authorities, any number of clients and commands, and any number of      *)
(* interruptions.  The invariant says what the files of a home and what a  *)
(* process remembers have to do with each other at every step between two  *)
(* files, and which certificates of a chain lead to the one it belongs to. *)
(***************************************************************************)
EXTENDS Credentials, TLAPS

(***************************************************************************)
(* The inductive invariant                                                 *)
(***************************************************************************)

\* How far below the root a node is.
Depth == CHOOSE depth \in [Nodes -> 0 .. Cardinality(Nodes)] : Hierarchy(depth)

Above(m, n) == Depth[m] < Depth[n]

FileNames == {"keys", "keyfile", "cert", "chain", "ints"}
Fields == {"pc", "cn", "cmd", "renew", "key", "with", "cert", "chain"}

CertOK(c) ==
    /\ c.subject \in Nodes /\ c.issuer \in Authorities
    /\ IF c.subject = Root THEN c.issuer = Root /\ SelfSigned(c) ELSE c.issuer = Parent[c.subject]

\* A chain of certificates of those above n
ChainAbove(chain, n) == chain \in Seq(signed) /\ \A c \in ToSet(chain) : Above(c.subject, n)

\* The chain file of an authority: its own certificates and of those above it,
\* its own the first unless its parent's chain comes first.
ChainFileOK(a, chain) ==
    /\ chain \in Seq(signed)
    /\ \A c \in ToSet(chain) : c.subject = a \/ Above(c.subject, a)
    /\ a \notin ParentFirst /\ chain # <<>> =>
          /\ Head(chain).subject = a
          /\ \A c \in ToSet(Tail(chain)) : Above(c.subject, a)

AuthorityHomeOK(a) ==
    /\ disk[a].chain = NoFile \/ (a # Root /\ ChainFileOK(a, disk[a].chain))
    /\ disk[a].ints = NoFile

ClientHomeOK(h) == \A file \in {"chain", "ints"} : disk[h][file] = NoFile \/ disk[h][file] \subseteq signed

HomeOK(n) ==
    /\ DOMAIN disk[n] = FileNames
    /\ Held(n) => /\ disk[n].cert \in signed /\ disk[n].cert.subject = n
                  /\ disk[n].cert.key \in disk[n].keys \cup {disk[n].keyfile}
    /\ n \in Authorities => AuthorityHomeOK(n)
    /\ n \in Clients => ClientHomeOK(n)

AuthorityPcs == {"down", "stopped", "init", "request", "answered", "chain", "cert", "signer", "running"}
CommandPcs == {"idle", "request", "answered", "cert", "chain", "ints"}

\* The answer has come and is not all written.
Holding(x) == proc[x].pc \in {"answered"} \cup Writes

\* What an authority is doing in a start that gives it a certificate
Obtaining(a) == proc[a].pc \in {"request", "answered", "chain", "cert"}

Shape(x) ==
    /\ DOMAIN proc[x] = Fields
    /\ x \in Authorities => proc[x].pc \in AuthorityPcs /\ proc[x].cmd = "enroll"
    /\ x \in Commands => proc[x].pc \in CommandPcs /\ proc[x].cmd \in {"enroll", "reenroll", "getcacert"}
    /\ x = Root => proc[x].pc \notin {"request", "answered", "chain"}
    /\ proc[x].cmd = "getcacert" => proc[x].pc # "cert"

\* The key that a process asks a certificate for, and what it was answered
Remembers(x) ==
    /\ At(x, "request") /\ proc[x].cmd # "getcacert" => proc[x].key \in disk[HomeOf(x)].keys
    /\ Holding(x) /\ proc[x].cmd # "getcacert" =>
          /\ proc[x].cert \in signed /\ proc[x].cert.subject = HomeOf(x)
          /\ proc[x].cert.key \in disk[HomeOf(x)].keys
    /\ Holding(x) /\ x # Root => ChainAbove(proc[x].chain, HomeOf(x))

\* An authority signs with the certificate of its file, and only a renewal
\* replaces one.
Serving(a) ==
    /\ Running(a) => Held(a) /\ proc[a].cert = disk[a].cert
    /\ Obtaining(a) /\ a \notin renewed => disk[a].cert = NoFile

-----------------------------------------------------------------------------
\* Nobody above n was renewed.
Quiet(n) == \A b \in renewed : ~Above(b, n)

\* Who trusts the first of the chain, or the roots in it, comes to trust c.
LeadsFrom(roots, intermediates, c) ==
    \A trusted \in SUBSET (roots \cup intermediates) : Trusts(trusted, roots, intermediates) => c \in trusted
Leads(chain, c) ==
    /\ c \in ToSet(chain)
    /\ LeadsFrom({Head(chain)}, ToSet(Tail(chain)), c)
    /\ LeadsFrom(Roots(chain), Intermediates(chain), c)

\* The chain belongs to the certificate c of the authority a.
Belongs(chain, c, a) == c \in ToSet(chain) /\ (Quiet(a) => Leads(chain, c))

\* The chain is of one who issued the certificate.
Vouches(chain, cert) == \E c \in ToSet(chain) : IssuedBy(cert, c) /\ Leads(chain, c)

\* Between chain and certificate, the chain belongs to what comes next.
ChainOK(a) ==
    /\ Holding(a) /\ Quiet(a) => Vouches(proc[a].chain, proc[a].cert)
    /\ At(a, "cert") => Belongs(disk[a].chain, proc[a].cert, a)
    /\ Held(a) /\ ~HalfRenewed(a) /\ disk[a].chain # NoFile /\ ~At(a, "cert") =>
          Belongs(disk[a].chain, disk[a].cert, a)

-----------------------------------------------------------------------------
\* What a client should keep of its authority's chain
Kept(h, file) == IF file = "chain" THEN Roots(ChainOf(Parent[h])) ELSE Intermediates(ChainOf(Parent[h]))

Due(h, file) == <<h, file>> \in cut \/ \E p \in Commands : Home[p] = h /\ file \in ToSet(Remaining(p))

FromParent(h, cert) ==
    /\ Held(Parent[h]) /\ ChainOf(Parent[h]) # NoFile
    /\ IssuedBy(cert, disk[Parent[h]].cert)

CommandOK(p) ==
    Holding(p) =>
        /\ Held(Parent[Home[p]]) /\ ChainOf(Parent[Home[p]]) # NoFile
        /\ proc[p].chain = ChainOf(Parent[Home[p]])
        /\ proc[p].cmd # "getcacert" => FromParent(Home[p], proc[p].cert)

ClientOK(h) ==
    Held(h) => /\ FromParent(h, disk[h].cert)
               /\ \A file \in {"chain", "ints"} : disk[h][file] = Kept(h, file) \/ Due(h, file)

-----------------------------------------------------------------------------
Counts ==
    /\ spent \in [Nodes -> Nat] /\ trouble \in 0 .. MaxTrouble
    /\ cut \subseteq Nodes \X Writes /\ renewed \subseteq Authorities

Inv ==
    /\ DOMAIN disk = Nodes /\ DOMAIN proc = Processes
    /\ Counts
    /\ \A c \in signed : CertOK(c)
    /\ \A n \in Nodes : HomeOK(n)
    /\ \A x \in Processes : Shape(x) /\ Remembers(x)
    /\ \A a \in Authorities : Serving(a)
    /\ \A a \in Authorities \ {Root} : ChainOK(a)
    /\ renewed = {} => /\ \A p \in Commands : CommandOK(p)
                       /\ \A h \in Clients : ClientOK(h)

-----------------------------------------------------------------------------
(***************************************************************************)
(* The hierarchy                                                           *)
(***************************************************************************)

\* There is such a depth, by the assumption.
LEMMA DepthWorks == Depth \in [Nodes -> Nat] /\ Hierarchy(Depth)
<1>1. \E depth \in [Nodes -> 0 .. Cardinality(Nodes)] : Hierarchy(depth)
    BY CredentialsAssumption
<1>2. Depth \in [Nodes -> 0 .. Cardinality(Nodes)] /\ Hierarchy(Depth)
    BY <1>1 DEF Depth
<1> QED
    BY <1>2

LEMMA ParentAbove ==
    ASSUME NEW n \in Nodes, n # Root
    PROVE  Parent[n] \in Authorities /\ Parent[n] \in Nodes /\ Above(Parent[n], n)
<1>1. Parent[n] \in Authorities /\ Parent[n] \in Nodes
    BY CredentialsAssumption DEF Nodes
<1>2. Above(Parent[n], n)
    BY DepthWorks, <1>1 DEF Hierarchy, Above
<1> QED
    BY <1>1, <1>2

LEMMA AboveTransitive ==
    ASSUME NEW l \in Nodes, NEW m \in Nodes, NEW n \in Nodes, Above(l, m), Above(m, n)
    PROVE  Above(l, n)
BY DepthWorks DEF Above

LEMMA AboveOther ==
    ASSUME NEW n \in Nodes
    PROVE  ~Above(n, n)
BY DepthWorks DEF Above

\* Who issued the certificate of someone above n is above n.
LEMMA IssuerAbove ==
    ASSUME NEW c, CertOK(c), NEW n \in Nodes, Above(c.subject, n)
    PROVE  c.issuer # n
<1>1. c.subject \in Nodes /\ Root \in Nodes
    BY CredentialsAssumption DEF CertOK, Nodes
<1>2. CASE c.subject = Root
    BY <1>2, <1>1, AboveOther DEF CertOK
<1>3. CASE c.subject # Root
    <2>1. c.issuer = Parent[c.subject] /\ Parent[c.subject] \in Nodes /\ Above(Parent[c.subject], c.subject)
        BY <1>1, <1>3, ParentAbove DEF CertOK
    <2>2. Above(c.issuer, n)
        BY <1>1, <2>1, AboveTransitive
    <2> QED
        BY <2>2, AboveOther
<1> QED
    BY <1>2, <1>3

-----------------------------------------------------------------------------
(***************************************************************************)
(* Chains                                                                  *)
(***************************************************************************)

LEMMA NotEmpty ==
    ASSUME NEW S, NEW s \in Seq(S)
    PROVE  (s # <<>>) <=> (Len(s) > 0)
OBVIOUS

\* A certificate before a chain
LEMMA Before ==
    ASSUME NEW S, NEW s \in Seq(S), NEW c \in S
    PROVE  /\ <<c>> \o s \in Seq(S) /\ <<c>> \o s # <<>>
           /\ ToSet(<<c>> \o s) = {c} \cup ToSet(s)
           /\ Head(<<c>> \o s) = c /\ Tail(<<c>> \o s) = s
<1> DEFINE r == <<c>> \o s
<1>1. r \in Seq(S) /\ Len(r) = 1 + Len(s) /\ r[1] = c /\ \A i \in 1 .. Len(s) : r[i + 1] = s[i]
    OBVIOUS
<1>2. ToSet(r) = {c} \cup ToSet(s)
    <2>1. ASSUME NEW i \in 1 .. Len(r)
          PROVE  r[i] \in {c} \cup ToSet(s)
        <3>1. CASE i = 1
            BY <1>1, <3>1
        <3>2. CASE i # 1
            <4>1. i - 1 \in 1 .. Len(s) /\ r[(i - 1) + 1] = s[i - 1] /\ (i - 1) + 1 = i
                BY <1>1, <3>2
            <4> QED
                BY <4>1 DEF ToSet
        <3> QED
            BY <3>1, <3>2
    <2>2. ASSUME NEW i \in 1 .. Len(s)
          PROVE  s[i] \in ToSet(r)
        <3>1. i + 1 \in DOMAIN r /\ r[i + 1] = s[i]
            BY <1>1
        <3> QED
            BY <3>1 DEF ToSet
    <2>3. c \in ToSet(r)
        BY <1>1 DEF ToSet
    <2>4. DOMAIN r = 1 .. Len(r) /\ DOMAIN s = 1 .. Len(s)
        BY <1>1
    <2> QED
        BY <2>1, <2>2, <2>3, <2>4 DEF ToSet
<1>3. Head(r) = c /\ r # <<>>
    BY <1>1
<1>4. Tail(r) = s
    <2>1. Tail(r) \in Seq(S) /\ Len(Tail(r)) = Len(s) /\ \A i \in 1 .. Len(s) : Tail(r)[i] = r[i + 1]
        BY <1>1, <1>3
    <2>2. \A i \in 1 .. Len(s) : Tail(r)[i] = s[i]
        BY <2>1, <1>1
    <2> QED
        BY <2>1, <2>2
<1> QED
    BY <1>1, <1>2, <1>3, <1>4

\* A certificate after a chain
LEMMA After ==
    ASSUME NEW S, NEW s \in Seq(S), NEW c \in S
    PROVE  /\ s \o <<c>> \in Seq(S) /\ s \o <<c>> # <<>>
           /\ ToSet(s \o <<c>>) = {c} \cup ToSet(s)
           /\ s # <<>> => /\ Head(s \o <<c>>) = Head(s)
                          /\ ToSet(Tail(s \o <<c>>)) = {c} \cup ToSet(Tail(s))
<1> DEFINE r == s \o <<c>>
<1>1. r \in Seq(S) /\ Len(r) = Len(s) + 1 /\ r[Len(s) + 1] = c /\ \A i \in 1 .. Len(s) : r[i] = s[i]
    OBVIOUS
<1>2. DOMAIN r = 1 .. Len(r) /\ DOMAIN s = 1 .. Len(s) /\ Len(s) \in Nat
    BY <1>1
<1>3. ToSet(r) = {c} \cup ToSet(s)
    BY <1>1, <1>2 DEF ToSet
<1>4. ASSUME s # <<>>
      PROVE  Head(r) = Head(s) /\ ToSet(Tail(r)) = {c} \cup ToSet(Tail(s))
    <2>0. Len(s) \in Nat
        OBVIOUS
    <2>1. Len(s) >= 1 /\ Head(r) = r[1] /\ Head(s) = s[1]
        BY <1>1, <1>4
    <2>2. /\ DOMAIN Tail(r) = 1 .. Len(s) /\ \A i \in 1 .. Len(s) : Tail(r)[i] = r[i + 1]
          /\ DOMAIN Tail(s) = 1 .. Len(s) - 1 /\ \A i \in 1 .. Len(s) - 1 : Tail(s)[i] = s[i + 1]
        BY <1>1, <1>2, <2>1
    <2>3. ASSUME NEW i \in 1 .. Len(s)
          PROVE  Tail(r)[i] \in {c} \cup ToSet(Tail(s))
        <3>1. CASE i = Len(s)
            BY <3>1, <2>2, <1>1
        <3>2. CASE i # Len(s)
            <4>1. i \in 1 .. Len(s) - 1 /\ i + 1 \in 1 .. Len(s)
                BY <3>2, <2>0
            <4>2. Tail(r)[i] = Tail(s)[i]
                BY <4>1, <2>2, <1>1
            <4> QED
                BY <4>1, <4>2, <2>2 DEF ToSet
        <3> QED
            BY <3>1, <3>2
    <2>4. ASSUME NEW i \in 1 .. Len(s) - 1
          PROVE  Tail(s)[i] \in ToSet(Tail(r))
        <3>1. i \in 1 .. Len(s) /\ i + 1 \in 1 .. Len(s)
            BY <1>2
        <3>2. Tail(s)[i] = Tail(r)[i]
            BY <3>1, <2>2, <1>1
        <3> QED
            BY <3>1, <3>2, <2>2 DEF ToSet
    <2>5. c \in ToSet(Tail(r))
        <3>1. Len(s) \in 1 .. Len(s) /\ Tail(r)[Len(s)] = c
            BY <2>1, <2>2, <1>1, <1>2
        <3> QED
            BY <3>1, <2>2 DEF ToSet
    <2>6. /\ ToSet(Tail(r)) = {Tail(r)[i] : i \in 1 .. Len(s)}
          /\ ToSet(Tail(s)) = {Tail(s)[i] : i \in 1 .. Len(s) - 1}
        BY <2>2 DEF ToSet
    <2>7. ToSet(Tail(r)) \subseteq {c} \cup ToSet(Tail(s))
        BY ONLY <2>3, <2>6, Zenon
    <2>8. ToSet(Tail(s)) \subseteq ToSet(Tail(r))
        BY ONLY <2>4, <2>6, Zenon
    <2> QED
        BY <2>1, <2>5, <2>7, <2>8
<1> QED
    BY <1>1, <1>2, <1>3, <1>4

-----------------------------------------------------------------------------
(***************************************************************************)
(* The order of files                                                      *)
(***************************************************************************)

Distinct(s) == \A i, j \in DOMAIN s : s[i] = s[j] => i = j

\* What is left of an order from one of its files on
From(s, file) == LET now == CHOOSE i \in DOMAIN s : s[i] = file IN SubSeq(s, now, Len(s))

LEMMA FromIs ==
    ASSUME NEW S, NEW s \in Seq(S), Distinct(s), NEW i \in DOMAIN s
    PROVE  /\ ToSet(From(s, s[i])) = {s[j] : j \in i .. Len(s)}
           /\ Tail(From(s, s[i])) # <<>> <=> i < Len(s)
           /\ i < Len(s) => Head(Tail(From(s, s[i]))) = s[i + 1]
<1> DEFINE now == CHOOSE j \in DOMAIN s : s[j] = s[i]
           r == SubSeq(s, i, Len(s))
<1>1. now = i
    BY DEF Distinct
<1>2. From(s, s[i]) = r
    BY <1>1 DEF From
<1>3. i \in 1 .. Len(s) /\ Len(s) \in Nat
    OBVIOUS
<1>4. r \in Seq(S) /\ Len(r) = Len(s) - i + 1 /\ \A k \in 1 .. Len(s) - i + 1 : r[k] = s[i + k - 1]
    BY <1>3
<1>5. ToSet(r) = {s[j] : j \in i .. Len(s)}
    <2>1. DOMAIN r = 1 .. Len(s) - i + 1
        BY <1>4
    <2>2. ASSUME NEW k \in 1 .. Len(s) - i + 1
          PROVE  i + k - 1 \in i .. Len(s) /\ r[k] = s[i + k - 1]
        BY <1>3, <1>4
    <2>3. ASSUME NEW j \in i .. Len(s)
          PROVE  j - i + 1 \in 1 .. Len(s) - i + 1 /\ r[j - i + 1] = s[j]
        BY <1>3, <1>4
    <2> HIDE DEF r
    <2> QED
        BY <2>1, <2>2, <2>3 DEF ToSet
<1>6. /\ Tail(r) # <<>> <=> i < Len(s)
      /\ i < Len(s) => Head(Tail(r)) = s[i + 1]
    <2> HIDE DEF r
    <2>1. r # <<>> /\ Len(r) >= 1
        BY <1>3, <1>4
    <2>2. Tail(r) \in Seq(S) /\ Len(Tail(r)) = Len(r) - 1
        BY <1>4, <2>1
    <2>3. Tail(r) # <<>> <=> i < Len(s)
        <3>1. (Tail(r) # <<>>) <=> (Len(Tail(r)) > 0)
            BY <2>2, NotEmpty
        <3> QED
            BY <1>3, <1>4, <2>2, <3>1
    <2>4. ASSUME i < Len(s)
          PROVE  Head(Tail(r)) = s[i + 1]
        <3>1. Tail(r)[1] = r[2] /\ Head(Tail(r)) = Tail(r)[1]
            BY <1>3, <1>4, <2>1, <2>2, <2>4
        <3>2. 2 \in 1 .. Len(s) - i + 1 /\ i + 2 - 1 = i + 1
            BY <1>3, <2>4
        <3> QED
            BY <1>4, <3>1, <3>2
    <2> QED
        BY <2>3, <2>4
<1> QED
    BY <1>2, <1>5, <1>6

LEMMA RemainingFrom ==
    ASSUME NEW x, proc[x].pc \in Writes
    PROVE  Remaining(x) = From(Order(x), proc[x].pc)
BY DEF Remaining, From

LEMMA RemainingNone ==
    ASSUME NEW x, proc[x].pc \notin Writes
    PROVE  ToSet(Remaining(x)) = {}
BY DEF Remaining, ToSet

\* The files that are due from the one that a process writes on, and the next
DueFiles(x) ==
    IF x \in Authorities
    THEN IF proc[x].pc = "chain" THEN {"chain", "cert"} ELSE {"cert"}
    ELSE IF proc[x].pc = "cert" THEN Writes
    ELSE IF proc[x].pc = "chain" THEN {"chain", "ints"} ELSE {"ints"}
Final(x) == IF x \in Authorities THEN "cert" ELSE "ints"
Following(x) == IF x \in Authorities THEN "cert" ELSE IF proc[x].pc = "cert" THEN "chain" ELSE "ints"

\* The order as a function of the position
LEMMA OrderIs ==
    ASSUME NEW x \in Processes, Shape(x)
    PROVE  /\ Order(x) \in Seq(Writes) /\ Distinct(Order(x))
           /\ x = Root => Len(Order(x)) = 1 /\ Order(x)[1] = "cert"
           /\ x \in Authorities \ {Root} =>
                 Len(Order(x)) = 2 /\ Order(x)[1] = "chain" /\ Order(x)[2] = "cert"
           /\ x \in Commands /\ proc[x].cmd # "getcacert" =>
                 Len(Order(x)) = 3 /\ Order(x)[1] = "cert" /\ Order(x)[2] = "chain" /\ Order(x)[3] = "ints"
           /\ x \in Commands /\ proc[x].cmd = "getcacert" =>
                 Len(Order(x)) = 2 /\ Order(x)[1] = "chain" /\ Order(x)[2] = "ints"
<1>1. x \in Authorities \/ x \in Commands
    BY DEF Processes
<1>2. Root \in Authorities /\ Authorities \cap Commands = {}
    BY CredentialsAssumption
<1>3. CASE x = Root
    <2>1. Order(x) = AuthorityFiles(x) /\ x \notin Commands
        BY <1>2, <1>3 DEF Order
    <2>2. AuthorityFiles(x) \in Seq(Writes) /\ Len(AuthorityFiles(x)) = 1 /\ AuthorityFiles(x)[1] = "cert"
        BY <1>3 DEF AuthorityFiles, Writes
    <2>3. Distinct(AuthorityFiles(x))
        BY <2>2 DEF Distinct
    <2> QED
        BY <1>3, <2>1, <2>2, <2>3
<1>4. CASE x \in Authorities \ {Root}
    <2>1. Order(x) = AuthorityFiles(x) /\ x \notin Commands
        BY <1>2, <1>4 DEF Order
    <2>2. /\ AuthorityFiles(x) \in Seq(Writes) /\ Len(AuthorityFiles(x)) = 2
          /\ AuthorityFiles(x)[1] = "chain" /\ AuthorityFiles(x)[2] = "cert"
        BY <1>4 DEF AuthorityFiles, Writes
    <2>3. Distinct(AuthorityFiles(x))
        BY <2>2 DEF Distinct
    <2> QED
        BY <1>4, <2>1, <2>2, <2>3
<1>5. CASE x \in Commands /\ proc[x].cmd # "getcacert"
    <2>1. Order(x) = EnrollFiles
        BY <1>2, <1>5 DEF Order, Shape, EnrollFiles, ReenrollFiles
    <2>2. /\ EnrollFiles \in Seq(Writes) /\ Len(EnrollFiles) = 3
          /\ EnrollFiles[1] = "cert" /\ EnrollFiles[2] = "chain" /\ EnrollFiles[3] = "ints"
        BY DEF EnrollFiles, ChainFiles, Writes
    <2>3. Distinct(EnrollFiles)
        BY <2>2 DEF Distinct
    <2> QED
        BY <1>2, <1>5, <2>1, <2>2, <2>3
<1>6. CASE x \in Commands /\ proc[x].cmd = "getcacert"
    <2>1. Order(x) = ChainFiles /\ x \notin Authorities
        BY <1>2, <1>6 DEF Order
    <2>2. ChainFiles \in Seq(Writes) /\ Len(ChainFiles) = 2 /\ ChainFiles[1] = "chain" /\ ChainFiles[2] = "ints"
        BY DEF ChainFiles, Writes
    <2>3. Distinct(ChainFiles)
        BY <2>2 DEF Distinct
    <2> QED
        BY <1>2, <1>6, <2>1, <2>2, <2>3
<1> QED
    BY <1>1, <1>3, <1>4, <1>5, <1>6

\* What is left to write, by what is being written
LEMMA RemainingIs ==
    ASSUME NEW x \in Processes, Shape(x), proc[x].pc \in Writes
    PROVE  /\ ToSet(Remaining(x)) = DueFiles(x)
           /\ Tail(Remaining(x)) # <<>> <=> proc[x].pc # Final(x)
           /\ proc[x].pc # Final(x) => Head(Tail(Remaining(x))) = Following(x)
<1> DEFINE s == Order(x)
           pc == proc[x].pc
<1>1. x \in Authorities \/ x \in Commands
    BY DEF Processes
<1>2. Root \in Authorities /\ Authorities \cap Commands = {}
    BY CredentialsAssumption
<1>3. s \in Seq(Writes) /\ Distinct(s)
    BY OrderIs
<1>4. ASSUME NEW i \in 1 .. Len(s), s[i] = pc
      PROVE  /\ ToSet(Remaining(x)) = {s[j] : j \in i .. Len(s)}
             /\ Tail(Remaining(x)) # <<>> <=> i < Len(s)
             /\ i < Len(s) => Head(Tail(Remaining(x))) = s[i + 1]
    <2>1. i \in DOMAIN s
        BY <1>3
    <2> HIDE DEF s
    <2>2. /\ ToSet(From(s, s[i])) = {s[j] : j \in i .. Len(s)}
          /\ Tail(From(s, s[i])) # <<>> <=> i < Len(s)
          /\ i < Len(s) => Head(Tail(From(s, s[i]))) = s[i + 1]
        BY <1>3, <2>1, FromIs
    <2>3. Remaining(x) = From(s, s[i])
        BY <1>4, RemainingFrom DEF s
    <2> QED
        BY <2>2, <2>3
<1>5. CASE x = Root
    <2>1. Len(s) = 1 /\ s[1] = "cert" /\ pc = "cert"
        BY <1>5, <1>2, OrderIs DEF Shape, AuthorityPcs, Writes
    <2>2. {s[j] : j \in 1 .. 1} = {"cert"}
        BY <2>1
    <2> HIDE DEF s, pc
    <2> QED
        BY <1>2, <1>5, <2>1, <2>2, <1>4 DEF DueFiles, Final, pc
<1>6. CASE x \in Authorities \ {Root}
    <2>1. Len(s) = 2 /\ s[1] = "chain" /\ s[2] = "cert" /\ pc \in {"chain", "cert"}
        BY <1>6, <1>2, OrderIs DEF Shape, AuthorityPcs, Writes
    <2>2. {s[j] : j \in 1 .. 2} = {"chain", "cert"} /\ {s[j] : j \in 2 .. 2} = {"cert"}
        BY <2>1
    <2> HIDE DEF s, pc
    <2>3. CASE pc = "chain"
        BY <1>6, <2>1, <2>2, <2>3, <1>4 DEF DueFiles, Final, Following, pc
    <2>4. CASE pc = "cert"
        BY <1>6, <2>1, <2>2, <2>4, <1>4 DEF DueFiles, Final, Following, pc
    <2> QED
        BY <2>1, <2>3, <2>4
<1>7. CASE x \in Commands /\ proc[x].cmd # "getcacert"
    <2>1. Len(s) = 3 /\ s[1] = "cert" /\ s[2] = "chain" /\ s[3] = "ints" /\ pc \in {"cert", "chain", "ints"}
        BY <1>7, <1>2, OrderIs DEF Writes
    <2>2. /\ {s[j] : j \in 1 .. 3} = {"cert", "chain", "ints"}
          /\ {s[j] : j \in 2 .. 3} = {"chain", "ints"} /\ {s[j] : j \in 3 .. 3} = {"ints"}
        BY <2>1
    <2>3. x \notin Authorities
        BY <1>2, <1>7
    <2> HIDE DEF s, pc
    <2>4. CASE pc = "cert"
        BY <2>1, <2>2, <2>3, <2>4, <1>4 DEF DueFiles, Final, Following, pc, Writes
    <2>5. CASE pc = "chain"
        BY <2>1, <2>2, <2>3, <2>5, <1>4 DEF DueFiles, Final, Following, pc
    <2>6. CASE pc = "ints"
        BY <2>1, <2>2, <2>3, <2>6, <1>4 DEF DueFiles, Final, Following, pc
    <2> QED
        BY <2>1, <2>4, <2>5, <2>6
<1>8. CASE x \in Commands /\ proc[x].cmd = "getcacert"
    <2>1. Len(s) = 2 /\ s[1] = "chain" /\ s[2] = "ints" /\ pc \in {"chain", "ints"}
        BY <1>8, <1>2, OrderIs DEF Shape, Writes
    <2>2. {s[j] : j \in 1 .. 2} = {"chain", "ints"} /\ {s[j] : j \in 2 .. 2} = {"ints"}
        BY <2>1
    <2>3. x \notin Authorities
        BY <1>2, <1>8
    <2> HIDE DEF s, pc
    <2>4. CASE pc = "chain"
        BY <2>1, <2>2, <2>3, <2>4, <1>4 DEF DueFiles, Final, Following, pc
    <2>5. CASE pc = "ints"
        BY <2>1, <2>2, <2>3, <2>5, <1>4 DEF DueFiles, Final, Following, pc
    <2> QED
        BY <2>1, <2>4, <2>5
<1> QED
    BY <1>1, <1>5, <1>6, <1>7, <1>8

-----------------------------------------------------------------------------
(***************************************************************************)
(* What a step leaves alone                                                *)
(***************************************************************************)

\* Only x moves.
Others(x) == DOMAIN proc' = Processes /\ \A y \in Processes \ {x} : proc'[y] = proc[y]

KeysGrow(n) == disk[n].keys \subseteq disk'[n].keys
SameCert(n) == disk'[n].cert = disk[n].cert
SameChain(n) == disk'[n].chain = disk[n].chain
SameFiles(n) ==
    /\ KeysGrow(n) /\ SameCert(n) /\ SameChain(n) /\ DOMAIN disk'[n] = FileNames
    /\ disk'[n].keyfile = disk[n].keyfile /\ disk'[n].ints = disk[n].ints

MoreSigned == signed \subseteq signed' /\ \A c \in signed' : CertOK(c)
MoreRenewed == renewed \subseteq renewed' /\ renewed' \subseteq Authorities

LEMMA NodesAndProcesses ==
    /\ Root \in Authorities /\ Root \in Nodes /\ Root \in Processes
    /\ \A x \in Processes : HomeOf(x) \in Nodes /\ (x \in Authorities \/ x \in Commands)
    /\ \A a \in Authorities : a \in Processes /\ a \in Nodes /\ HomeOf(a) = a /\ a \notin Commands /\ a \notin Clients
    /\ \A p \in Commands : /\ p \in Processes /\ HomeOf(p) = Home[p] /\ Home[p] \in Clients /\ p \notin Authorities
                           /\ Home[p] \in Nodes /\ p # Root /\ Home[p] # Root
    /\ \A h \in Clients : h \in Nodes /\ h # Root /\ h \notin Authorities
BY CredentialsAssumption DEF Nodes, Processes, HomeOf

LEMMA HeldKept ==
    ASSUME NEW n, SameCert(n)
    PROVE  Held(n)' <=> Held(n)
BY DEF SameCert, Held

LEMMA ChainOfKept ==
    ASSUME NEW a, SameCert(a), SameChain(a)
    PROVE  ChainOf(a)' = ChainOf(a)
BY DEF SameCert, SameChain, Held, ChainOf

LEMMA ChainFileKept ==
    ASSUME NEW chain, NEW a, ChainFileOK(a, chain), signed \subseteq signed'
    PROVE  ChainFileOK(a, chain)'
<1>1. chain \in Seq(signed)
    BY DEF ChainFileOK
<1>2. chain \in Seq(signed')
    BY <1>1
<1> QED
    BY <1>2 DEF ChainFileOK, Above, Depth, Hierarchy

LEMMA RemembersKept ==
    ASSUME NEW y \in Processes, Remembers(y), proc'[y] = proc[y], KeysGrow(HomeOf(y)), signed \subseteq signed'
    PROVE  Remembers(y)'
<1> USE DEF At, Holding, HomeOf, Remembers, KeysGrow
<1>1. At(y, "request")' /\ proc'[y].cmd # "getcacert" => proc'[y].key \in disk'[HomeOf(y)].keys
    OBVIOUS
<1>2. Holding(y)' /\ proc'[y].cmd # "getcacert" =>
          /\ proc'[y].cert \in signed' /\ proc'[y].cert.subject = HomeOf(y)
          /\ proc'[y].cert.key \in disk'[HomeOf(y)].keys
    OBVIOUS
<1>3. Holding(y)' /\ y # Root => ChainAbove(proc[y].chain, HomeOf(y))'
    <2>1. Holding(y)' /\ y # Root => proc[y].chain \in Seq(signed')
        BY DEF ChainAbove
    <2> QED
        BY <2>1 DEF ChainAbove
<1> QED
    BY <1>1, <1>2, <1>3

LEMMA ShapeKept ==
    ASSUME NEW y, Shape(y), proc'[y] = proc[y]
    PROVE  Shape(y)'
BY DEF Shape

LEMMA ServingKept ==
    ASSUME NEW a, Serving(a), proc'[a] = proc[a], SameCert(a), renewed \subseteq renewed'
    PROVE  Serving(a)'
BY DEF Serving, Running, At, Obtaining, Held, SameCert

LEMMA HomeKept ==
    ASSUME NEW n \in Nodes, HomeOK(n), SameFiles(n), signed \subseteq signed'
    PROVE  HomeOK(n)'
<1>1. Held(n)' => /\ disk'[n].cert \in signed' /\ disk'[n].cert.subject = n
                  /\ disk'[n].cert.key \in disk'[n].keys \cup {disk'[n].keyfile}
    BY DEF HomeOK, SameFiles, SameCert, KeysGrow, Held
<1>2. AuthorityHomeOK(n) => AuthorityHomeOK(n)'
    BY ChainFileKept DEF AuthorityHomeOK, SameFiles, SameChain
<1>3. ClientHomeOK(n) => ClientHomeOK(n)'
    BY DEF ClientHomeOK, SameFiles, SameChain
<1> QED
    BY <1>1, <1>2, <1>3 DEF HomeOK, SameFiles

-----------------------------------------------------------------------------
(* Chains that lead to certificates do not change. *)

LEMMA QuietKept ==
    ASSUME NEW n, renewed \subseteq renewed', Quiet(n)'
    PROVE  Quiet(n)
BY DEF Quiet, Above, Depth, Hierarchy

LEMMA ChainKept ==
    ASSUME NEW a \in Authorities, ChainOK(a), proc'[a] = proc[a], SameCert(a), SameChain(a),
           renewed \subseteq renewed', <<a, "cert">> \in cut => <<a, "cert">> \in cut'
    PROVE  ChainOK(a)'
<1>1. Holding(a)' /\ Quiet(a)' => Vouches(proc[a].chain, proc[a].cert)'
    BY QuietKept DEF ChainOK, Holding
<1>2. At(a, "cert")' => Belongs(disk[a].chain, proc[a].cert, a)'
    BY QuietKept DEF ChainOK, At, SameChain, Belongs
<1>3. HalfRenewed(a) => HalfRenewed(a)'
    BY DEF HalfRenewed
<1>4. (Held(a) /\ ~HalfRenewed(a) /\ disk[a].chain # NoFile /\ ~At(a, "cert"))' =>
          Belongs(disk[a].chain, disk[a].cert, a)'
    BY <1>3, HeldKept, QuietKept DEF ChainOK, At, SameChain, SameCert, Belongs
<1> QED
    BY <1>1, <1>2, <1>4 DEF ChainOK

LEMMA FromParentKept ==
    ASSUME NEW h, NEW cert, FromParent(h, cert), SameCert(Parent[h]), SameChain(Parent[h])
    PROVE  FromParent(h, cert)'
BY HeldKept, ChainOfKept DEF FromParent, SameCert, IssuedBy

LEMMA CommandKept ==
    ASSUME NEW p \in Commands, CommandOK(p), proc'[p] = proc[p],
           SameCert(Parent[Home[p]]), SameChain(Parent[Home[p]])
    PROVE  CommandOK(p)'
BY HeldKept, ChainOfKept, FromParentKept DEF CommandOK, Holding

LEMMA KeptKept ==
    ASSUME NEW h, NEW file, SameCert(Parent[h]), SameChain(Parent[h])
    PROVE  Kept(h, file)' = Kept(h, file)
BY ChainOfKept DEF Kept, Roots, Intermediates, SelfSigned

-----------------------------------------------------------------------------
(***************************************************************************)
(* Steps that write no certificate and no chain                            *)
(***************************************************************************)

FilesKept == DOMAIN disk' = Nodes /\ \A n \in Nodes : SameFiles(n)

\* What x has to show when it moves and writes no file
LocalOK(x) ==
    /\ Shape(x) /\ Remembers(x)
    /\ x \in Authorities => Serving(x)
    /\ x \in Authorities \ {Root} =>
          /\ ~At(x, "cert")
          /\ Holding(x) /\ Quiet(x) => Vouches(proc[x].chain, proc[x].cert)
    /\ x \in Commands /\ renewed = {} => CommandOK(x)

\* A process that does not write has nothing due.
LEMMA DueKept ==
    ASSUME NEW x \in Processes, proc[x].pc \notin Writes, Others(x), cut' = cut,
           NEW h, NEW file, Due(h, file)
    PROVE  Due(h, file)'
<1>1. CASE <<h, file>> \in cut
    BY <1>1 DEF Due
<1>2. CASE \E p \in Commands : Home[p] = h /\ file \in ToSet(Remaining(p))
    <2>1. PICK p \in Commands : Home[p] = h /\ file \in ToSet(Remaining(p))
        BY <1>2
    <2>2. p # x
        BY <2>1, RemainingNone
    <2>3. proc'[p] = proc[p]
        BY <2>2, NodesAndProcesses DEF Others
    <2>4. Remaining(p)' = Remaining(p)
        BY <2>3 DEF Remaining, Order
    <2> QED
        BY <2>1, <2>4 DEF Due
<1> QED
    BY <1>1, <1>2 DEF Due

LEMMA WritesNothing ==
    ASSUME Inv, NEW x \in Processes, proc[x].pc \notin Writes, Others(x), FilesKept,
           MoreSigned, MoreRenewed, cut' = cut, Counts', LocalOK(x)'
    PROVE  Inv'
<1> USE NodesAndProcesses
<1>1. /\ \A n \in Nodes : HomeOK(n) /\ SameFiles(n)
      /\ signed \subseteq signed' /\ renewed \subseteq renewed'
    BY DEF Inv, FilesKept, MoreSigned, MoreRenewed
<1>2. \A n \in Nodes : SameCert(n) /\ SameChain(n) /\ KeysGrow(n)
    BY <1>1 DEF SameFiles
<1>3. ASSUME NEW n \in Nodes
      PROVE  HomeOK(n)'
    BY <1>1, HomeKept
<1>4. ASSUME NEW y \in Processes
      PROVE  Shape(y)' /\ Remembers(y)'
    <2>1. CASE y = x
        BY <2>1 DEF LocalOK
    <2>2. CASE y # x
        <3>1. proc'[y] = proc[y] /\ Shape(y) /\ Remembers(y)
            BY <2>2 DEF Others, Inv
        <3> QED
            BY <3>1, <1>1, <1>2, ShapeKept, RemembersKept
    <2> QED
        BY <2>1, <2>2
<1>5. ASSUME NEW a \in Authorities
      PROVE  Serving(a)'
    <2>1. CASE a = x
        BY <2>1 DEF LocalOK
    <2>2. CASE a # x
        <3>1. proc'[a] = proc[a] /\ Serving(a)
            BY <2>2 DEF Others, Inv
        <3> QED
            BY <3>1, <1>1, <1>2, ServingKept
    <2> QED
        BY <2>1, <2>2
<1>6. ASSUME NEW a \in Authorities \ {Root}
      PROVE  ChainOK(a)'
    <2>0. ChainOK(a) /\ SameCert(a) /\ SameChain(a)
        BY <1>2 DEF Inv
    <2>1. CASE a = x
        <3>1. ~At(a, "cert")' /\ (Holding(a)' /\ Quiet(a)' => Vouches(proc[a].chain, proc[a].cert)')
            BY <2>1 DEF LocalOK
        <3>2. ~At(a, "cert")
            BY <2>1 DEF At, Writes
        <3>3. HalfRenewed(a) => HalfRenewed(a)'
            BY <1>1 DEF HalfRenewed
        <3>4. (Held(a) /\ ~HalfRenewed(a) /\ disk[a].chain # NoFile /\ ~At(a, "cert"))' =>
                  Belongs(disk[a].chain, disk[a].cert, a)'
            BY <2>0, <3>2, <3>3, <1>1, HeldKept, QuietKept DEF ChainOK, SameChain, SameCert, Belongs
        <3> QED
            BY <3>1, <3>4 DEF ChainOK
    <2>2. CASE a # x
        <3>1. proc'[a] = proc[a]
            BY <2>2 DEF Others
        <3> QED
            BY <3>1, <2>0, <1>1, ChainKept
    <2> QED
        BY <2>1, <2>2
<1>7. ASSUME renewed' = {}
      PROVE  (\A p \in Commands : CommandOK(p)') /\ (\A h \in Clients : ClientOK(h)')
    <2>1. renewed = {}
        BY <1>7, <1>1
    <2>2. \A n \in Nodes \ {Root} : Parent[n] \in Nodes /\ SameCert(Parent[n]) /\ SameChain(Parent[n])
        BY <1>2, ParentAbove
    <2>3. ASSUME NEW p \in Commands
          PROVE  CommandOK(p)'
        <3>1. CASE p = x
            BY <3>1, <1>7 DEF LocalOK
        <3>2. CASE p # x
            <4>1. proc'[p] = proc[p] /\ CommandOK(p)
                BY <2>1, <3>2 DEF Others, Inv
            <4> QED
                BY <4>1, <2>2, CommandKept
        <3> QED
            BY <3>1, <3>2
    <2>4. ASSUME NEW h \in Clients
          PROVE  ClientOK(h)'
        <3>1. ClientOK(h) /\ SameFiles(h) /\ SameCert(Parent[h]) /\ SameChain(Parent[h])
            BY <2>1, <2>2, <1>1 DEF Inv
        <3>2. /\ Held(h)' <=> Held(h)
              /\ disk'[h].cert = disk[h].cert /\ disk'[h].chain = disk[h].chain /\ disk'[h].ints = disk[h].ints
            BY <3>1, HeldKept DEF SameFiles, SameCert, SameChain
        <3>3. Held(h) => FromParent(h, disk[h].cert)'
            BY <3>1, <3>2, FromParentKept DEF ClientOK
        <3>4. ASSUME Held(h), NEW file \in {"chain", "ints"}
              PROVE  (disk[h][file] = Kept(h, file))' \/ Due(h, file)'
            <4>1. disk[h][file] = Kept(h, file) \/ Due(h, file)
                BY <3>1, <3>4 DEF ClientOK
            <4>2. disk'[h][file] = disk[h][file] /\ Kept(h, file)' = Kept(h, file)
                BY <3>1, <3>2, KeptKept
            <4> QED
                BY <4>1, <4>2, DueKept
        <3> QED
            BY <3>2, <3>3, <3>4 DEF ClientOK
    <2> QED
        BY <2>3, <2>4
<1>8. DOMAIN disk' = Nodes /\ DOMAIN proc' = Processes /\ \A c \in signed' : CertOK(c)
    BY DEF FilesKept, Others, MoreSigned
<1> QED
    BY <1>3, <1>4, <1>5, <1>6, <1>7, <1>8 DEF Inv, CertOK, SelfSigned

-----------------------------------------------------------------------------
(***************************************************************************)
(* Steps after which a process has nothing to show                         *)
(***************************************************************************)

\* Between starts and commands, before and after the files
Rests(x) ==
    /\ Shape(x)
    /\ \/ proc[x].pc \in {"idle", "down", "stopped", "init", "signer"}
       \/ proc[x].pc = "request" /\ proc[x].cmd = "getcacert"

LEMMA RestsLocal ==
    ASSUME NEW x \in Processes, Rests(x)'
    PROVE  LocalOK(x)'
<1>1. Shape(x)' /\ ~Holding(x)' /\ ~At(x, "cert")' /\ ~At(x, "running")'
    BY DEF Rests, Holding, At, Writes
<1>2. At(x, "request")' => proc'[x].cmd = "getcacert"
    BY DEF Rests, At
<1>3. x \in Authorities => ~Obtaining(x)'
    BY CredentialsAssumption DEF Rests, Shape, Obtaining
<1> QED
    BY <1>1, <1>2, <1>3 DEF LocalOK, Remembers, Serving, Running, CommandOK

LEMMA ProcessIs ==
    ASSUME NEW pc
    PROVE  /\ DOMAIN Process(pc) = Fields
           /\ Process(pc).pc = pc /\ Process(pc).cmd = "enroll" /\ Process(pc).chain = <<>>
BY DEF Process, Fields

LEMMA EndedIs ==
    ASSUME NEW x
    PROVE  /\ DOMAIN Ended(x) = Fields /\ Ended(x).cmd = "enroll"
           /\ Ended(x).pc = IF x \in Authorities THEN "stopped" ELSE "idle"
BY DEF Ended, Process, Fields

LEMMA DiedIs ==
    ASSUME NEW x
    PROVE  /\ DOMAIN Died(x) = Fields /\ Died(x).cmd = "enroll"
           /\ Died(x).pc = IF x \in Authorities THEN "down" ELSE "idle"
BY DEF Died, Fresh, Process, Fields

LEMMA Moves ==
    ASSUME DOMAIN proc = Processes, NEW x \in Processes, NEW v, proc' = [proc EXCEPT ![x] = v]
    PROVE  Others(x) /\ proc'[x] = v
BY DEF Others

\* It ends, of itself or not.
LEMMA EndRests ==
    ASSUME DOMAIN proc = Processes, NEW x \in Processes,
           NEW end \in {Ended(x), Died(x)}, proc' = [proc EXCEPT ![x] = end]
    PROVE  Others(x) /\ Rests(x)'
<1>1. Others(x) /\ proc'[x] = end
    BY Moves
<1>2. /\ DOMAIN end = Fields /\ end.cmd = "enroll"
      /\ end.pc \in IF x \in Authorities THEN {"stopped", "down"} ELSE {"idle"}
    BY EndedIs, DiedIs
<1> QED
    BY <1>1, <1>2, NodesAndProcesses DEF Rests, Shape, AuthorityPcs, CommandPcs

LEMMA EndsRests ==
    ASSUME DOMAIN proc = Processes, NEW x \in Processes, proc' = Ends(x)
    PROVE  Others(x) /\ Rests(x)'
BY EndRests DEF Ends

-----------------------------------------------------------------------------
LEMMA SameDisk ==
    ASSUME Inv, disk' = disk
    PROVE  FilesKept
BY DEF Inv, HomeOK, FilesKept, SameFiles, SameCert, SameChain, KeysGrow

LEMMA KeyAdded ==
    ASSUME Inv, NEW h \in Nodes, NEW key, disk' = WithKey(h, key)
    PROVE  FilesKept /\ key \in disk'[h].keys
<1>1. DOMAIN disk = Nodes /\ \A n \in Nodes : DOMAIN disk[n] = FileNames
    BY DEF Inv, HomeOK
<1>2. DOMAIN disk' = Nodes /\ \A n \in Nodes : n # h => disk'[n] = disk[n]
    BY <1>1 DEF WithKey
<1>3. /\ DOMAIN disk'[h] = FileNames /\ disk'[h].keys = disk[h].keys \cup {key}
      /\ disk'[h].cert = disk[h].cert /\ disk'[h].chain = disk[h].chain
      /\ disk'[h].keyfile = disk[h].keyfile /\ disk'[h].ints = disk[h].ints
    BY <1>1 DEF WithKey, FileNames
<1> QED
    BY <1>1, <1>2, <1>3 DEF FilesKept, SameFiles, SameCert, SameChain, KeysGrow

LEMMA SameSigned ==
    ASSUME Inv, signed' = signed
    PROVE  MoreSigned
BY DEF Inv, MoreSigned

LEMMA SameRenewed ==
    ASSUME Inv, renewed' = renewed
    PROVE  MoreRenewed
BY DEF Inv, Counts, MoreRenewed

LEMMA SameCounts ==
    ASSUME Inv, spent' = spent, cut' = cut, renewed' = renewed,
           trouble' = trouble \/ Trouble
    PROVE  Counts'
<1>1. trouble \in 0 .. MaxTrouble /\ MaxTrouble \in Nat
    BY CredentialsAssumption DEF Inv, Counts
<1>2. trouble' \in 0 .. MaxTrouble
    BY <1>1 DEF Trouble
<1> QED
    BY <1>2 DEF Inv, Counts

\* A step with which x comes to rest, without a file
LEMMA ComesToRest ==
    ASSUME Inv, NEW x \in Processes, proc[x].pc \notin Writes, Others(x), Rests(x)',
           disk' = disk, signed' = signed, spent' = spent, cut' = cut, renewed' = renewed,
           trouble' = trouble \/ Trouble
    PROVE  Inv'
BY RestsLocal, SameDisk, SameSigned, SameRenewed, SameCounts, WritesNothing

LEMMA StartStepInv ==
    ASSUME Inv, NEW a \in Authorities, NEW renew \in BOOLEAN, Start(a, renew)
    PROVE  Inv'
<1>1. a \in Processes /\ DOMAIN proc = Processes /\ a \notin Commands
    BY NodesAndProcesses DEF Inv
<1>2. proc[a].pc \notin Writes
    BY DEF Start, Writes
<1>3. Others(a) /\ proc'[a] = [Process("init") EXCEPT !.cn = proc[a].cn, !.renew = renew]
    BY <1>1, Moves DEF Start
<1>4. DOMAIN proc'[a] = Fields /\ proc'[a].pc = "init" /\ proc'[a].cmd = "enroll"
    BY <1>3 DEF Process, Fields
<1>5. Rests(a)'
    BY <1>1, <1>4 DEF Rests, Shape, AuthorityPcs
<1>6. trouble' = trouble \/ Trouble
    BY DEF Start
<1> QED
    BY <1>1, <1>2, <1>3, <1>5, <1>6, ComesToRest DEF Start

LEMMA ExitInv ==
    ASSUME Inv, NEW a \in Authorities, Exit(a)
    PROVE  Inv'
<1>1. a \in Processes /\ DOMAIN proc = Processes
    BY NodesAndProcesses DEF Inv
<1>2. proc[a].pc \notin Writes
    BY DEF Exit, At, Writes
<1>3. Others(a) /\ Rests(a)'
    BY <1>1, EndRests DEF Exit
<1> QED
    BY <1>1, <1>2, <1>3, ComesToRest DEF Exit

LEMMA LoadKeyMaterialInv ==
    ASSUME Inv, NEW a \in Authorities, LoadKeyMaterial(a)
    PROVE  Inv'
<1>1. a \in Processes /\ DOMAIN proc = Processes /\ a \notin Commands /\ Shape(a)
    BY NodesAndProcesses DEF Inv
<1>2. proc[a].pc \notin Writes
    BY DEF LoadKeyMaterial, At, Writes
<1>3. CASE proc' = Ends(a)
    BY <1>1, <1>2, <1>3, EndsRests, ComesToRest DEF LoadKeyMaterial
<1>4. CASE proc' = [proc EXCEPT ![a].pc = "signer", ![a].cn = TRUE]
    <2>1. Others(a)
        BY <1>1, <1>4 DEF Others
    <2>2. DOMAIN proc'[a] = Fields /\ proc'[a].pc = "signer" /\ proc'[a].cmd = "enroll"
        BY <1>1, <1>4 DEF Shape, Fields
    <2>3. Rests(a)'
        BY <1>1, <2>2 DEF Rests, Shape, AuthorityPcs
    <2> QED
        BY <1>1, <1>2, <2>1, <2>3, ComesToRest DEF LoadKeyMaterial
<1> QED
    BY <1>3, <1>4 DEF LoadKeyMaterial

LEMMA RefuseInv ==
    ASSUME Inv, NEW x \in Processes, Refuse(x)
    PROVE  Inv'
<1>1. DOMAIN proc = Processes
    BY DEF Inv
<1>2. proc[x].pc \notin Writes
    BY DEF Refuse, At, Writes
<1> QED
    BY <1>1, <1>2, EndsRests, ComesToRest DEF Refuse

LEMMA GetCACertInv ==
    ASSUME Inv, NEW p \in Commands, GetCACert(p)
    PROVE  Inv'
<1>1. p \in Processes /\ DOMAIN proc = Processes /\ p \notin Authorities /\ p # Root
    BY NodesAndProcesses DEF Inv
<1>2. proc[p].pc \notin Writes
    BY DEF GetCACert, At, Writes
<1>3. Others(p) /\ proc'[p] = [Process("request") EXCEPT !.cmd = "getcacert", !.key = NoFile, !.with = NoFile]
    BY <1>1, Moves DEF GetCACert, Begin
<1>4. DOMAIN proc'[p] = Fields /\ proc'[p].pc = "request" /\ proc'[p].cmd = "getcacert"
    BY <1>3 DEF Process, Fields
<1>5. Rests(p)'
    BY <1>1, <1>4 DEF Rests, Shape, CommandPcs
<1> QED
    BY <1>1, <1>2, <1>3, <1>5, ComesToRest DEF GetCACert

-----------------------------------------------------------------------------
(***************************************************************************)
(* Steps with a key                                                        *)
(***************************************************************************)

\* A process that has a new key and asks
LEMMA AsksLocal ==
    ASSUME NEW x \in Processes, x # Root, Shape(x)', At(x, "request")',
           proc'[x].key \in disk'[HomeOf(x)].keys,
           x \in Authorities \ renewed' => disk'[x].cert = NoFile
    PROVE  LocalOK(x)'
<1>1. ~Holding(x)' /\ ~At(x, "cert")' /\ ~Running(x)'
    BY DEF Holding, At, Writes, Running
<1> QED
    BY <1>1 DEF LocalOK, Remembers, Serving, CommandOK, HomeOf

LEMMA RequestCACertInv ==
    ASSUME Inv, NEW a \in Authorities, RequestCACert(a)
    PROVE  Inv'
<1>1. a \in Processes /\ a \in Nodes /\ HomeOf(a) = a /\ DOMAIN proc = Processes /\ a \notin Commands /\ Shape(a)
    BY NodesAndProcesses DEF Inv
<1>2. proc[a].pc \notin Writes /\ a # Root
    BY DEF RequestCACert, At, Writes
<1>3. CASE proc[a].cn
    BY <1>1, <1>2, <1>3, EndsRests, ComesToRest DEF RequestCACert
<1>4. CASE ~proc[a].cn
    <2>1. /\ disk' = WithKey(a, NewKey(a))
          /\ renewed' = IF disk[a].cert = NoFile THEN renewed ELSE renewed \cup {a}
          /\ proc' = [proc EXCEPT ![a].pc = "request", ![a].key = NewKey(a)]
          /\ UNCHANGED <<signed, spent, cut, trouble>>
        BY <1>4 DEF RequestCACert
    <2>2. FilesKept /\ NewKey(a) \in disk'[a].keys
        BY <1>1, <2>1, KeyAdded
    <2>3. Others(a) /\ DOMAIN proc'[a] = Fields /\ proc'[a].pc = "request"
          /\ proc'[a].key = NewKey(a) /\ proc'[a].cmd = "enroll"
        BY <1>1, <2>1 DEF Others, Shape, Fields
    <2>4. Shape(a)' /\ At(a, "request")'
        BY <1>1, <1>2, <2>3 DEF Shape, AuthorityPcs, At
    <2>5. disk'[a].cert = disk[a].cert
        BY <1>1, <2>2 DEF FilesKept, SameFiles, SameCert
    <2>6. a \notin renewed' => disk'[a].cert = NoFile
        BY <2>1, <2>5
    <2>7. LocalOK(a)'
        BY <1>1, <1>2, <2>2, <2>3, <2>4, <2>6, AsksLocal
    <2>8. MoreRenewed /\ MoreSigned /\ Counts'
        BY <2>1 DEF Inv, Counts, MoreRenewed, MoreSigned
    <2> QED
        BY <1>1, <1>2, <2>1, <2>2, <2>3, <2>7, <2>8, WritesNothing
<1> QED
    BY <1>3, <1>4

\* Enroll and Reenroll: the key is new, and the command asks.
LEMMA CommandAsks ==
    ASSUME Inv, NEW p \in Commands, At(p, "idle"), NEW cmd \in {"enroll", "reenroll"}, NEW key, NEW with,
           disk' = WithKey(Home[p], key), Begin(p, cmd, key, with),
           UNCHANGED <<signed, spent, cut, renewed, trouble>>
    PROVE  Inv'
<1>1. /\ p \in Processes /\ Home[p] \in Nodes /\ HomeOf(p) = Home[p] /\ DOMAIN proc = Processes
      /\ p \notin Authorities /\ p # Root
    BY NodesAndProcesses DEF Inv
<1>2. proc[p].pc \notin Writes
    BY DEF At, Writes
<1>3. FilesKept /\ key \in disk'[Home[p]].keys
    BY <1>1, KeyAdded
<1>4. Others(p) /\ proc'[p] = [Process("request") EXCEPT !.cmd = cmd, !.key = key, !.with = with]
    BY <1>1, Moves DEF Begin
<1>5. DOMAIN proc'[p] = Fields /\ proc'[p].pc = "request" /\ proc'[p].cmd = cmd /\ proc'[p].key = key
    BY <1>4 DEF Process, Fields
<1>6. Shape(p)' /\ At(p, "request")'
    BY <1>1, <1>5 DEF Shape, CommandPcs, At
<1>7. LocalOK(p)'
    BY <1>1, <1>3, <1>5, <1>6, AsksLocal
<1>8. MoreRenewed /\ MoreSigned /\ Counts'
    BY SameRenewed, SameSigned, SameCounts
<1> QED
    BY <1>1, <1>2, <1>3, <1>4, <1>7, <1>8, WritesNothing

LEMMA EnrollInv ==
    ASSUME Inv, NEW p \in Commands, Enroll(p)
    PROVE  Inv'
BY CommandAsks DEF Enroll

LEMMA ReenrollInv ==
    ASSUME Inv, NEW p \in Commands, Reenroll(p)
    PROVE  Inv'
BY CommandAsks DEF Reenroll

LEMMA GenerateRootInv ==
    ASSUME Inv, NEW a \in Authorities, GenerateRoot(a)
    PROVE  Inv'
<1> DEFINE key == NewKey(a)
           cert == [subject |-> a, key |-> key, issuer |-> a, signer |-> key]
<1>1. a \in Processes /\ a \in Nodes /\ HomeOf(a) = a /\ DOMAIN proc = Processes /\ a \notin Commands /\ Shape(a)
    BY NodesAndProcesses DEF Inv
<1>2. /\ proc[a].pc \notin Writes /\ a = Root
      /\ disk' = WithKey(a, key)
      /\ signed' = signed \cup {cert}
      /\ renewed' = IF disk[a].cert = NoFile THEN renewed ELSE renewed \cup {a}
      /\ proc' = [proc EXCEPT ![a].pc = "cert", ![a].key = key, ![a].cert = cert]
      /\ UNCHANGED <<spent, cut, trouble>>
    BY DEF GenerateRoot, At, Writes
<1>3. cert.subject = a /\ cert.key = key /\ CertOK(cert)
    BY <1>1, <1>2 DEF CertOK, SelfSigned
<1> HIDE DEF key, cert
<1>4. FilesKept /\ key \in disk'[a].keys
    BY <1>1, <1>2, KeyAdded
<1>5. /\ Others(a) /\ DOMAIN proc'[a] = Fields /\ proc'[a].pc = "cert"
      /\ proc'[a].cert = cert /\ proc'[a].cmd = "enroll"
    BY <1>1, <1>2 DEF Others, Shape, Fields
<1>6. Shape(a)'
    BY <1>1, <1>5 DEF Shape, AuthorityPcs
<1>7. cert \in signed'
    BY <1>2
<1>8. Remembers(a)'
    BY <1>1, <1>2, <1>3, <1>4, <1>5, <1>7 DEF Remembers, At, Holding, HomeOf
<1>9. disk'[a].cert = disk[a].cert
    BY <1>1, <1>4 DEF FilesKept, SameFiles, SameCert
<1>10. Serving(a)'
    BY <1>2, <1>5, <1>9 DEF Serving, Running, At
<1>11. LocalOK(a)'
    BY <1>1, <1>2, <1>6, <1>8, <1>10 DEF LocalOK
<1>12. MoreRenewed /\ MoreSigned /\ Counts'
    BY <1>2, <1>3 DEF Inv, Counts, MoreRenewed, MoreSigned
<1> QED
    BY <1>1, <1>2, <1>4, <1>5, <1>11, <1>12, WritesNothing

LEMMA InitEnrollmentSignerInv ==
    ASSUME Inv, NEW a \in Authorities, InitEnrollmentSigner(a)
    PROVE  Inv'
<1>1. a \in Processes /\ a \in Nodes /\ DOMAIN proc = Processes /\ a \notin Commands /\ Shape(a)
    BY NodesAndProcesses DEF Inv
<1>2. proc[a].pc \notin Writes /\ Held(a)
    BY DEF InitEnrollmentSigner, At, Writes
<1>3. FilesKept
    BY <1>1, SameDisk, KeyAdded DEF InitEnrollmentSigner, BackedSigner, ImportKeyFile
<1>4. MoreRenewed /\ MoreSigned /\ Counts' /\ cut' = cut
    BY SameRenewed, SameSigned, SameCounts DEF InitEnrollmentSigner
<1>5. CASE proc' = Ends(a)
    <2>1. Others(a) /\ Rests(a)'
        BY <1>1, <1>5, EndsRests
    <2>2. LocalOK(a)'
        BY <1>1, <2>1, RestsLocal
    <2> QED
        BY <1>1, <1>2, <1>3, <1>4, <2>1, <2>2, WritesNothing
<1>6. CASE proc' = [proc EXCEPT ![a].pc = "running", ![a].cert = disk[a].cert]
    <2>1. /\ Others(a) /\ DOMAIN proc'[a] = Fields /\ proc'[a].pc = "running"
          /\ proc'[a].cert = disk[a].cert /\ proc'[a].cmd = "enroll"
        BY <1>1, <1>6 DEF Others, Shape, Fields
    <2>2. SameCert(a)
        BY <1>1, <1>3 DEF FilesKept, SameFiles
    <2>3. Held(a)' /\ disk'[a].cert = disk[a].cert
        BY <1>2, <2>2, HeldKept DEF SameCert
    <2>4. Shape(a)'
        BY <1>1, <2>1 DEF Shape, AuthorityPcs
    <2>5. Remembers(a)' /\ ~At(a, "cert")' /\ ~Holding(a)'
        BY <2>1 DEF Remembers, At, Holding, Writes
    <2>6. Serving(a)'
        BY <2>1, <2>3 DEF Serving, Obtaining
    <2>7. LocalOK(a)'
        BY <1>1, <2>4, <2>5, <2>6 DEF LocalOK
    <2> QED
        BY <1>1, <1>2, <1>3, <1>4, <2>1, <2>7, WritesNothing
<1> QED
    BY <1>5, <1>6 DEF InitEnrollmentSigner

-----------------------------------------------------------------------------
(***************************************************************************)
(* The answer                                                              *)
(***************************************************************************)

\* A certificate that signed itself is a chain of its own.
LEMMA Alone ==
    ASSUME NEW c, SelfSigned(c)
    PROVE  <<c>> # <<>> /\ Head(<<c>>) = c /\ ToSet(Tail(<<c>>)) = {} /\ ToSet(<<c>>) = {c} /\ Leads(<<c>>, c)
<1>1. <<c>> # <<>> /\ Head(<<c>>) = c /\ Tail(<<c>>) = <<>>
    OBVIOUS
<1>2. ToSet(<<c>>) = {c} /\ ToSet(Tail(<<c>>)) = {}
    BY <1>1 DEF ToSet
<1>3. LeadsFrom({c}, {}, c)
    BY DEF LeadsFrom, Trusts
<1>4. Roots(<<c>>) = {c} /\ Intermediates(<<c>>) = {}
    BY <1>2 DEF Roots, Intermediates
<1> QED
    BY <1>1, <1>2, <1>3, <1>4 DEF Leads

\* What an authority hands out is of its own and of those above it.
LEMMA ChainOfAuthority ==
    ASSUME Inv, NEW a \in Authorities, ChainOf(a) # NoFile
    PROVE  /\ ChainOf(a) \in Seq(signed)
           /\ \A c \in ToSet(ChainOf(a)) : c.subject = a \/ Above(c.subject, a)
<1>0. a \in Nodes /\ HomeOK(a) /\ AuthorityHomeOK(a)
    BY NodesAndProcesses DEF Inv, HomeOK
<1>1. CASE disk[a].chain # NoFile
    BY <1>0, <1>1 DEF AuthorityHomeOK, ChainFileOK, ChainOf
<1>2. CASE disk[a].chain = NoFile /\ Held(a)
    <2>1. ChainOf(a) = <<disk[a].cert>> /\ disk[a].cert \in signed /\ disk[a].cert.subject = a
        BY <1>0, <1>2 DEF ChainOf, HomeOK
    <2>2. ToSet(<<disk[a].cert>>) = {disk[a].cert}
        BY DEF ToSet
    <2> QED
        BY <2>1, <2>2
<1>3. CASE disk[a].chain = NoFile /\ ~Held(a)
    <2>1. ChainOf(a) = <<>> /\ ToSet(<<>>) = {}
        BY <1>3 DEF ChainOf, ToSet
    <2> QED
        BY <2>1
<1> QED
    BY <1>1, <1>2, <1>3

LEMMA ChainOfParent ==
    ASSUME Inv, NEW n \in Nodes, n # Root, ChainOf(Parent[n]) # NoFile
    PROVE  ChainAbove(ChainOf(Parent[n]), n)
<1> DEFINE a == Parent[n]
<1>1. a \in Authorities /\ a \in Nodes /\ Above(a, n)
    BY ParentAbove
<1>2. /\ ChainOf(a) \in Seq(signed)
      /\ \A c \in ToSet(ChainOf(a)) : c.subject = a \/ Above(c.subject, a)
    BY <1>1, ChainOfAuthority
<1>3. ASSUME NEW c \in ToSet(ChainOf(a))
      PROVE  Above(c.subject, n)
    <2>1. c \in signed
        BY <1>2 DEF ToSet
    <2>2. c.subject \in Nodes
        BY <2>1 DEF Inv, CertOK
    <2> QED
        BY <2>2, <1>1, <1>2, AboveTransitive
<1> QED
    BY <1>2, <1>3 DEF ChainAbove

\* The chain of an authority that runs belongs to the certificate it signs with.
LEMMA RunningBelongs ==
    ASSUME Inv, NEW a \in Authorities, Running(a), ~HalfRenewed(a), ChainOf(a) # NoFile
    PROVE  /\ Held(a) /\ proc[a].cert = disk[a].cert
           /\ disk[a].cert \in signed /\ disk[a].cert.subject = a
           /\ Belongs(ChainOf(a), disk[a].cert, a)
<1>1. a \in Nodes /\ HomeOK(a) /\ AuthorityHomeOK(a) /\ Serving(a)
    BY NodesAndProcesses DEF Inv, HomeOK
<1>2. /\ Held(a) /\ proc[a].cert = disk[a].cert
      /\ disk[a].cert \in signed /\ disk[a].cert.subject = a
    BY <1>1 DEF Serving, HomeOK
<1>3. CASE a = Root
    <2>1. ChainOf(a) = <<disk[a].cert>>
        BY <1>1, <1>2, <1>3 DEF ChainOf, AuthorityHomeOK
    <2>2. SelfSigned(disk[a].cert)
        BY <1>2, <1>3 DEF Inv, CertOK
    <2> QED
        BY <1>2, <2>1, <2>2, Alone DEF Belongs
<1>4. CASE a # Root
    <2>1. ChainOK(a) /\ ~At(a, "cert")
        BY <1>4 DEF Inv, Running, At
    <2>2. disk[a].chain # NoFile /\ ChainOf(a) = disk[a].chain
        BY <1>4 DEF ChainOf
    <2> QED
        BY <1>2, <2>1, <2>2 DEF ChainOK
<1> QED
    BY <1>3, <1>4

\* While nobody above was renewed, the chain that comes with an answer is of the
\* one who signed.
LEMMA AnswerVouches ==
    ASSUME Inv, NEW n \in Nodes, n # Root, Quiet(n), Running(Parent[n]), ChainOf(Parent[n]) # NoFile,
           NEW cert, cert.issuer = Parent[n], cert.signer = proc[Parent[n]].cert.key
    PROVE  Vouches(ChainOf(Parent[n]), cert) /\ FromParent(n, cert)
<1> DEFINE a == Parent[n]
<1>1. a \in Authorities /\ a \in Nodes /\ Above(a, n)
    BY ParentAbove
<1>2. a \notin renewed /\ ~HalfRenewed(a)
    BY <1>1 DEF Quiet, HalfRenewed
<1>3. Quiet(a)
    <2>1. ASSUME NEW b \in renewed, Above(b, a)
          PROVE  FALSE
        <3>1. b \in Nodes
            BY NodesAndProcesses DEF Inv, Counts
        <3> QED
            BY <3>1, <2>1, <1>1, AboveTransitive DEF Quiet
    <2> QED
        BY <2>1 DEF Quiet
<1>4. /\ Held(a) /\ proc[a].cert = disk[a].cert /\ disk[a].cert.subject = a
      /\ Belongs(ChainOf(a), disk[a].cert, a)
    BY <1>1, <1>2, RunningBelongs
<1>5. IssuedBy(cert, disk[a].cert)
    BY <1>4 DEF IssuedBy
<1>6. Leads(ChainOf(a), disk[a].cert) /\ disk[a].cert \in ToSet(ChainOf(a))
    BY <1>3, <1>4 DEF Belongs
<1> QED
    BY <1>4, <1>5, <1>6 DEF Vouches, FromParent

LEMMA HandleCAInfoInv ==
    ASSUME Inv, NEW x \in Processes, HandleCAInfo(x)
    PROVE  Inv'
<1> DEFINE h == HomeOf(x)
           a == Parent[h]
<1>1. DOMAIN proc = Processes /\ Shape(x)
    BY DEF Inv
<1>2. proc[x].pc \notin Writes /\ proc[x].pc = "request" /\ proc[x].cmd = "getcacert"
    BY DEF HandleCAInfo, At, Writes
<1>3. x \notin Authorities /\ x \in Commands /\ h = Home[x] /\ h \in Nodes /\ h # Root
    BY <1>1, <1>2, NodesAndProcesses DEF Shape
<1>4. a \in Authorities
    BY <1>3, ParentAbove
<1>5. CASE proc' = Ends(x)
    BY <1>1, <1>2, <1>5, EndsRests, ComesToRest DEF HandleCAInfo
<1>6. CASE ChainOf(a) # NoFile /\ proc' = [proc EXCEPT ![x].pc = "answered", ![x].chain = ChainOf(a)]
    <2>1. /\ Others(x) /\ DOMAIN proc'[x] = Fields /\ proc'[x].pc = "answered"
          /\ proc'[x].chain = ChainOf(a) /\ proc'[x].cmd = "getcacert"
        BY <1>1, <1>2, <1>6 DEF Others, Shape, Fields
    <2>2. UNCHANGED <<disk, signed, spent, cut, renewed, trouble>> /\ Running(a)
        BY DEF HandleCAInfo
    <2>3. FilesKept /\ MoreSigned /\ MoreRenewed /\ Counts'
        BY <2>2, SameDisk, SameSigned, SameRenewed, SameCounts
    <2>4. Shape(x)'
        BY <1>3, <2>1, NodesAndProcesses DEF Shape, CommandPcs
    <2>5. ChainAbove(ChainOf(a), h)
        BY <1>3, <1>6, ChainOfParent
    <2>6. ChainAbove(proc[x].chain, HomeOf(x))'
        BY <2>1, <2>2, <2>5 DEF ChainAbove
    <2>7. Remembers(x)'
        BY <2>1, <2>6 DEF Remembers, At
    <2>8. ASSUME renewed' = {}
          PROVE  CommandOK(x)'
        <3>1. SameCert(a) /\ SameChain(a)
            BY <2>2 DEF SameCert, SameChain
        <3>2. Serving(a) /\ Held(a)
            BY <1>4, <2>2 DEF Inv, Serving
        <3>3. ChainOf(a)' = ChainOf(a) /\ Held(a)'
            BY <3>1, <3>2, HeldKept, ChainOfKept
        <3> QED
            BY <1>3, <1>6, <2>1, <3>3 DEF CommandOK
    <2>9. LocalOK(x)'
        BY <1>3, <2>4, <2>7, <2>8 DEF LocalOK
    <2> QED
        BY <1>2, <2>1, <2>2, <2>3, <2>9, WritesNothing
<1> QED
    BY <1>5, <1>6 DEF HandleCAInfo

LEMMA HandleEnrollInv ==
    ASSUME Inv, NEW x \in Processes, HandleEnroll(x)
    PROVE  Inv'
<1> DEFINE h == HomeOf(x)
           a == Parent[h]
           cert == [subject |-> h, key |-> proc[x].key, issuer |-> a, signer |-> proc[a].cert.key]
<1>1. DOMAIN proc = Processes /\ Shape(x) /\ Remembers(x)
    BY DEF Inv
<1>2. /\ proc[x].pc \notin Writes /\ proc[x].pc = "request" /\ proc[x].cmd # "getcacert"
      /\ Running(a) /\ signed' = signed \cup {cert}
      /\ UNCHANGED <<disk, cut, renewed, trouble>>
    BY DEF HandleEnroll, At, Writes
<1>3. x # Root /\ h \in Nodes /\ h # Root
    BY <1>1, <1>2, NodesAndProcesses DEF Shape
<1>4. a \in Authorities
    BY <1>3, ParentAbove
<1>5. /\ cert.subject = h /\ cert.key = proc[x].key
      /\ cert.issuer = a /\ cert.signer = proc[a].cert.key
      /\ CertOK(cert)
    BY <1>3, <1>4 DEF CertOK
<1> HIDE DEF cert
<1>6. MoreSigned /\ MoreRenewed /\ FilesKept /\ cert \in signed'
    BY <1>2, <1>5, SameDisk, SameRenewed DEF Inv, MoreSigned
<1>7. CASE proc' = Ends(x) /\ UNCHANGED spent
    <2>1. Others(x) /\ Rests(x)'
        BY <1>1, <1>7, EndsRests
    <2>2. LocalOK(x)' /\ Counts'
        BY <1>2, <1>7, <2>1, RestsLocal, SameCounts
    <2> QED
        BY <1>2, <1>6, <2>1, <2>2, WritesNothing
<1>8. CASE /\ ChainOf(a) # NoFile
           /\ spent' = IF proc[x].cmd = "enroll" THEN [spent EXCEPT ![h] = @ + 1] ELSE spent
           /\ proc' = [proc EXCEPT ![x].pc = "answered", ![x].cert = cert, ![x].chain = ChainOf(a)]
    <2>1. /\ Others(x) /\ DOMAIN proc'[x] = Fields /\ proc'[x].pc = "answered"
          /\ proc'[x].cert = cert /\ proc'[x].chain = ChainOf(a) /\ proc'[x].cmd = proc[x].cmd
        BY <1>1, <1>8 DEF Others, Shape, Fields
    <2>2. Counts'
        <3>1. spent' \in [Nodes -> Nat]
            BY <1>3, <1>8 DEF Inv, Counts
        <3> QED
            BY <3>1, <1>2 DEF Inv, Counts
    <2>3. Shape(x)'
        BY <1>1, <1>3, <2>1 DEF Shape, CommandPcs, AuthorityPcs
    <2>4. ChainAbove(ChainOf(a), h)
        BY <1>3, <1>8, ChainOfParent
    <2>5. ChainAbove(proc[x].chain, HomeOf(x))'
        <3>1. proc'[x].chain \in Seq(signed')
            BY <1>6, <2>1, <2>4 DEF ChainAbove, MoreSigned
        <3> QED
            BY <3>1, <2>1, <2>4 DEF ChainAbove
    <2>6. proc[x].key \in disk[h].keys
        BY <1>1, <1>2 DEF Remembers, At
    <2>7. Remembers(x)'
        BY <1>2, <1>5, <1>6, <2>1, <2>5, <2>6 DEF Remembers, At
    <2>8. ASSUME x \in Authorities
          PROVE  Serving(x)'
        <3>1. Obtaining(x) /\ Serving(x)
            BY <1>2, <2>8 DEF Inv, Obtaining
        <3> QED
            BY <1>2, <2>1, <3>1 DEF Serving, Running, At
    <2>9. ASSUME Quiet(h)
          PROVE  Vouches(ChainOf(a), cert) /\ FromParent(h, cert)
        BY <1>2, <1>3, <1>5, <1>8, <2>9, AnswerVouches
    <2>10. ASSUME x \in Authorities \ {Root}
           PROVE  ~At(x, "cert")' /\ (Holding(x)' /\ Quiet(x)' => Vouches(proc[x].chain, proc[x].cert)')
        <3>1. h = x /\ (Quiet(x)' => Quiet(x))
            BY <2>10, <1>6, NodesAndProcesses, QuietKept DEF MoreRenewed
        <3> QED
            BY <2>1, <2>9, <3>1 DEF At
    <2>11. ASSUME x \in Commands, renewed' = {}
           PROVE  CommandOK(x)'
        <3>1. SameCert(a) /\ SameChain(a)
            BY <1>2 DEF SameCert, SameChain
        <3>2. Quiet(h)
            BY <1>2, <2>11 DEF Quiet
        <3>3. FromParent(h, cert)
            BY <2>9, <3>2
        <3>4. ChainOf(a)' = ChainOf(a) /\ Held(a)'
            BY <3>1, <3>3, HeldKept, ChainOfKept DEF FromParent
        <3>5. FromParent(h, proc[x].cert)'
            <4>1. IssuedBy(proc'[x].cert, disk'[a].cert)
                BY <1>2, <2>1, <3>3 DEF FromParent
            <4> QED
                BY <1>8, <3>4, <4>1 DEF FromParent
        <3> QED
            BY <1>3, <1>8, <2>1, <2>11, <3>4, <3>5, NodesAndProcesses DEF CommandOK
    <2>12. LocalOK(x)'
        BY <1>3, <2>3, <2>7, <2>8, <2>10, <2>11 DEF LocalOK
    <2> QED
        BY <1>2, <1>6, <2>1, <2>2, <2>12, WritesNothing
<1> QED
    BY <1>7, <1>8 DEF HandleEnroll, cert

LEMMA ReceiveInv ==
    ASSUME Inv, NEW x \in Processes, Receive(x)
    PROVE  Inv'
<1>1. DOMAIN proc = Processes /\ Shape(x) /\ Remembers(x)
    BY DEF Inv
<1>2. /\ proc[x].pc \notin Writes /\ proc[x].pc = "answered" /\ x # Root
      /\ UNCHANGED <<disk, signed, spent, cut, renewed, trouble>>
    BY <1>1 DEF Receive, At, Writes, Shape
<1>3. /\ Others(x) /\ DOMAIN proc'[x] = Fields /\ proc'[x].pc = Head(Order(x))
      /\ \A f \in Fields \ {"pc", "cn"} : proc'[x][f] = proc[x][f]
    BY <1>1 DEF Receive, Others, Shape, Fields
<1>4. proc'[x].cmd = proc[x].cmd /\ proc'[x].cert = proc[x].cert /\ proc'[x].chain = proc[x].chain
    BY <1>3 DEF Fields
<1>5. /\ x \in Authorities => proc'[x].pc = "chain"
      /\ x \in Commands => proc'[x].pc = IF proc[x].cmd = "getcacert" THEN "chain" ELSE "cert"
    <2>1. Order(x) \in Seq(Writes)
        BY <1>1, OrderIs
    <2>2. Order(x) # <<>> => Head(Order(x)) = Order(x)[1]
        BY <2>1
    <2>3. Len(Order(x)) > 0 /\ (x \in Authorities => Order(x)[1] = "chain")
          /\ (x \in Commands => Order(x)[1] = IF proc[x].cmd = "getcacert" THEN "chain" ELSE "cert")
        BY <1>1, <1>2, OrderIs, NodesAndProcesses
    <2>4. Order(x) # <<>>
        BY <2>1, <2>3, NotEmpty
    <2> QED
        BY <1>3, <2>2, <2>3, <2>4
<1>6. x \in Authorities \/ x \in Commands
    BY NodesAndProcesses
<1>7. Shape(x)'
    BY <1>1, <1>2, <1>3, <1>4, <1>5, <1>6, NodesAndProcesses DEF Shape, AuthorityPcs, CommandPcs
<1>8. Holding(x) /\ Holding(x)' /\ ~At(x, "request")' /\ ~Running(x)'
    BY <1>2, <1>5, <1>6 DEF Holding, At, Running, Writes
<1>9. FilesKept /\ MoreSigned /\ MoreRenewed /\ Counts'
    BY <1>2, SameDisk, SameSigned, SameRenewed, SameCounts
<1>10. Remembers(x)'
    BY <1>1, <1>2, <1>4, <1>8 DEF Remembers, ChainAbove
<1>11. x \in Authorities => Serving(x)'
    BY <1>2, <1>8 DEF Inv, Serving, Obtaining
<1>12. ASSUME x \in Authorities \ {Root}
       PROVE  ~At(x, "cert")' /\ (Holding(x)' /\ Quiet(x)' => Vouches(proc[x].chain, proc[x].cert)')
    <2>1. ChainOK(x) /\ (Quiet(x)' => Quiet(x))
        BY <1>9, <1>12, QuietKept DEF Inv, MoreRenewed
    <2> QED
        BY <1>4, <1>5, <1>8, <1>12, <2>1 DEF ChainOK, At
<1>13. ASSUME x \in Commands, renewed' = {}
       PROVE  CommandOK(x)'
    <2>1. CommandOK(x)
        BY <1>2, <1>13 DEF Inv
    <2> QED
        BY <1>2, <1>4, <1>8, <2>1 DEF CommandOK, FromParent, Held, ChainOf
<1>14. LocalOK(x)'
    BY <1>7, <1>10, <1>11, <1>12, <1>13 DEF LocalOK
<1> QED
    BY <1>2, <1>3, <1>9, <1>14, WritesNothing

-----------------------------------------------------------------------------
(***************************************************************************)
(* Writing                                                                 *)
(***************************************************************************)

DueIs == \A x \in Processes : Shape(x) /\ proc[x].pc \in Writes => ToSet(Remaining(x)) = DueFiles(x)

LEMMA DueNow == DueIs
BY RemainingIs DEF DueIs

LEMMA DueThen == DueIs'
BY DueNow, PTL

\* What leads from fewer leads from more, and on to whom it issued.
LEMMA LeadsOn ==
    ASSUME NEW R, NEW I, NEW c, LeadsFrom(R, I, c), NEW cert, IssuedBy(cert, c),
           NEW R2, NEW I2, R \subseteq R2, I \subseteq I2, cert \in R2 \cup I2
    PROVE  LeadsFrom(R2, I2, cert)
<1> SUFFICES ASSUME NEW trusted \in SUBSET (R2 \cup I2), Trusts(trusted, R2, I2)
             PROVE  cert \in trusted
    BY DEF LeadsFrom
<1> DEFINE few == trusted \cap (R \cup I)
<1>1. Trusts(few, R, I)
    BY DEF Trusts
<1>2. c \in few
    <2>1. few \in SUBSET (R \cup I)
        OBVIOUS
    <2> HIDE DEF few
    <2> QED
        BY <1>1, <2>1 DEF LeadsFrom
<1> QED
    BY <1>2 DEF Trusts

LEMMA ConcatVouched ==
    ASSUME NEW S, NEW chain \in Seq(S), NEW cert \in S, NEW parentFirst, Vouches(chain, cert)
    PROVE  Leads(Concat(chain, cert, parentFirst), cert)
<1> DEFINE v == Concat(chain, cert, parentFirst)
<1>1. PICK c \in ToSet(chain) : IssuedBy(cert, c) /\ Leads(chain, c)
    BY DEF Vouches
<1>2. ToSet(v) = {cert} \cup ToSet(chain)
    BY Before, After DEF Concat
<1>3. LeadsFrom(Roots(v), Intermediates(v), cert)
    <2>1. /\ Roots(chain) \subseteq Roots(v) /\ Intermediates(chain) \subseteq Intermediates(v)
          /\ cert \in Roots(v) \cup Intermediates(v)
        BY <1>2 DEF Roots, Intermediates
    <2>2. LeadsFrom(Roots(chain), Intermediates(chain), c)
        BY <1>1 DEF Leads
    <2> QED
        BY <1>1, <2>1, <2>2, LeadsOn
<1>4. LeadsFrom({Head(v)}, ToSet(Tail(v)), cert)
    <2>1. CASE parentFirst
        <3>1. v = chain \o <<cert>> /\ chain # <<>>
            BY <1>1, <2>1 DEF Concat, ToSet
        <3>2. Head(v) = Head(chain) /\ ToSet(Tail(v)) = {cert} \cup ToSet(Tail(chain))
            BY <3>1, After
        <3>3. LeadsFrom({Head(chain)}, ToSet(Tail(chain)), c)
            BY <1>1 DEF Leads
        <3> QED
            BY <1>1, <3>2, <3>3, LeadsOn
    <2>2. CASE ~parentFirst
        <3>1. Head(v) = cert
            BY <2>2, Before DEF Concat
        <3> QED
            BY <3>1 DEF LeadsFrom, Trusts
    <2> QED
        BY <2>1, <2>2
<1> QED
    BY <1>2, <1>3, <1>4 DEF Leads

\* The chain file that an authority writes
LEMMA ConcatFile ==
    ASSUME NEW a, NEW chain, ChainAbove(chain, a), NEW cert \in signed, cert.subject = a
    PROVE  ChainFileOK(a, Concat(chain, cert, a \in ParentFirst))
<1>1. chain \in Seq(signed) /\ \A c \in ToSet(chain) : Above(c.subject, a)
    BY DEF ChainAbove
<1>2. CASE a \in ParentFirst
    <2>1. Concat(chain, cert, a \in ParentFirst) = chain \o <<cert>>
        BY <1>2 DEF Concat
    <2>2. chain \o <<cert>> \in Seq(signed) /\ ToSet(chain \o <<cert>>) = {cert} \cup ToSet(chain)
        BY <1>1, After
    <2> QED
        BY <1>1, <1>2, <2>1, <2>2 DEF ChainFileOK
<1>3. CASE a \notin ParentFirst
    <2>1. Concat(chain, cert, a \in ParentFirst) = <<cert>> \o chain
        BY <1>3 DEF Concat
    <2>2. /\ <<cert>> \o chain \in Seq(signed) /\ ToSet(<<cert>> \o chain) = {cert} \cup ToSet(chain)
          /\ Head(<<cert>> \o chain) = cert /\ Tail(<<cert>> \o chain) = chain
        BY <1>1, Before
    <2> QED
        BY <1>1, <1>3, <2>1, <2>2 DEF ChainFileOK
<1> QED
    BY <1>2, <1>3

\* One file of one home is written.
Written(n, file, v) == disk' = [disk EXCEPT ![n][file] = v]

LEMMA FileWritten ==
    ASSUME Inv, NEW n \in Nodes, NEW file \in Writes, NEW v, Written(n, file, v)
    PROVE  /\ DOMAIN disk' = Nodes /\ \A m \in Nodes \ {n} : disk'[m] = disk[m]
           /\ DOMAIN disk'[n] = FileNames /\ disk'[n][file] = v
           /\ \A f \in FileNames \ {file} : disk'[n][f] = disk[n][f]
           /\ disk'[n].keys = disk[n].keys /\ disk'[n].keyfile = disk[n].keyfile
<1>1. DOMAIN disk = Nodes /\ DOMAIN disk[n] = FileNames
    BY DEF Inv, HomeOK
<1>2. file \in FileNames /\ file # "keys" /\ file # "keyfile"
    BY DEF Writes, FileNames
<1>3. DOMAIN disk' = Nodes /\ \A m \in Nodes \ {n} : disk'[m] = disk[m]
    BY <1>1 DEF Written
<1>4. disk'[n] = [disk[n] EXCEPT ![file] = v]
    BY <1>1 DEF Written
<1>5. /\ DOMAIN disk'[n] = FileNames /\ disk'[n][file] = v
      /\ \A f \in FileNames \ {file} : disk'[n][f] = disk[n][f]
    BY <1>1, <1>2, <1>4
<1> QED
    BY <1>2, <1>3, <1>5 DEF FileNames

\* Only the files of the home n change.
OtherHomes(n) == DOMAIN disk' = Nodes /\ KeysGrow(n) /\ \A m \in Nodes \ {n} : disk'[m] = disk[m]
OtherCuts(n) == \A m \in Nodes \ {n}, f \in Writes : <<m, f>> \in cut => <<m, f>> \in cut'

\* Who writes is not one that others have certificates of, if none was renewed.
LEMMA WriterUnheld ==
    ASSUME Inv, NEW a \in Authorities, proc[a].pc \in Writes, renewed = {}
    PROVE  ~Held(a)
<1>1. Shape(a) /\ Serving(a)
    BY NodesAndProcesses DEF Inv
<1>2. Obtaining(a)
    BY <1>1 DEF Obtaining, Shape, AuthorityPcs, Writes
<1> QED
    BY <1>1, <1>2 DEF Serving, Held

LEMMA WritesHome ==
    ASSUME Inv, NEW x \in Processes, proc[x].pc \in Writes, Others(x),
           signed' = signed, renewed' = renewed, Counts',
           OtherHomes(HomeOf(x)), OtherCuts(HomeOf(x)),
           HomeOK(HomeOf(x))', Shape(x)', Remembers(x)',
           x \in Authorities => Serving(x)',
           x \in Authorities \ {Root} => ChainOK(x)',
           x \in Commands /\ renewed = {} => CommandOK(x)' /\ ClientOK(HomeOf(x))'
    PROVE  Inv'
<1> DEFINE n == HomeOf(x)
<1> USE NodesAndProcesses
<1>1. ASSUME NEW m \in Nodes, m # n
      PROVE  SameFiles(m) /\ SameCert(m) /\ SameChain(m) /\ HomeOK(m)'
    <2>1. HomeOK(m) /\ disk'[m] = disk[m]
        BY <1>1 DEF Inv, OtherHomes
    <2>2. SameFiles(m) /\ SameCert(m) /\ SameChain(m)
        BY <2>1 DEF SameFiles, SameCert, SameChain, KeysGrow, HomeOK
    <2> QED
        BY <2>1, <2>2, HomeKept
<1>2. \A m \in Nodes : HomeOK(m)'
    BY <1>1
<1>3. \A m \in Nodes : KeysGrow(m)
    BY <1>1 DEF OtherHomes, SameFiles
<1>4. ASSUME NEW y \in Processes
      PROVE  Shape(y)' /\ Remembers(y)'
    <2>1. CASE y # x
        <3>1. proc'[y] = proc[y] /\ Shape(y) /\ Remembers(y)
            BY <2>1 DEF Others, Inv
        <3> QED
            BY <3>1, <1>3, ShapeKept, RemembersKept
    <2> QED
        BY <2>1
<1>5. ASSUME NEW a \in Authorities
      PROVE  Serving(a)' /\ (a # Root => ChainOK(a)')
    <2>1. CASE a # x
        <3>1. a # n
            BY <2>1
        <3>2. proc'[a] = proc[a] /\ Serving(a) /\ (a # Root => ChainOK(a))
            BY <2>1 DEF Others, Inv
        <3>3. <<a, "cert">> \in cut => <<a, "cert">> \in cut'
            BY <3>1 DEF OtherCuts, Writes
        <3> QED
            BY <1>1, <3>1, <3>2, <3>3, ServingKept, ChainKept
    <2> QED
        BY <2>1
<1>6. ASSUME renewed' = {}
      PROVE  (\A p \in Commands : CommandOK(p)') /\ (\A h \in Clients : ClientOK(h)')
    <2>1. \A m \in Nodes \ {Root} : Parent[m] \in Nodes /\ Parent[m] \in Authorities
        BY ParentAbove
    <2>2. \A m \in Nodes \ {Root} : Parent[m] = n => ~Held(Parent[m])
        BY <1>6, <2>1, WriterUnheld
    <2>3. ASSUME NEW p \in Commands
          PROVE  CommandOK(p)'
        <3>1. CASE p = x
            BY <3>1, <1>6
        <3>2. CASE p # x
            <4>1. proc'[p] = proc[p] /\ CommandOK(p)
                BY <1>6, <3>2 DEF Others, Inv
            <4>2. CASE Holding(p)
                <5>1. Held(Parent[Home[p]])
                    BY <4>1, <4>2 DEF CommandOK
                <5>2. Parent[Home[p]] # n
                    BY <2>2, <5>1
                <5> QED
                    BY <1>1, <2>1, <4>1, <5>2, CommandKept
            <4>3. CASE ~Holding(p)
                BY <4>1, <4>3 DEF CommandOK, Holding
            <4> QED
                BY <4>2, <4>3
        <3> QED
            BY <3>1, <3>2
    <2>4. ASSUME NEW h \in Clients
          PROVE  ClientOK(h)'
        <3>1. CASE h = n
            BY <3>1, <1>6
        <3>2. CASE h # n /\ ~Held(h)
            BY <3>2, <1>1, HeldKept DEF ClientOK
        <3>3. CASE h # n /\ Held(h)
            <4>1. ClientOK(h) /\ SameFiles(h) /\ SameCert(h)
                BY <1>1, <1>6, <3>3 DEF Inv
            <4>2. Parent[h] # n
                BY <2>2, <3>3, <4>1 DEF ClientOK, FromParent
            <4>3. SameCert(Parent[h]) /\ SameChain(Parent[h])
                BY <1>1, <2>1, <4>2
            <4>4. disk'[h].cert = disk[h].cert /\ disk'[h].chain = disk[h].chain /\ disk'[h].ints = disk[h].ints
                BY <4>1 DEF SameFiles, SameCert, SameChain
            <4>5. FromParent(h, disk[h].cert)'
                BY <3>3, <4>1, <4>3, <4>4, FromParentKept DEF ClientOK
            <4>6. ASSUME NEW file \in {"chain", "ints"}
                  PROVE  (disk[h][file] = Kept(h, file))' \/ Due(h, file)'
                <5>1. disk[h][file] = Kept(h, file) \/ Due(h, file)
                    BY <3>3, <4>1 DEF ClientOK
                <5>2. disk'[h][file] = disk[h][file] /\ Kept(h, file)' = Kept(h, file)
                    BY <4>3, <4>4, KeptKept
                <5>3. <<h, file>> \in cut => <<h, file>> \in cut'
                    BY <3>3 DEF OtherCuts, Writes
                <5>4. ASSUME NEW p \in Commands, Home[p] = h, file \in ToSet(Remaining(p))
                      PROVE  file \in ToSet(Remaining(p))'
                    <6>1. proc'[p] = proc[p]
                        BY <3>3, <5>4 DEF Others
                    <6>2. Remaining(p)' = Remaining(p)
                        BY <6>1 DEF Remaining, Order
                    <6> QED
                        BY <5>4, <6>2
                <5> QED
                    BY <5>1, <5>2, <5>3, <5>4 DEF Due
            <4> QED
                BY <4>5, <4>6 DEF ClientOK
        <3> QED
            BY <3>1, <3>2, <3>3
    <2> QED
        BY <2>3, <2>4
<1>7. DOMAIN disk' = Nodes /\ DOMAIN proc' = Processes /\ \A c \in signed' : CertOK(c)
    BY DEF OtherHomes, Others, Inv
<1> QED
    BY <1>2, <1>4, <1>5, <1>6, <1>7 DEF Inv, CertOK, SelfSigned

-----------------------------------------------------------------------------
\* What WriteFile does, by the file that is written
LEMMA WriteFileIs ==
    ASSUME Inv, NEW x \in Processes, WriteFile(x)
    PROVE  /\ proc[x].pc \in Writes
           /\ Written(HomeOf(x), proc[x].pc, Content(x, proc[x].pc))
           /\ cut' = cut \ {<<HomeOf(x), proc[x].pc>>}
           /\ proc' = IF proc[x].pc # Final(x) THEN Goto(x, Following(x))
                      ELSE IF x \in Authorities THEN Goto(x, "signer") ELSE Ends(x)
           /\ UNCHANGED <<signed, spent, renewed, trouble>>
           /\ Counts' /\ OtherCuts(HomeOf(x))
<1>1. Shape(x)
    BY DEF Inv
<1>2. proc[x].pc \in Writes
    BY DEF WriteFile
<1>3. /\ Tail(Remaining(x)) # <<>> <=> proc[x].pc # Final(x)
      /\ proc[x].pc # Final(x) => Head(Tail(Remaining(x))) = Following(x)
    BY <1>1, <1>2, RemainingIs
<1>4. cut' = cut \ {<<HomeOf(x), proc[x].pc>>} /\ UNCHANGED <<signed, spent, renewed, trouble>>
    BY DEF WriteFile
<1>5. Counts' /\ OtherCuts(HomeOf(x))
    BY <1>4 DEF Inv, Counts, OtherCuts
<1> QED
    BY <1>2, <1>3, <1>4, <1>5 DEF WriteFile, Written

\* Going on to another step of the same command or start
LEMMA GoesTo ==
    ASSUME Inv, NEW x \in Processes, NEW pc, proc' = Goto(x, pc)
    PROVE  /\ Others(x) /\ DOMAIN proc'[x] = Fields /\ proc'[x].pc = pc
           /\ proc'[x].cmd = proc[x].cmd /\ proc'[x].key = proc[x].key
           /\ proc'[x].cert = proc[x].cert /\ proc'[x].chain = proc[x].chain
<1>1. DOMAIN proc = Processes /\ DOMAIN proc[x] = Fields
    BY DEF Inv, Shape
<1> QED
    BY <1>1 DEF Goto, Others, Fields

LEMMA WriteChainInv ==
    ASSUME Inv, NEW a \in Authorities, WriteFile(a), proc[a].pc = "chain"
    PROVE  Inv'
<1> DEFINE v == Concat(proc[a].chain, proc[a].cert, a \in ParentFirst)
<1>1. a \in Processes /\ a \in Nodes /\ HomeOf(a) = a /\ a \notin Commands /\ a \notin Clients
    BY NodesAndProcesses
<1>2. Shape(a) /\ Remembers(a) /\ Serving(a) /\ HomeOK(a) /\ AuthorityHomeOK(a) /\ a # Root
    BY <1>1 DEF Inv, HomeOK, Shape
<1>3. /\ Written(a, "chain", v) /\ proc' = Goto(a, "cert")
      /\ proc[a].pc \in Writes /\ UNCHANGED <<signed, spent, renewed, trouble>>
      /\ Counts' /\ OtherCuts(a)
    BY <1>1, WriteFileIs DEF Content, Final, Following
<1>4. /\ Others(a) /\ DOMAIN proc'[a] = Fields /\ proc'[a].pc = "cert" /\ proc'[a].cmd = proc[a].cmd
      /\ proc'[a].cert = proc[a].cert /\ proc'[a].chain = proc[a].chain
    BY <1>1, <1>3, GoesTo
<1>5. /\ DOMAIN disk' = Nodes /\ \A m \in Nodes \ {a} : disk'[m] = disk[m]
      /\ DOMAIN disk'[a] = FileNames /\ disk'[a].chain = v
      /\ disk'[a].cert = disk[a].cert /\ disk'[a].ints = disk[a].ints
      /\ disk'[a].keys = disk[a].keys /\ disk'[a].keyfile = disk[a].keyfile
    <2> HIDE DEF v
    <2>1. "chain" \in Writes
        BY DEF Writes
    <2>2. /\ DOMAIN disk' = Nodes /\ \A m \in Nodes \ {a} : disk'[m] = disk[m]
          /\ DOMAIN disk'[a] = FileNames /\ disk'[a]["chain"] = v
          /\ \A f \in FileNames \ {"chain"} : disk'[a][f] = disk[a][f]
        BY <1>1, <1>3, <2>1, FileWritten
    <2> QED
        BY <2>2 DEF FileNames
<1>6. /\ ChainAbove(proc[a].chain, a) /\ proc[a].cert \in signed /\ proc[a].cert.subject = a
      /\ proc[a].cert.key \in disk[a].keys /\ proc[a].cmd # "getcacert"
    BY <1>1, <1>2 DEF Remembers, Holding, Writes, Shape
<1>7. ChainFileOK(a, v)
    BY <1>6, ConcatFile
<1> HIDE DEF v
<1>8. HomeOK(a)'
    <2>1. ChainFileOK(a, disk[a].chain)'
        BY <1>3, <1>5, <1>7 DEF ChainFileOK
    <2> QED
        BY <1>1, <1>2, <1>3, <1>5, <2>1 DEF HomeOK, AuthorityHomeOK, Held
<1>9. Shape(a)'
    BY <1>1, <1>2, <1>4 DEF Shape, AuthorityPcs
<1>10. Remembers(a)'
    BY <1>1, <1>3, <1>4, <1>5, <1>6 DEF Remembers, At, ChainAbove
<1>11. Serving(a)'
    BY <1>2, <1>3, <1>4, <1>5 DEF Serving, Obtaining, Running, At
<1>12. ChainOK(a)'
    <2>1. ChainOK(a) /\ Holding(a) /\ Quiet(a)' = Quiet(a)
        BY <1>2, <1>3 DEF Inv, Holding, Quiet
    <2>2. Holding(a)' /\ Quiet(a)' => Vouches(proc[a].chain, proc[a].cert)'
        BY <1>4, <2>1 DEF ChainOK
    <2>3. Belongs(disk[a].chain, proc[a].cert, a)'
        <3>1. proc[a].cert \in ToSet(v)
            BY <1>6, Before, After DEF v, Concat, ChainAbove
        <3>2. Quiet(a) => Leads(v, proc[a].cert)
            BY <1>6, <2>1, ConcatVouched DEF v, ChainOK, ChainAbove
        <3> QED
            BY <1>4, <1>5, <2>1, <3>1, <3>2 DEF Belongs
    <2> QED
        BY <1>4, <2>2, <2>3 DEF ChainOK, At
<1>13. OtherHomes(a)
    BY <1>5 DEF OtherHomes, KeysGrow
<1> QED
    BY <1>1, <1>2, <1>3, <1>4, <1>8, <1>9, <1>10, <1>11, <1>12, <1>13, WritesHome

\* The fields of the home after its certificate was written
LEMMA CertWritten ==
    ASSUME Inv, NEW n \in Nodes, NEW v, Written(n, "cert", v)
    PROVE  /\ OtherHomes(n) /\ DOMAIN disk'[n] = FileNames /\ disk'[n].cert = v
           /\ disk'[n].chain = disk[n].chain /\ disk'[n].ints = disk[n].ints
           /\ disk'[n].keys = disk[n].keys /\ disk'[n].keyfile = disk[n].keyfile
<1>1. "cert" \in Writes
    BY DEF Writes
<1>2. /\ DOMAIN disk' = Nodes /\ \A m \in Nodes \ {n} : disk'[m] = disk[m]
      /\ DOMAIN disk'[n] = FileNames /\ disk'[n]["cert"] = v
      /\ \A f \in FileNames \ {"cert"} : disk'[n][f] = disk[n][f]
    BY <1>1, FileWritten
<1> QED
    BY <1>2 DEF FileNames, OtherHomes, KeysGrow

\* and after another file was written
LEMMA OtherWritten ==
    ASSUME Inv, NEW n \in Nodes, NEW file \in {"chain", "ints"}, NEW v, Written(n, file, v)
    PROVE  /\ OtherHomes(n) /\ DOMAIN disk'[n] = FileNames /\ disk'[n][file] = v
           /\ disk'[n].cert = disk[n].cert
           /\ \A f \in {"chain", "ints"} \ {file} : disk'[n][f] = disk[n][f]
           /\ disk'[n].keys = disk[n].keys /\ disk'[n].keyfile = disk[n].keyfile
<1>1. file \in Writes
    BY DEF Writes
<1>2. /\ DOMAIN disk' = Nodes /\ \A m \in Nodes \ {n} : disk'[m] = disk[m]
      /\ DOMAIN disk'[n] = FileNames /\ disk'[n][file] = v
      /\ \A f \in FileNames \ {file} : disk'[n][f] = disk[n][f]
    BY <1>1, FileWritten
<1>3. /\ "cert" \in FileNames \ {file} /\ "keys" \in FileNames \ {file} /\ "keyfile" \in FileNames \ {file}
      /\ {"chain", "ints"} \ {file} \subseteq FileNames \ {file}
    BY DEF FileNames
<1> QED
    BY <1>2, <1>3 DEF OtherHomes, KeysGrow

LEMMA AuthorityCertInv ==
    ASSUME Inv, NEW a \in Authorities, WriteFile(a), proc[a].pc = "cert"
    PROVE  Inv'
<1>1. a \in Processes /\ a \in Nodes /\ HomeOf(a) = a /\ a \notin Commands /\ a \notin Clients
    BY NodesAndProcesses
<1>2. Shape(a) /\ Remembers(a) /\ HomeOK(a) /\ AuthorityHomeOK(a)
    BY <1>1 DEF Inv, HomeOK
<1>3. /\ Written(a, "cert", proc[a].cert) /\ proc' = Goto(a, "signer")
      /\ proc[a].pc \in Writes /\ UNCHANGED <<signed, spent, renewed, trouble>>
      /\ Counts' /\ OtherCuts(a)
    BY <1>1, WriteFileIs DEF Content, Final
<1>4. /\ Others(a) /\ DOMAIN proc'[a] = Fields /\ proc'[a].pc = "signer" /\ proc'[a].cmd = proc[a].cmd
    BY <1>1, <1>3, GoesTo
<1>5. /\ OtherHomes(a) /\ DOMAIN disk'[a] = FileNames /\ disk'[a].cert = proc[a].cert
      /\ disk'[a].chain = disk[a].chain /\ disk'[a].ints = disk[a].ints
      /\ disk'[a].keys = disk[a].keys /\ disk'[a].keyfile = disk[a].keyfile
    BY <1>1, <1>3, CertWritten
<1>6. proc[a].cert \in signed /\ proc[a].cert.subject = a /\ proc[a].cert.key \in disk[a].keys
    BY <1>1, <1>2, <1>3 DEF Remembers, Holding, Shape
<1>7. HomeOK(a)'
    <2>1. AuthorityHomeOK(a)'
        BY <1>2, <1>3, <1>5, ChainFileKept DEF AuthorityHomeOK
    <2> QED
        BY <1>1, <1>3, <1>5, <1>6, <2>1 DEF HomeOK
<1>8. Shape(a)'
    BY <1>1, <1>2, <1>4 DEF Shape, AuthorityPcs
<1>9. Remembers(a)' /\ ~Holding(a)' /\ ~At(a, "cert")' /\ Serving(a)'
    BY <1>4 DEF Remembers, At, Holding, Writes, Serving, Running, Obtaining
<1>10. ASSUME a # Root
       PROVE  ChainOK(a)'
    <2>1. Belongs(disk[a].chain, proc[a].cert, a)
        BY <1>10 DEF Inv, ChainOK, At
    <2>2. Belongs(disk[a].chain, disk[a].cert, a)'
        BY <1>3, <1>5, <2>1, QuietKept DEF Belongs
    <2> QED
        BY <1>9, <2>2 DEF ChainOK
<1> QED
    BY <1>1, <1>3, <1>4, <1>5, <1>7, <1>8, <1>9, <1>10, WritesHome

-----------------------------------------------------------------------------
\* What the parent holds and hands out does not change when a client writes.
LEMMA ParentStays ==
    ASSUME NEW h \in Clients, OtherHomes(h)
    PROVE  SameCert(Parent[h]) /\ SameChain(Parent[h])
<1>1. Parent[h] \in Nodes \ {h}
    BY NodesAndProcesses, ParentAbove
<1> QED
    BY <1>1 DEF OtherHomes, SameCert, SameChain

LEMMA CommandCertInv ==
    ASSUME Inv, NEW p \in Commands, WriteFile(p), proc[p].pc = "cert"
    PROVE  Inv'
<1> DEFINE h == Home[p]
<1>1. /\ p \in Processes /\ h \in Nodes /\ h \in Clients /\ h \notin Authorities /\ HomeOf(p) = h
      /\ p \notin Authorities /\ p # Root
    BY NodesAndProcesses
<1>2. Shape(p) /\ Remembers(p) /\ HomeOK(h) /\ ClientHomeOK(h)
    BY <1>1 DEF Inv, HomeOK
<1>3. /\ Written(h, "cert", proc[p].cert) /\ proc' = Goto(p, "chain")
      /\ proc[p].pc \in Writes /\ UNCHANGED <<signed, spent, renewed, trouble>>
      /\ Counts' /\ OtherCuts(h)
    BY <1>1, WriteFileIs DEF Content, Final, Following
<1>4. /\ Others(p) /\ DOMAIN proc'[p] = Fields /\ proc'[p].pc = "chain" /\ proc'[p].cmd = proc[p].cmd
      /\ proc'[p].cert = proc[p].cert /\ proc'[p].chain = proc[p].chain
    BY <1>1, <1>3, GoesTo
<1>5. /\ OtherHomes(h) /\ DOMAIN disk'[h] = FileNames /\ disk'[h].cert = proc[p].cert
      /\ disk'[h].chain = disk[h].chain /\ disk'[h].ints = disk[h].ints
      /\ disk'[h].keys = disk[h].keys /\ disk'[h].keyfile = disk[h].keyfile
    BY <1>1, <1>3, CertWritten
<1>6. /\ Holding(p) /\ Holding(p)' /\ proc[p].cmd # "getcacert"
      /\ proc[p].cert \in signed /\ proc[p].cert.subject = h /\ proc[p].cert.key \in disk[h].keys
      /\ ChainAbove(proc[p].chain, h)
    BY <1>1, <1>2, <1>3, <1>4 DEF Remembers, Holding, Shape, Writes
<1>7. HomeOK(h)'
    <2>1. ClientHomeOK(h)'
        BY <1>2, <1>3, <1>5 DEF ClientHomeOK
    <2> QED
        BY <1>1, <1>3, <1>5, <1>6, <2>1 DEF HomeOK
<1>8. Shape(p)'
    BY <1>1, <1>2, <1>4 DEF Shape, CommandPcs
<1>9. Remembers(p)'
    BY <1>1, <1>3, <1>4, <1>5, <1>6 DEF Remembers, At, ChainAbove
<1>10. ASSUME renewed = {}
       PROVE  CommandOK(p)' /\ ClientOK(h)'
    <2>1. CommandOK(p) /\ SameCert(Parent[h]) /\ SameChain(Parent[h])
        BY <1>1, <1>5, <1>10, ParentStays DEF Inv
    <2>2. /\ Held(Parent[h])' /\ ChainOf(Parent[h])' = ChainOf(Parent[h]) /\ ChainOf(Parent[h]) # NoFile
          /\ proc[p].chain = ChainOf(Parent[h])
        BY <1>6, <2>1, HeldKept, ChainOfKept DEF CommandOK
    <2>3. IssuedBy(proc[p].cert, disk[Parent[h]].cert) /\ disk'[Parent[h]].cert = disk[Parent[h]].cert
        BY <1>6, <2>1 DEF CommandOK, FromParent, SameCert
    <2>4. FromParent(h, proc[p].cert)' /\ FromParent(h, disk[h].cert)'
        BY <1>4, <1>5, <2>2, <2>3 DEF FromParent
    <2>5. CommandOK(p)'
        BY <1>4, <2>2, <2>4 DEF CommandOK
    <2>6. ToSet(Remaining(p))' = DueFiles(p)'
        BY <1>1, <1>4, <1>8, DueThen DEF DueIs, Writes
    <2>7. \A file \in {"chain", "ints"} : Due(h, file)'
        BY <1>1, <1>4, <2>6 DEF Due, DueFiles
    <2> QED
        BY <2>4, <2>5, <2>7 DEF ClientOK
<1> QED
    BY <1>1, <1>3, <1>4, <1>5, <1>7, <1>8, <1>9, <1>10, WritesHome

\* What is due of another process stays due.
LEMMA DueOthers ==
    ASSUME NEW x \in Processes, Others(x), NEW h, NEW file, Due(h, file),
           <<h, file>> \in cut => <<h, file>> \in cut',
           x \in Commands /\ HomeOf(x) = h => file \notin ToSet(Remaining(x)) \/ Due(h, file)'
    PROVE  Due(h, file)'
<1>1. CASE <<h, file>> \in cut
    BY <1>1 DEF Due
<1>2. ASSUME NEW p \in Commands, Home[p] = h, file \in ToSet(Remaining(p))
      PROVE  Due(h, file)'
    <2>1. CASE p = x
        BY <1>2, <2>1, NodesAndProcesses
    <2>2. CASE p # x
        <3>1. proc'[p] = proc[p]
            BY <2>2, NodesAndProcesses DEF Others
        <3>2. Remaining(p)' = Remaining(p)
            BY <3>1 DEF Remaining, Order
        <3> QED
            BY <1>2, <3>2 DEF Due
    <2> QED
        BY <2>1, <2>2
<1> QED
    BY <1>1, <1>2 DEF Due

LEMMA CommandChainInv ==
    ASSUME Inv, NEW p \in Commands, WriteFile(p), proc[p].pc = "chain"
    PROVE  Inv'
<1> DEFINE h == Home[p]
<1>1. /\ p \in Processes /\ h \in Nodes /\ h \in Clients /\ h \notin Authorities /\ HomeOf(p) = h
      /\ p \notin Authorities /\ p # Root
    BY NodesAndProcesses
<1>2. Shape(p) /\ Remembers(p) /\ HomeOK(h) /\ ClientHomeOK(h)
    BY <1>1 DEF Inv, HomeOK
<1>3. /\ Written(h, "chain", Roots(proc[p].chain)) /\ proc' = Goto(p, "ints")
      /\ proc[p].pc \in Writes /\ UNCHANGED <<signed, spent, renewed, trouble>>
      /\ Counts' /\ OtherCuts(h) /\ cut' = cut \ {<<h, "chain">>}
    BY <1>1, WriteFileIs DEF Content, Final, Following
<1>4. /\ Others(p) /\ DOMAIN proc'[p] = Fields /\ proc'[p].pc = "ints" /\ proc'[p].cmd = proc[p].cmd
      /\ proc'[p].cert = proc[p].cert /\ proc'[p].chain = proc[p].chain
    BY <1>1, <1>3, GoesTo
<1>5. /\ OtherHomes(h) /\ DOMAIN disk'[h] = FileNames /\ disk'[h].chain = Roots(proc[p].chain)
      /\ disk'[h].cert = disk[h].cert /\ disk'[h].ints = disk[h].ints
      /\ disk'[h].keys = disk[h].keys /\ disk'[h].keyfile = disk[h].keyfile
    BY <1>1, <1>3, OtherWritten
<1>6. Holding(p) /\ Holding(p)' /\ ChainAbove(proc[p].chain, h)
    BY <1>1, <1>2, <1>3, <1>4 DEF Remembers, Holding, Writes
<1>7. HomeOK(h)'
    <2>1. Roots(proc[p].chain) \subseteq signed
        BY <1>6 DEF Roots, ToSet, ChainAbove
    <2>2. ClientHomeOK(h)'
        BY <1>2, <1>3, <1>5, <2>1 DEF ClientHomeOK
    <2> QED
        BY <1>1, <1>2, <1>3, <1>5, <2>2 DEF HomeOK, Held
<1>8. Shape(p)'
    BY <1>1, <1>2, <1>4 DEF Shape, CommandPcs
<1>9. Remembers(p)'
    BY <1>1, <1>2, <1>3, <1>4, <1>5, <1>6 DEF Remembers, At, ChainAbove
<1>10. ASSUME renewed = {}
       PROVE  CommandOK(p)' /\ ClientOK(h)'
    <2>1. CommandOK(p) /\ ClientOK(h) /\ SameCert(Parent[h]) /\ SameChain(Parent[h])
        BY <1>1, <1>5, <1>10, ParentStays DEF Inv
    <2>2. /\ Held(Parent[h])' /\ ChainOf(Parent[h])' = ChainOf(Parent[h]) /\ ChainOf(Parent[h]) # NoFile
          /\ proc[p].chain = ChainOf(Parent[h])
        BY <1>6, <2>1, HeldKept, ChainOfKept DEF CommandOK
    <2>3. proc[p].cmd # "getcacert" => FromParent(h, proc[p].cert)'
        BY <1>4, <1>6, <2>1, FromParentKept DEF CommandOK
    <2>4. CommandOK(p)'
        BY <1>4, <2>2, <2>3 DEF CommandOK
    <2>5. ASSUME Held(h)'
          PROVE  FromParent(h, disk[h].cert)'
        <3>1. FromParent(h, disk[h].cert)
            BY <1>5, <2>1, <2>5, HeldKept DEF ClientOK, SameCert
        <3> QED
            BY <1>5, <2>1, <3>1, FromParentKept
    <2>6. Due(h, "ints")'
        <3>1. ToSet(Remaining(p))' = DueFiles(p)'
            BY <1>1, <1>4, <1>8, DueThen DEF DueIs, Writes
        <3> QED
            BY <1>1, <1>4, <3>1 DEF Due, DueFiles
    <2>7. (disk[h].chain = Kept(h, "chain"))'
        BY <1>5, <2>2 DEF Kept
    <2>8. ClientOK(h)'
        BY <2>5, <2>6, <2>7 DEF ClientOK
    <2> QED
        BY <2>4, <2>8
<1> QED
    BY <1>1, <1>3, <1>4, <1>5, <1>7, <1>8, <1>9, <1>10, WritesHome

LEMMA CommandIntsInv ==
    ASSUME Inv, NEW p \in Commands, WriteFile(p), proc[p].pc = "ints"
    PROVE  Inv'
<1> DEFINE h == Home[p]
<1>1. /\ p \in Processes /\ h \in Nodes /\ h \in Clients /\ h \notin Authorities /\ HomeOf(p) = h
      /\ p \notin Authorities /\ p # Root
    BY NodesAndProcesses
<1>2. Shape(p) /\ Remembers(p) /\ HomeOK(h) /\ ClientHomeOK(h)
    BY <1>1 DEF Inv, HomeOK
<1>3. /\ Written(h, "ints", Intermediates(proc[p].chain)) /\ proc' = Ends(p)
      /\ proc[p].pc \in Writes /\ UNCHANGED <<signed, spent, renewed, trouble>>
      /\ Counts' /\ OtherCuts(h) /\ cut' = cut \ {<<h, "ints">>}
    BY <1>1, WriteFileIs DEF Content, Final
<1>4. Others(p) /\ LocalOK(p)'
    <2>1. DOMAIN proc = Processes
        BY DEF Inv
    <2>2. Others(p) /\ Rests(p)'
        BY <1>1, <1>3, <2>1, EndsRests
    <2> QED
        BY <1>1, <2>2, RestsLocal
<1>5. /\ OtherHomes(h) /\ DOMAIN disk'[h] = FileNames /\ disk'[h].ints = Intermediates(proc[p].chain)
      /\ disk'[h].cert = disk[h].cert /\ disk'[h].chain = disk[h].chain
      /\ disk'[h].keys = disk[h].keys /\ disk'[h].keyfile = disk[h].keyfile
    BY <1>1, <1>3, OtherWritten
<1>6. Holding(p) /\ ChainAbove(proc[p].chain, h)
    BY <1>1, <1>2, <1>3 DEF Remembers, Holding
<1>7. HomeOK(h)'
    <2>1. Intermediates(proc[p].chain) \subseteq signed
        BY <1>6 DEF Intermediates, ToSet, ChainAbove
    <2>2. ClientHomeOK(h)'
        BY <1>2, <1>3, <1>5, <2>1 DEF ClientHomeOK
    <2> QED
        BY <1>1, <1>2, <1>3, <1>5, <2>2 DEF HomeOK, Held
<1>8. Shape(p)' /\ Remembers(p)'
    BY <1>4 DEF LocalOK
<1>9. ASSUME renewed = {}
      PROVE  CommandOK(p)' /\ ClientOK(h)'
    <2>1. CommandOK(p) /\ ClientOK(h) /\ SameCert(Parent[h]) /\ SameChain(Parent[h])
        BY <1>1, <1>5, <1>9, ParentStays DEF Inv
    <2>2. ChainOf(Parent[h])' = ChainOf(Parent[h]) /\ proc[p].chain = ChainOf(Parent[h])
        BY <1>6, <2>1, ChainOfKept DEF CommandOK
    <2>3. CommandOK(p)'
        BY <1>1, <1>3, <1>4, <1>9 DEF LocalOK
    <2>4. ASSUME Held(h)'
          PROVE  FromParent(h, disk[h].cert)' /\ ((disk[h].chain = Kept(h, "chain"))' \/ Due(h, "chain")')
        <3>1. Held(h) /\ FromParent(h, disk[h].cert) /\ (disk[h].chain = Kept(h, "chain") \/ Due(h, "chain"))
            BY <1>5, <2>1, <2>4, HeldKept DEF ClientOK, SameCert
        <3>2. FromParent(h, disk[h].cert)'
            BY <1>5, <2>1, <3>1, FromParentKept
        <3>3. ToSet(Remaining(p)) = {"ints"}
            BY <1>1, <1>2, <1>3, RemainingIs DEF DueFiles
        <3>4. <<h, "chain">> \in cut => <<h, "chain">> \in cut'
            BY <1>3
        <3>5. Due(h, "chain") => Due(h, "chain")'
            BY <1>1, <1>4, <3>3, <3>4, DueOthers
        <3> QED
            BY <1>5, <2>1, <3>1, <3>2, <3>5, KeptKept
    <2>5. (disk[h].ints = Kept(h, "ints"))'
        BY <1>5, <2>2 DEF Kept
    <2>6. ClientOK(h)'
        BY <2>4, <2>5 DEF ClientOK
    <2> QED
        BY <2>3, <2>6
<1> QED
    BY <1>1, <1>3, <1>4, <1>5, <1>7, <1>8, <1>9, WritesHome

LEMMA WriteFileInv ==
    ASSUME Inv, NEW x \in Processes, WriteFile(x)
    PROVE  Inv'
<1>1. Shape(x) /\ proc[x].pc \in Writes /\ (x \in Authorities \/ x \in Commands)
    BY NodesAndProcesses DEF Inv, WriteFile
<1>2. CASE x \in Authorities
    <2>1. proc[x].pc \in {"chain", "cert"}
        BY <1>1, <1>2 DEF Shape, AuthorityPcs, Writes
    <2> QED
        BY <1>2, <2>1, WriteChainInv, AuthorityCertInv
<1>3. CASE x \in Commands
    BY <1>1, <1>3, CommandCertInv, CommandChainInv, CommandIntsInv DEF Writes
<1> QED
    BY <1>1, <1>2, <1>3

-----------------------------------------------------------------------------
(***************************************************************************)
(* Interruptions                                                           *)
(***************************************************************************)

\* What an interruption may do to the file that is being written
LEMMA Spoilt ==
    ASSUME Inv, NEW x \in Processes, Interrupt(x), proc[x].pc \in Writes
    PROVE  LET h == HomeOf(x)
           IN  /\ OtherHomes(h) /\ DOMAIN disk'[h] = FileNames
               /\ disk'[h].keys = disk[h].keys /\ disk'[h].keyfile = disk[h].keyfile
               /\ disk'[h].cert = disk[h].cert \/ disk'[h].cert = Torn
               /\ \A f \in {"chain", "ints"} :
                     \/ disk'[h][f] = disk[h][f]
                     \/ f = proc[x].pc /\ disk'[h][f] = Emptied(x, f)
<1> DEFINE h == HomeOf(x)
<1>1. h \in Nodes /\ HomeOK(h) /\ DOMAIN disk = Nodes
    BY NodesAndProcesses DEF Inv
<1>2. CASE UNCHANGED disk
    BY <1>1, <1>2 DEF OtherHomes, KeysGrow, HomeOK
<1>3. CASE Written(h, proc[x].pc, Emptied(x, proc[x].pc))
    <2>1. CASE proc[x].pc = "cert"
        <3>1. Written(h, "cert", Torn)
            BY <1>3, <2>1 DEF Emptied
        <3>2. /\ OtherHomes(h) /\ DOMAIN disk'[h] = FileNames /\ disk'[h].cert = Torn
              /\ disk'[h].chain = disk[h].chain /\ disk'[h].ints = disk[h].ints
              /\ disk'[h].keys = disk[h].keys /\ disk'[h].keyfile = disk[h].keyfile
            BY <1>1, <3>1, CertWritten
        <3> QED
            BY <3>2
    <2>2. CASE proc[x].pc # "cert"
        <3>1. proc[x].pc \in {"chain", "ints"}
            BY <2>2 DEF Writes
        <3> QED
            BY <1>1, <1>3, <3>1, OtherWritten
    <2> QED
        BY <2>1, <2>2
<1> QED
    BY <1>2, <1>3 DEF Interrupt, Written

LEMMA InterruptInv ==
    ASSUME Inv, NEW x \in Processes, Interrupt(x)
    PROVE  Inv'
<1> DEFINE h == HomeOf(x)
<1>1. /\ DOMAIN proc = Processes /\ Shape(x) /\ h \in Nodes /\ HomeOK(h) /\ (x \in Authorities \/ x \in Commands)
      /\ Trouble /\ UNCHANGED <<signed, spent, renewed>>
      /\ cut' = cut \cup {<<h, due>> : due \in ToSet(Remaining(x))}
    BY NodesAndProcesses DEF Inv, Interrupt
<1>2. Others(x) /\ Rests(x)'
    <2>1. PICK end \in {Died(x), Ended(x)} : proc' = [proc EXCEPT ![x] = end]
        BY DEF Interrupt
    <2> QED
        BY <1>1, <2>1, EndRests
<1>3. LocalOK(x)'
    BY <1>2, RestsLocal
<1>4. CASE proc[x].pc \notin Writes
    <2>1. UNCHANGED disk
        BY <1>4 DEF Interrupt
    <2>2. cut' = cut
        BY <1>1, <1>4, RemainingNone
    <2> QED
        BY <1>1, <1>2, <1>4, <2>1, <2>2, ComesToRest
<1>5. CASE proc[x].pc \in Writes
    <2>1. /\ OtherHomes(h) /\ DOMAIN disk'[h] = FileNames
          /\ disk'[h].keys = disk[h].keys /\ disk'[h].keyfile = disk[h].keyfile
          /\ disk'[h].cert = disk[h].cert \/ disk'[h].cert = Torn
          /\ \A f \in {"chain", "ints"} :
                \/ disk'[h][f] = disk[h][f]
                \/ f = proc[x].pc /\ disk'[h][f] = Emptied(x, f)
        BY <1>5, Spoilt
    <2>2. ToSet(Remaining(x)) = DueFiles(x) /\ DueFiles(x) \subseteq Writes
        BY <1>1, <1>5, RemainingIs DEF DueFiles, Writes
    <2>3. Counts' /\ OtherCuts(h)
        <3>1. trouble' \in 0 .. MaxTrouble
            BY <1>1, CredentialsAssumption DEF Inv, Counts, Trouble
        <3>2. cut' \subseteq Nodes \X Writes
            BY <1>1, <2>2 DEF Inv, Counts
        <3>3. OtherCuts(h)
            BY <1>1 DEF OtherCuts
        <3> QED
            BY <1>1, <3>1, <3>2, <3>3 DEF Inv, Counts
    <2>4. Held(h)' => Held(h) /\ disk'[h].cert = disk[h].cert
        BY <2>1 DEF Held
    <2>5. ASSUME x \in Authorities
          PROVE  HomeOK(h)' /\ ~(Held(h)' /\ ~HalfRenewed(h)')
        <3>1. h = x /\ h \notin Clients /\ AuthorityHomeOK(h) /\ proc[x].pc \in {"chain", "cert"}
            BY <1>1, <1>5, <2>5, NodesAndProcesses DEF HomeOK, Shape, AuthorityPcs, Writes
        <3>2. proc[x].pc = "chain" => h # Root
            BY <1>1, <3>1 DEF Shape
        <3>3. disk'[h].ints = disk[h].ints
            BY <2>1, <3>1
        <3>4. disk'[h].chain = disk[h].chain \/ (h # Root /\ disk'[h].chain = <<>>)
            BY <2>1, <2>5, <3>2 DEF Emptied
        <3>5. ASSUME disk'[h].chain = disk[h].chain
              PROVE  HomeOK(h)'
            BY <1>1, <2>1, <2>4, <3>1, <3>3, <3>5, ChainFileKept DEF HomeOK, AuthorityHomeOK
        <3>6. ASSUME h # Root, disk'[h].chain = <<>>
              PROVE  HomeOK(h)'
            <4>1. <<>> \in Seq(signed') /\ ToSet(<<>>) = {}
                BY DEF ToSet
            <4>2. ChainFileOK(h, disk[h].chain)'
                BY <3>6, <4>1 DEF ChainFileOK
            <4>3. AuthorityHomeOK(h)'
                BY <3>1, <3>3, <3>6, <4>2 DEF AuthorityHomeOK
            <4> QED
                BY <1>1, <2>1, <2>4, <3>1, <4>3 DEF HomeOK
        <3>7. "cert" \in ToSet(Remaining(x))
            BY <2>2, <2>5 DEF DueFiles
        <3>8. <<h, "cert">> \in cut'
            BY <1>1, <3>7
        <3>9. h \notin renewed => ~Held(h)
            BY <2>5, <3>1 DEF Inv, Serving, Obtaining, Held
        <3>10. ~(Held(h)' /\ ~HalfRenewed(h)')
            BY <1>1, <2>4, <3>8, <3>9 DEF HalfRenewed
        <3> QED
            BY <3>4, <3>5, <3>6, <3>10
    <2>6. ASSUME x \in Authorities \ {Root}
          PROVE  ChainOK(x)'
        BY <1>3, <2>5, <2>6, NodesAndProcesses DEF LocalOK, ChainOK
    <2>7. ASSUME x \in Commands
          PROVE  HomeOK(h)' /\ (renewed = {} => ClientOK(h)')
        <3>1. h \in Clients /\ h \notin Authorities /\ x \notin Authorities /\ h = Home[x] /\ ClientHomeOK(h)
            BY <1>1, <2>7, NodesAndProcesses DEF HomeOK
        <3>2. \A f \in {"chain", "ints"} : Emptied(x, f) = {}
            BY <3>1 DEF Emptied
        <3>3. ClientHomeOK(h)'
            BY <1>1, <2>1, <3>1, <3>2 DEF ClientHomeOK
        <3>4. HomeOK(h)'
            BY <1>1, <2>1, <2>4, <3>1, <3>3 DEF HomeOK
        <3>5. ASSUME renewed = {}, Held(h)'
              PROVE  /\ FromParent(h, disk[h].cert)'
                     /\ \A f \in {"chain", "ints"} : (disk[h][f] = Kept(h, f))' \/ Due(h, f)'
            <4>1. /\ SameCert(Parent[h]) /\ SameChain(Parent[h]) /\ ClientOK(h)
                  /\ Held(h) /\ disk'[h].cert = disk[h].cert
                BY <2>1, <2>4, <3>1, <3>5, ParentStays DEF Inv
            <4>2. FromParent(h, disk[h].cert)'
                BY <4>1, FromParentKept DEF ClientOK
            <4>3. ASSUME NEW f \in {"chain", "ints"}
                  PROVE  (disk[h][f] = Kept(h, f))' \/ Due(h, f)'
                <5>1. CASE f \in ToSet(Remaining(x))
                    BY <1>1, <5>1 DEF Due
                <5>2. CASE f \notin ToSet(Remaining(x))
                    <6>1. f # proc[x].pc
                        BY <1>5, <2>2, <3>1, <5>2 DEF DueFiles, Writes
                    <6>2. disk'[h][f] = disk[h][f] /\ Kept(h, f)' = Kept(h, f)
                        BY <2>1, <4>1, <6>1, KeptKept
                    <6>3. <<h, f>> \in cut => <<h, f>> \in cut'
                        BY <1>1
                    <6>4. Due(h, f) => Due(h, f)'
                        BY <1>2, <5>2, <6>3, DueOthers
                    <6>5. disk[h][f] = Kept(h, f) \/ Due(h, f)
                        BY <4>1 DEF ClientOK
                    <6> QED
                        BY <6>2, <6>4, <6>5
                <5> QED
                    BY <5>1, <5>2
            <4> QED
                BY <4>2, <4>3
        <3> QED
            BY <3>4, <3>5 DEF ClientOK
    <2>8. HomeOK(h)' /\ Shape(x)' /\ Remembers(x)' /\ (x \in Authorities => Serving(x)')
        BY <1>1, <1>3, <2>5, <2>7 DEF LocalOK
    <2>9. x \in Commands /\ renewed = {} => CommandOK(x)' /\ ClientOK(h)'
        BY <1>1, <1>3, <2>7 DEF LocalOK
    <2> HIDE DEF h
    <2> QED
        BY <1>1, <1>2, <1>5, <2>1, <2>3, <2>6, <2>8, <2>9, WritesHome DEF h
<1> QED
    BY <1>4, <1>5

-----------------------------------------------------------------------------
(***************************************************************************)
(* The invariant holds                                                     *)
(***************************************************************************)

LEMMA GivenOK ==
    ASSUME NEW a \in Authorities
    PROVE  /\ GivenCert(a).subject = a /\ GivenCert(a).key = FirstKey(a)
           /\ CertOK(GivenCert(a))
<1>1. a \in Nodes /\ (a # Root => Parent[a] \in Authorities)
    BY NodesAndProcesses, ParentAbove
<1> QED
    BY <1>1 DEF GivenCert, CertOK, SelfSigned

LEMMA InitInv ==
    ASSUME Init
    PROVE  Inv
<1> USE NodesAndProcesses
<1>1. PICK given \in SUBSET Authorities :
          /\ disk = [n \in Nodes |-> IF n \in given THEN Files(FirstKey(n), GivenCert(n))
                                     ELSE Files(NoFile, NoFile)]
          /\ signed = {GivenCert(a) : a \in given}
    BY DEF Init
<1>2. /\ proc = [x \in Processes |-> Fresh(x)]
      /\ spent = [n \in Nodes |-> 0] /\ cut = {} /\ renewed = {} /\ trouble = 0
    BY DEF Init
<1>3. Counts
    BY <1>2, CredentialsAssumption DEF Counts
<1>4. \A c \in signed : CertOK(c)
    BY <1>1, GivenOK
<1>5. ASSUME NEW n \in Nodes
      PROVE  HomeOK(n) /\ disk[n].chain = NoFile
    <2>1. CASE n \in given
        <3>1. n \in Authorities /\ disk[n] = Files(FirstKey(n), GivenCert(n)) /\ GivenCert(n) \in signed
            BY <1>1, <2>1
        <3>2. /\ DOMAIN disk[n] = FileNames /\ disk[n].cert = GivenCert(n) /\ disk[n].keyfile = FirstKey(n)
              /\ disk[n].chain = NoFile /\ disk[n].ints = NoFile
            BY <3>1 DEF Files, FileNames
        <3> QED
            BY <3>1, <3>2, GivenOK DEF HomeOK, AuthorityHomeOK
    <2>2. CASE n \notin given
        <3>1. disk[n] = Files(NoFile, NoFile)
            BY <1>1, <2>2
        <3>2. /\ DOMAIN disk[n] = FileNames /\ disk[n].cert = NoFile
              /\ disk[n].chain = NoFile /\ disk[n].ints = NoFile
            BY <3>1 DEF Files, FileNames
        <3> QED
            BY <3>2 DEF HomeOK, AuthorityHomeOK, ClientHomeOK, Held
    <2> QED
        BY <2>1, <2>2
<1>6. ASSUME NEW x \in Processes
      PROVE  /\ Shape(x) /\ ~Holding(x) /\ ~At(x, "cert") /\ ~At(x, "request") /\ ~At(x, "running")
             /\ proc[x].pc \notin {"request", "answered", "chain", "cert"}
    <2>1. proc[x] = Fresh(x)
        BY <1>2
    <2>2. DOMAIN proc[x] = Fields /\ proc[x].cmd = "enroll" /\ proc[x].pc = IF x \in Authorities THEN "down" ELSE "idle"
        BY <2>1 DEF Fresh, Process, Fields
    <2> QED
        BY <2>2 DEF Shape, Holding, At, Writes, AuthorityPcs, CommandPcs
<1>7. \A x \in Processes : Remembers(x)
    BY <1>6 DEF Remembers
<1>8. \A a \in Authorities : Serving(a) /\ ChainOK(a)
    BY <1>5, <1>6 DEF Serving, Running, Obtaining, ChainOK
<1>9. \A p \in Commands : CommandOK(p)
    BY <1>6 DEF CommandOK
<1>10. \A h \in Clients : ClientOK(h)
    <2> SUFFICES ASSUME NEW h \in Clients
                 PROVE  ~Held(h)
        BY DEF ClientOK
    <2>1. h \in Nodes /\ h \notin given
        OBVIOUS
    <2>2. disk[h] = Files(NoFile, NoFile)
        BY <1>1, <2>1
    <2> QED
        BY <2>2 DEF Files, Held
<1>11. DOMAIN disk = Nodes /\ DOMAIN proc = Processes
    BY <1>1, <1>2
<1> QED
    BY <1>3, <1>4, <1>5, <1>6, <1>7, <1>8, <1>9, <1>10, <1>11 DEF Inv

LEMMA StutterInv ==
    ASSUME Inv, UNCHANGED vars
    PROVE  Inv'
<1> USE DEF vars
<1>1. \A n \in Nodes : HomeOK(n)' <=> HomeOK(n)
    BY DEF HomeOK, AuthorityHomeOK, ClientHomeOK, ChainFileOK, Held, Above, Depth, Hierarchy
<1>2. \A x \in Processes : (Shape(x)' <=> Shape(x)) /\ (Remembers(x)' <=> Remembers(x))
    BY DEF Shape, Remembers, Holding, At, ChainAbove, HomeOf, Above, Depth, Hierarchy
<1>3. \A a \in Authorities : (Serving(a)' <=> Serving(a)) /\ (ChainOK(a) => ChainOK(a)')
    BY DEF Serving, Running, At, Obtaining, Held, ChainOK, Holding, Quiet, Belongs, HalfRenewed, Vouches
<1>4. \A p \in Commands : CommandOK(p) => CommandOK(p)'
    BY DEF CommandOK, Holding, Held, ChainOf, FromParent
<1>5. ASSUME NEW h \in Clients, ClientOK(h)
      PROVE  ClientOK(h)'
    <2>1. SameCert(Parent[h]) /\ SameChain(Parent[h])
        BY DEF SameCert, SameChain
    <2>2. \A file : Kept(h, file)' = Kept(h, file)
        BY <2>1, KeptKept
    <2>3. \A p \in Commands : Remaining(p)' = Remaining(p)
        BY DEF Remaining, Order
    <2>4. \A file : Due(h, file) => Due(h, file)'
        BY <2>3 DEF Due
    <2>5. Held(h) => FromParent(h, disk[h].cert)'
        BY <1>5, <2>1, FromParentKept DEF ClientOK
    <2>6. Held(h)' <=> Held(h)
        BY DEF Held
    <2> QED
        BY <1>5, <2>2, <2>4, <2>5, <2>6 DEF ClientOK
<1> QED
    BY <1>1, <1>2, <1>3, <1>4, <1>5 DEF Inv, Counts, CertOK, SelfSigned

LEMMA NextInv ==
    ASSUME Inv, [Next]_vars
    PROVE  Inv'
<1>1. ASSUME NEW a \in Authorities, StartStep(a) \/ Start(a, TRUE)
      PROVE  Inv'
    BY <1>1, StartStepInv, ExitInv, LoadKeyMaterialInv, GenerateRootInv, RequestCACertInv,
       InitEnrollmentSignerInv DEF StartStep
<1>2. ASSUME NEW p \in Commands, Enroll(p) \/ Reenroll(p) \/ GetCACert(p)
      PROVE  Inv'
    BY <1>2, EnrollInv, ReenrollInv, GetCACertInv
<1>3. ASSUME NEW x \in Processes, Answer(x) \/ Receive(x) \/ WriteFile(x) \/ Interrupt(x)
      PROVE  Inv'
    BY <1>3, RefuseInv, HandleEnrollInv, HandleCAInfoInv, ReceiveInv, WriteFileInv, InterruptInv DEF Answer
<1> QED
    BY <1>1, <1>2, <1>3, StutterInv DEF Next

\* The invariant holds of every behaviour.
LEMMA Invariance == Spec => []Inv
<1>1. Init => Inv
    BY InitInv
<1>2. Inv /\ [Next]_vars => Inv'
    BY NextInv
<1> QED
    BY <1>1, <1>2, PTL DEF Spec

-----------------------------------------------------------------------------
(***************************************************************************)
(* The theorems                                                            *)
(***************************************************************************)

LEMMA InvType ==
    ASSUME Inv
    PROVE  TypeOK
<1>1. ASSUME NEW n \in Nodes
      PROVE  /\ DOMAIN disk[n] = {"keys", "keyfile", "cert", "chain", "ints"}
             /\ disk[n].cert \in signed \cup {NoFile, Torn}
    BY DEF Inv, HomeOK, Held, FileNames
<1>2. ASSUME NEW n \in Nodes, NEW file \in {"chain", "ints"}
      PROVE  disk[n][file] = NoFile \/ CertsIn(n, file) \subseteq signed
    <2>1. HomeOK(n)
        BY DEF Inv
    <2>2. CASE n \in Authorities
        <3>1. disk[n].ints = NoFile /\ (disk[n].chain = NoFile \/ disk[n].chain \in Seq(signed))
            BY <2>1, <2>2 DEF HomeOK, AuthorityHomeOK, ChainFileOK
        <3>2. disk[n].chain \in Seq(signed) => ToSet(disk[n].chain) \subseteq signed
            BY DEF ToSet
        <3> QED
            BY <2>2, <3>1, <3>2 DEF CertsIn
    <2>3. CASE n \notin Authorities
        <3>1. n \in Clients
            BY <2>3 DEF Nodes
        <3> QED
            BY <2>1, <2>3, <3>1 DEF HomeOK, ClientHomeOK, CertsIn
    <2> QED
        BY <2>2, <2>3
<1>3. ASSUME NEW a \in Authorities
      PROVE  proc[a].pc \in AuthorityPcs
    BY NodesAndProcesses DEF Inv, Shape
<1>4. ASSUME NEW p \in Commands
      PROVE  proc[p].pc \in CommandPcs
    BY NodesAndProcesses DEF Inv, Shape
<1>5. Counts
    BY DEF Inv
<1> QED
    BY <1>1, <1>2, <1>3, <1>4, <1>5 DEF TypeOK, Counts, AuthorityPcs, CommandPcs

\* Homes and processes keep their shape, and what stands in a file as a
\* certificate was signed (getCACert, storeCAChain, storeCert).
THEOREM TypeCorrect == Spec => []TypeOK
BY Invariance, InvType, PTL

LEMMA InvKeys ==
    ASSUME Inv
    PROVE  KeyAtHand
BY DEF Inv, HomeOK, KeyAtHand

\* A certificate never stands in a home without its private key, wherever the
\* processes that write there were interrupted (BCCSPKeyRequestGenerate, GenCSR).
THEOREM KeysAtHand == Spec => []KeyAtHand
BY Invariance, InvKeys, PTL

LEMMA InvServes ==
    ASSUME Inv
    PROVE  ServesItsChain
<1> SUFFICES ASSUME NEW a \in Authorities, Running(a), ~HalfRenewed(a), ChainOf(a) # NoFile
             PROVE  proc[a].cert \in ToSet(ChainOf(a))
    BY DEF ServesItsChain
<1> QED
    BY RunningBelongs DEF Belongs

\* The chain that a running authority hands out holds the certificate that it
\* signs with, unless a renewal of it was interrupted (getCACert, getCAChain).
THEOREM ServesChain == Spec => []ServesItsChain
BY Invariance, InvServes, PTL

LEMMA InvHonours ==
    ASSUME Inv
    PROVE  HonoursItsOwn
<1> SUFFICES ASSUME NEW a \in Authorities, Running(a), ~HalfRenewed(a), renewed \subseteq {a}, ChainOf(a) # NoFile,
                    NEW cert \in Database(a), cert.signer = proc[a].cert.key
             PROVE  Accepts(ChainOf(a), cert)
    BY DEF HonoursItsOwn
<1> DEFINE chain == ChainOf(a)
<1>1. /\ proc[a].cert = disk[a].cert /\ disk[a].cert.subject = a
      /\ Belongs(chain, disk[a].cert, a) /\ chain \in Seq(signed)
    BY RunningBelongs, ChainOfAuthority
<1>2. Quiet(a)
    BY NodesAndProcesses, AboveOther DEF Quiet
<1>3. disk[a].cert \in ToSet(chain) /\ LeadsFrom({Head(chain)}, ToSet(Tail(chain)), disk[a].cert)
    BY <1>1, <1>2 DEF Belongs, Leads
<1>4. chain # <<>>
    BY <1>3 DEF ToSet
<1>5. IssuedBy(cert, disk[a].cert)
    BY <1>1 DEF Database, IssuedBy
<1> QED
    BY <1>3, <1>4, <1>5 DEF Accepts, Anchored, LeadsFrom

\* A running authority accepts every certificate that it signed with its present
\* key, in either order of its chain, if no other authority was renewed
\* (VerifyCertificate, getVerifyOptions, concatChain).
THEOREM HonoursOwn == Spec => []HonoursItsOwn
BY Invariance, InvHonours, PTL

LEMMA InvVerified ==
    ASSUME Inv
    PROVE  VerifiedIsOwn
<1> SUFFICES ASSUME NEW a \in Authorities \ ParentFirst, Running(a), ChainOf(a) # NoFile,
                    NEW cert \in signed, Accepts(ChainOf(a), cert)
             PROVE  cert.issuer = a \/ cert.subject = a
    BY DEF VerifiedIsOwn
<1> DEFINE chain == ChainOf(a)
           rest == ToSet(Tail(chain))
           own == {c \in {Head(chain)} \cup rest : c.subject = a}
<1>1. a \in Nodes /\ HomeOK(a) /\ AuthorityHomeOK(a) /\ Serving(a) /\ chain # <<>>
    BY NodesAndProcesses DEF Inv, HomeOK, Accepts
<1>2. Head(chain).subject = a /\ \A c \in rest : c \in signed /\ Above(c.subject, a)
    <2>1. CASE disk[a].chain # NoFile
        <3>1. chain = disk[a].chain /\ ChainFileOK(a, chain)
            BY <1>1, <2>1 DEF ChainOf, AuthorityHomeOK
        <3>2. Head(chain).subject = a /\ \A c \in rest : Above(c.subject, a)
            BY <1>1, <3>1 DEF ChainFileOK
        <3>3. rest \subseteq signed
            <4>1. Tail(chain) \in Seq(signed)
                BY <1>1, <3>1 DEF ChainFileOK
            <4> QED
                BY <4>1 DEF ToSet
        <3> QED
            BY <3>2, <3>3
    <2>2. CASE disk[a].chain = NoFile
        <3>1. Held(a) /\ a = Root /\ chain = <<disk[a].cert>>
            BY <1>1, <2>2 DEF ChainOf, Serving
        <3>2. Head(chain) = disk[a].cert /\ Tail(chain) = <<>>
            BY <3>1
        <3>3. rest = {}
            BY <3>2 DEF ToSet
        <3> QED
            BY <1>1, <3>1, <3>2, <3>3 DEF HomeOK
    <2> QED
        BY <2>1, <2>2
<1>3. Trusts(own, {Head(chain)}, rest)
    <2>1. ASSUME NEW c \in rest, NEW t \in own, IssuedBy(c, t)
          PROVE  FALSE
        <3>1. c.issuer = a /\ CertOK(c) /\ Above(c.subject, a)
            BY <1>2, <2>1 DEF IssuedBy, Inv
        <3> QED
            BY <1>1, <3>1, IssuerAbove
    <2> QED
        BY <1>2, <2>1 DEF Trusts
<1>4. own \in SUBSET ({Head(chain)} \cup rest)
    OBVIOUS
<1>5. CASE cert = Head(chain)
    BY <1>2, <1>5
<1>6. CASE Anchored({Head(chain)}, rest, cert)
    <2>1. \E t \in own : IssuedBy(cert, t)
        <3> HIDE DEF own, rest
        <3> QED
            BY <1>3, <1>4, <1>6 DEF Anchored
    <2> QED
        BY <2>1 DEF IssuedBy
<1> QED
    BY <1>5, <1>6 DEF Accepts

\* A certificate that an authority accepts is its own, or it issued it itself,
\* whatever was renewed or interrupted, unless its chain begins with its parent's
\* (ca.go:520).
THEOREM VerifiedOwn == Spec => []VerifiedIsOwn
BY Invariance, InvVerified, PTL

LEMMA InvHomes ==
    ASSUME Inv
    PROVE  HomeVerifies
<1> SUFFICES ASSUME NEW h \in Clients, renewed = {}, cut \cap ({h} \X Writes) = {},
                    ~(\E p \in Commands : Home[p] = h /\ proc[p].pc \in Writes), Held(h)
             PROVE  Anchored(disk[h].chain, disk[h].ints, disk[h].cert)
    BY DEF HomeVerifies
<1> DEFINE a == Parent[h]
<1>1. h \in Nodes /\ a \in Authorities /\ a \in Nodes
    BY NodesAndProcesses, ParentAbove
<1>2. ClientOK(h)
    BY DEF Inv
<1>3. FromParent(h, disk[h].cert)
    BY <1>2 DEF ClientOK
<1>4. \A file \in {"chain", "ints"} : ~Due(h, file)
    BY RemainingNone DEF Due, Writes
<1>5. disk[h].chain = Roots(ChainOf(a)) /\ disk[h].ints = Intermediates(ChainOf(a))
    BY <1>2, <1>4 DEF ClientOK, Kept
<1>6. LeadsFrom(Roots(ChainOf(a)), Intermediates(ChainOf(a)), disk[a].cert)
    <2>1. Held(a) /\ ChainOf(a) # NoFile /\ HomeOK(a) /\ AuthorityHomeOK(a)
        BY <1>1, <1>3 DEF FromParent, Inv, HomeOK
    <2>2. CASE a = Root
        <3>1. ChainOf(a) = <<disk[a].cert>>
            BY <2>1, <2>2 DEF ChainOf, AuthorityHomeOK
        <3>2. disk[a].cert \in signed /\ disk[a].cert.subject = Root
            BY <2>1, <2>2 DEF HomeOK
        <3>3. SelfSigned(disk[a].cert)
            BY <3>2 DEF Inv, CertOK
        <3> QED
            BY <3>1, <3>3, Alone DEF Leads
    <2>3. CASE a # Root
        <3>1. ChainOK(a) /\ Serving(a)
            BY <1>1, <2>3 DEF Inv
        <3>2. ~At(a, "cert")
            BY <2>1, <3>1 DEF Serving, Obtaining, At, Held
        <3>3. ~HalfRenewed(a) /\ Quiet(a) /\ ChainOf(a) = disk[a].chain /\ disk[a].chain # NoFile
            BY <2>1, <2>3 DEF HalfRenewed, Quiet, ChainOf
        <3> QED
            BY <2>1, <3>1, <3>2, <3>3 DEF ChainOK, Belongs, Leads
    <2> QED
        BY <2>2, <2>3
<1> QED
    BY <1>3, <1>5, <1>6 DEF Anchored, LeadsFrom, FromParent

\* When no command writes or was cut short and no authority was renewed, what a
\* client keeps verifies its certificate, even if several commands wrote at the
\* same time (storeCAChain).
THEOREM HomesVerify == Spec => []HomeVerifies
BY Invariance, InvHomes, PTL
================================================================================
