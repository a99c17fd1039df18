------------------------- MODULE AffiliationsProofs -------------------------
(***************************************************************************)
(* Theorems about Affiliations, for every set of names, identities and     *)
(* requests, every configuration and every sequence of operations.         *)
(***************************************************************************)
EXTENDS Affiliations, SequenceTheorems, TLAPS

-----------------------------------------------------------------------------
(* Names *)

\* Parts of a sequence are not longer than it is (strings.Replace finds nothing
\* in a name shorter than what it looks for).
LEMMA SubSeqsShort ==
    ASSUME NEW S, NEW t \in Seq(S), NEW u \in SubSeqs(t)
    PROVE  u \in Seq(S) /\ Len(u) <= Len(t)
<1>1. PICK i \in 0 .. Len(t), j \in 0 .. Len(t) : u = SubSeq(t, i + 1, j)
  BY DEF SubSeqs
<1>2. Len(t) \in Nat
  BY LenProperties
<1>3. CASE i + 1 > j
  <2>1. u = <<>>
    BY <1>1, <1>2, <1>3, SubSeqEmpty
  <2> QED
    BY <2>1, <1>2, EmptySeq
<1>4. CASE i + 1 <= j
  BY <1>1, <1>2, <1>4, SubSeqProperties
<1> QED
  BY <1>1, <1>2, <1>3, <1>4

\* The first occurrence of a prefix is at the front: the renaming of a name
\* below o replaces its first segments.
LEMMA RenamedPrefix ==
    ASSUME NEW S, NEW o \in Seq(S), NEW n \in Seq(S), NEW m \in Seq(S),
           o # <<>>, IsPrefix(o, m)
    PROVE  Renamed(o, n, m) = n \o SubSeq(m, Len(o) + 1, Len(m))
<1> DEFINE k == Len(o)
           P(i) == /\ o \in SubSeqs(SubSeq(m, 1, i))
                   /\ \A j \in 0 .. i - 1 : o \notin SubSeqs(SubSeq(m, 1, j))
<1>1. /\ k \in Nat \ {0} /\ Len(m) \in Nat /\ k <= Len(m)
      /\ SubSeq(m, 1, k) = o
  <2>1. SubSeq(o, 1, k) = o
    BY SubSeqFull
  <2>2. k # 0
    BY EmptySeq
  <2> QED
    BY <2>1, <2>2, LenProperties DEF IsPrefix
<1>2. \A j \in 0 .. Len(m) : j < k => o \notin SubSeqs(SubSeq(m, 1, j))
  <2> SUFFICES ASSUME NEW j \in 0 .. Len(m), j < k, o \in SubSeqs(SubSeq(m, 1, j))
               PROVE  FALSE
    OBVIOUS
  <2>1. SubSeq(m, 1, j) \in Seq(S) /\ Len(SubSeq(m, 1, j)) = j
    <3>1. CASE j = 0
      BY <3>1, SubSeqEmpty, EmptySeq, <1>1
    <3>2. CASE j # 0
      BY <3>2, SubSeqProperties, <1>1
    <3> QED
      BY <3>1, <3>2
  <2>2. k <= j
    BY <2>1, SubSeqsShort
  <2> QED
    BY <2>2, <1>1
<1>3. P(k)
  <2>1. o \in SubSeqs(o)
    <3>1. o = SubSeq(o, 0 + 1, k) /\ 0 \in 0 .. k /\ k \in 0 .. k
      BY <1>1, SubSeqFull
    <3> QED
      BY <3>1 DEF SubSeqs
  <2>2. \A j \in 0 .. k - 1 : j \in 0 .. Len(m) /\ j < k
    BY <1>1
  <2>3. \A j \in 0 .. k - 1 : o \notin SubSeqs(SubSeq(m, 1, j))
    BY <2>2, <1>2
  <2> QED
    BY <2>1, <2>3, <1>1
<1>4. \A i \in 0 .. Len(m) : P(i) => i = k
  <2> SUFFICES ASSUME NEW i \in 0 .. Len(m), P(i), i # k
               PROVE  FALSE
    OBVIOUS
  <2> HIDE DEF k
  <2>1. CASE i < k
    BY <2>1, <1>2
  <2>2. CASE i > k
    <3>1. k \in 0 .. i - 1
      BY <2>2, <1>1
    <3> QED
      BY <3>1, <1>3
  <2> QED
    BY <2>1, <2>2, <1>1
<1>5. (CHOOSE i \in 0 .. Len(m) : P(i)) = k
  <2>1. k \in 0 .. Len(m)
    BY <1>1
  <2> HIDE DEF P
  <2> QED
    BY <1>3, <1>4, <2>1
<1>6. IndexFirstSubSeq(o, m) = 1
  <2>1. IndexFirstSubSeq(o, m) = k - (k - 1)
    BY <1>5 DEF IndexFirstSubSeq
  <2> QED
    BY <2>1, <1>1
<1>7. o \in SubSeqs(m)
  <2>1. o = SubSeq(m, 0 + 1, k) /\ 0 \in 0 .. Len(m) /\ k \in 0 .. Len(m)
    BY <1>1
  <2> QED
    BY <2>1 DEF SubSeqs
<1>8. Renamed(o, n, m) = ReplaceSubSeqAt(1, n, o, m)
  BY <1>6, <1>7 DEF Renamed, ReplaceFirstSubSeq
<1>9. SubSeq(m, 1, 1 - 1) = <<>>
  BY SubSeqEmpty, <1>1
<1>10. <<>> \o n = n
  BY ConcatEmptySeq
<1> QED
  BY <1>1, <1>8, <1>9, <1>10 DEF ReplaceSubSeqAt

\* Prefixes by their elements.
LEMMA PrefixElements ==
    ASSUME NEW S, NEW s \in Seq(S), NEW t \in Seq(S)
    PROVE  IsPrefix(s, t) <=> Len(s) <= Len(t) /\ \A i \in 1 .. Len(s) : s[i] = t[i]
<1>1. SubSeq(s, 1, Len(s)) = s /\ Len(s) \in Nat /\ Len(t) \in Nat
  BY SubSeqFull, LenProperties
<1>2. CASE Len(s) > Len(t)
  BY <1>1, <1>2 DEF IsPrefix
<1>3. CASE Len(s) = 0
  <2>1. SubSeq(t, 1, 0) = <<>> /\ s = <<>>
    BY <1>3, SubSeqEmpty, EmptySeq
  <2> QED
    BY <1>1, <1>3, <2>1 DEF IsPrefix
<1>4. CASE Len(s) > 0 /\ Len(s) <= Len(t)
  <2> DEFINE u == SubSeq(t, 1, Len(s))
  <2>1. u \in Seq(S) /\ Len(u) = Len(s) /\ \A i \in 1 .. Len(s) : u[i] = t[i]
    BY <1>1, <1>4, SubSeqProperties
  <2> HIDE DEF u
  <2>2. s = u <=> \A i \in 1 .. Len(s) : s[i] = u[i]
    BY <2>1, SeqEqual
  <2> QED
    BY <1>1, <1>4, <2>1, <2>2 DEF IsPrefix, u
<1> QED
  BY <1>1, <1>2, <1>3, <1>4

LEMMA PrefixTransitive ==
    ASSUME NEW S, NEW s \in Seq(S), NEW t \in Seq(S), NEW u \in Seq(S),
           IsPrefix(s, t), IsPrefix(t, u)
    PROVE  IsPrefix(s, u)
<1>1. Len(s) \in Nat /\ Len(t) \in Nat /\ Len(u) \in Nat
  BY LenProperties
<1>2. /\ Len(s) <= Len(t) /\ \A i \in 1 .. Len(s) : s[i] = t[i]
      /\ Len(t) <= Len(u) /\ \A i \in 1 .. Len(t) : t[i] = u[i]
  BY PrefixElements
<1>3. Len(s) <= Len(u) /\ \A i \in 1 .. Len(s) : s[i] = u[i]
  BY <1>1, <1>2
<1> QED
  BY <1>3, PrefixElements

\* A path and one it leads through start alike.
LEMMA PrefixesCompare ==
    ASSUME NEW S, NEW s \in Seq(S), NEW t \in Seq(S), NEW u \in Seq(S),
           IsPrefix(s, u), IsPrefix(t, u)
    PROVE  IsPrefix(s, t) \/ IsPrefix(t, s)
<1>1. Len(s) \in Nat /\ Len(t) \in Nat /\ Len(u) \in Nat
  BY LenProperties
<1>2. /\ Len(s) <= Len(u) /\ \A i \in 1 .. Len(s) : s[i] = u[i]
      /\ Len(t) <= Len(u) /\ \A i \in 1 .. Len(t) : t[i] = u[i]
  BY PrefixElements
<1>3. CASE Len(s) <= Len(t)
  <2>1. \A i \in 1 .. Len(s) : s[i] = t[i]
    BY <1>1, <1>2, <1>3
  <2> QED
    BY <1>3, <2>1, PrefixElements
<1>4. CASE Len(t) <= Len(s)
  <2>1. \A i \in 1 .. Len(t) : t[i] = s[i]
    BY <1>1, <1>2, <1>4
  <2> QED
    BY <1>4, <2>1, PrefixElements
<1> QED
  BY <1>1, <1>3, <1>4

LEMMA PrefixOfConcat ==
    ASSUME NEW S, NEW s \in Seq(S), NEW t \in Seq(S)
    PROVE  IsPrefix(s, s \o t)
<1> DEFINE u == s \o t
<1>1. /\ u \in Seq(S) /\ Len(u) = Len(s) + Len(t)
      /\ \A i \in 1 .. Len(s) + Len(t) : u[i] = IF i <= Len(s) THEN s[i] ELSE t[i - Len(s)]
      /\ Len(s) \in Nat /\ Len(t) \in Nat
  BY ConcatProperties, LenProperties
<1> HIDE DEF u
<1>2. Len(s) <= Len(u) /\ \A i \in 1 .. Len(s) : s[i] = u[i]
  BY <1>1
<1>3. IsPrefix(s, u)
  BY <1>1, <1>2, PrefixElements
<1> QED
  BY <1>3 DEF u

\* With an exact LIKE, the two statements select a name and what is below it.
LEMMA SelectsPrefix ==
    ASSUME ExactLike, NEW o \in Seq(Segments), NEW m \in Seq(Segments)
    PROVE  Selects(o, m) <=> IsPrefix(o, m)
<1>1. Len(o) \in Nat /\ Len(m) \in Nat /\ DOMAIN o = 1 .. Len(o)
  BY LenProperties
<1>2. IsPrefix(o, m) <=> Len(o) <= Len(m) /\ \A i \in 1 .. Len(o) : o[i] = m[i]
  BY PrefixElements
<1>3. \A i \in 1 .. Len(o) : o[i] \in Segments
  BY <1>1, ElementOfSeq
<1>4. Len(o) <= Len(m) => \A i \in 1 .. Len(o) : m[i] \in Segments
  BY <1>1, ElementOfSeq
<1>5. Len(o) < Len(m) => (LikeBelow(o, m) <=> \A i \in 1 .. Len(o) : o[i] = m[i])
  <2> SUFFICES ASSUME Len(o) < Len(m)
               PROVE  LikeBelow(o, m) <=> \A i \in 1 .. Len(o) : o[i] = m[i]
    OBVIOUS
  <2>1. \A i \in 1 .. Len(o) : <<o[i], m[i]>> \in Like <=> o[i] = m[i]
    <3>1. \A s \in Segments : <<s, s>> \in Like
      BY AffiliationAssumption
    <3>2. \A i \in 1 .. Len(o) : o[i] \in Segments /\ m[i] \in Segments
      BY <1>1, <1>3, <1>4
    <3> QED
      BY <3>1, <3>2 DEF ExactLike
  <2> QED
    BY <1>1, <2>1 DEF LikeBelow
<1>6. Len(o) = Len(m) => (o = m <=> \A i \in 1 .. Len(o) : o[i] = m[i])
  BY SeqEqual
<1>7. LikeBelow(o, m) => Len(o) < Len(m)
  BY <1>1 DEF LikeBelow
<1> QED
  BY <1>1, <1>2, <1>5, <1>6, <1>7 DEF Selects

-----------------------------------------------------------------------------
(* The inductive invariant *)

tables == <<affs, home, attr, good, conn>>

Writes == {"validate", "insertUser", "updateUser"}

\* What a context holds at the positions of its handler: the name it acts on,
\* of the caller's authority once that was checked, and a record whose
\* attribute is the column's.
ContextOK(c) ==
    /\ c.pc \notin Writes \cup {"idle"} => c.name \in Names
    /\ c.pc = "exists" => c.op = "add"
    /\ c.pc \in {"parent", "insert"} => c.next \in 1 .. Len(c.name)
    /\ c.pc \notin Writes \cup {"idle", "exists"} => IsPrefix(c.aff, c.name)
    /\ c.pc = "lookup" => c.op \in {"delete", "rename"}
    /\ c.pc \in {"free", "rename"} => c.op = "rename"
    /\ c.pc \notin {"idle"} /\ c.op = "rename" => c.new \in Names /\ IsPrefix(c.aff, c.new)
    /\ c.pc \in Writes => c.id \in Ids /\ (c.attr # Root => c.attr = c.home)

ContextsOK == \A p \in Requests : ContextOK(ctx[p])

Inv == TypeOK /\ ContextsOK /\ AttributeInSync /\ CertificatesHaveOwners

LEMMA IdleOK == Idle \in Context /\ ContextOK(Idle)
BY DEF Idle, Context, PCs, ContextOK, Writes

\* A step that reads only, and leaves its handler in a context that is in order.
LEMMA ContextStep ==
    ASSUME Inv, NEW p \in Requests, NEW c \in Context, ContextOK(c),
           Become(p, c), UNCHANGED tables
    PROVE  Inv'
<1>1. ctx' = [ctx EXCEPT ![p] = c] /\ ctx \in [Requests -> Context]
  BY DEF Become, Inv, TypeOK
<1>2. ctx' \in [Requests -> Context]
  BY <1>1
<1>3. \A q \in Requests : ctx'[q] = IF q = p THEN c ELSE ctx[q]
  BY <1>1
<1>4. TypeOK'
  BY <1>2 DEF Inv, TypeOK, tables
<1>5. ContextsOK'
  BY <1>3 DEF Inv, ContextsOK
<1>6. AttributeInSync' /\ CertificatesHaveOwners'
  BY DEF Inv, AttributeInSync, CertificatesHaveOwners, tables
<1> QED
  BY <1>4, <1>5, <1>6 DEF Inv

\* The last step of a handler, which writes the tables.
LEMMA TableStep ==
    ASSUME Inv, NEW p \in Requests, Done(p),
           affs' \in SUBSET Names, home' \in [Ids -> Names \cup {Root, Gone}],
           attr' \in [Ids -> Names \cup {Root}], good' \in SUBSET Ids, conn' \in BOOLEAN,
           AttributeInSync', CertificatesHaveOwners'
    PROVE  Inv'
<1>1. ctx' = [ctx EXCEPT ![p] = Idle] /\ ctx \in [Requests -> Context]
  BY DEF Done, Become, Inv, TypeOK
<1>2. ctx' \in [Requests -> Context]
  BY <1>1, IdleOK
<1>3. \A q \in Requests : ctx'[q] = IF q = p THEN Idle ELSE ctx[q]
  BY <1>1
<1>4. TypeOK'
  BY <1>2 DEF TypeOK
<1>5. ContextsOK'
  BY <1>3, IdleOK DEF Inv, ContextsOK
<1> QED
  BY <1>4, <1>5 DEF Inv

LEMMA InitInv == Init => Inv
<1> SUFFICES ASSUME Init PROVE Inv
  OBVIOUS
<1>1. TypeOK
  BY IdleOK, AffiliationAssumption DEF Init, TypeOK
<1>2. ContextsOK
  BY IdleOK DEF Init, ContextsOK
<1>3. AttributeInSync /\ CertificatesHaveOwners
  BY DEF Init, AttributeInSync, CertificatesHaveOwners
<1> QED
  BY <1>1, <1>2, <1>3 DEF Inv

\* A request that arrives.
LEMMA ArriveInv ==
    ASSUME Inv, NEW p \in Requests, Arrive(p)
    PROVE  Inv'
<1> DEFINE Ok(c) == c \in Context /\ ContextOK(c)
<1>0. \A id \in Ids : home[id] # Gone => home[id] \in Names \cup {Root}
  BY DEF Inv, TypeOK
<1>1. CASE StartAdd(p)
  <2>1. PICK caller \in Ids, n \in Added, force \in BOOLEAN :
          /\ AsManager(p, "add", caller)
          /\ Become(p, [Idle EXCEPT !.op = "add", !.pc = "exists", !.name = n,
                                    !.aff = home[caller], !.force = force])
    BY <1>1 DEF StartAdd
  <2> DEFINE c == [Idle EXCEPT !.op = "add", !.pc = "exists", !.name = n,
                               !.aff = home[caller], !.force = force]
  <2>2. home[caller] \in Names \cup {Root} /\ UNCHANGED tables
    BY <2>1, <1>0 DEF AsManager, Authenticate, tables
  <2>3. Ok(c)
    BY <2>2, AffiliationAssumption DEF Idle, Context, PCs, ContextOK, Writes
  <2> QED
    BY <2>1, <2>2, <2>3, ContextStep
<1>2. CASE StartDelete(p)
  <2>1. PICK caller \in Ids, n \in Names, force \in BOOLEAN :
          /\ AsManager(p, "delete", caller)
          /\ Covers(home[caller], n)
          /\ Become(p, [Idle EXCEPT !.op = "delete", !.pc = "lookup", !.name = n,
                          !.aff = home[caller], !.force = force,
                          !.registrar = (Roles[caller] = "some")])
    BY <1>2 DEF StartDelete
  <2> DEFINE r == Roles[caller] = "some"
             c == [Idle EXCEPT !.op = "delete", !.pc = "lookup", !.name = n,
                          !.aff = home[caller], !.force = force, !.registrar = r]
  <2>2. home[caller] \in Names \cup {Root} /\ UNCHANGED tables
    BY <2>1, <1>0 DEF AsManager, Authenticate, tables
  <2>3. r \in BOOLEAN
    OBVIOUS
  <2>4. Become(p, c)
    BY <2>1
  <2>5. Ok(c)
    <3> HIDE DEF r
    <3> QED
      BY <2>1, <2>2, <2>3 DEF Idle, Context, PCs, ContextOK, Writes, Covers
  <2> QED
    BY <2>2, <2>4, <2>5, ContextStep
<1>3. CASE StartRename(p)
  <2>1. PICK caller \in Ids, f \in Renames, force \in BOOLEAN :
          /\ AsManager(p, "rename", caller)
          /\ Covers(home[caller], f[1]) /\ Covers(home[caller], f[2])
          /\ Become(p, [Idle EXCEPT !.op = "rename", !.pc = "lookup", !.name = f[1],
                          !.new = f[2], !.aff = home[caller], !.force = force,
                          !.registrar = (Roles[caller] = "some")])
    BY <1>3 DEF StartRename
  <2> DEFINE r == Roles[caller] = "some"
             c == [Idle EXCEPT !.op = "rename", !.pc = "lookup", !.name = f[1],
                          !.new = f[2], !.aff = home[caller], !.force = force,
                          !.registrar = r]
  <2>2. home[caller] \in Names \cup {Root} /\ UNCHANGED tables
    BY <2>1, <1>0 DEF AsManager, Authenticate, tables
  <2>3. r \in BOOLEAN /\ f[1] \in Names /\ f[2] \in Names
    BY AffiliationAssumption
  <2>4. Become(p, c)
    BY <2>1
  <2>5. Ok(c)
    <3> HIDE DEF r
    <3> QED
      BY <2>1, <2>2, <2>3 DEF Idle, Context, PCs, ContextOK, Writes, Covers
  <2> QED
    BY <2>2, <2>4, <2>5, ContextStep
<1>4. CASE StartRegister(p)
  <2>1. PICK caller \in Ids, id \in Ids, a \in Names \cup {Root} :
          /\ Authenticate(p, "register", caller)
          /\ Become(p, [Idle EXCEPT !.op = "register", !.id = id, !.home = a, !.attr = a,
                          !.pc = IF a = Root THEN "insertUser" ELSE "validate"])
    BY <1>4 DEF StartRegister
  <2> DEFINE c == [Idle EXCEPT !.op = "register", !.id = id, !.home = a, !.attr = a,
                          !.pc = IF a = Root THEN "insertUser" ELSE "validate"]
  <2>2. UNCHANGED tables
    BY <2>1 DEF Authenticate, tables
  <2>3. Ok(c)
    BY DEF Idle, Context, PCs, ContextOK, Writes
  <2> QED
    BY <2>1, <2>2, <2>3, ContextStep
<1>5. CASE StartModify(p)
  <2> DEFINE c(id, pc, a, b) == [Idle EXCEPT !.op = "modify", !.id = id, !.pc = pc,
                                             !.home = a, !.attr = b]
  <2>1. PICK caller \in Ids, id \in Ids :
          /\ Authenticate(p, "modify", caller)
          /\ home[id] # Gone
          /\ \/ Become(p, c(id, "updateUser", home[id], attr[id]))
             \/ \E a \in Names : Become(p, c(id, "validate", a, a))
             \/ Become(p, c(id, "updateUser", Root, Root))
    BY <1>5 DEF StartModify
  <2>2. UNCHANGED tables
    BY <2>1 DEF Authenticate, tables
  <2>3. Ok(c(id, "updateUser", home[id], attr[id]))
    <3>1. home[id] \in Names \cup {Root} /\ attr[id] \in Names \cup {Root}
      BY <2>1 DEF Inv, TypeOK
    <3>2. attr[id] # Root => attr[id] = home[id]
      BY DEF Inv, AttributeInSync
    <3> QED
      BY <3>1, <3>2 DEF Idle, Context, PCs, ContextOK, Writes
  <2>4. \A a \in Names \cup {Root} : Ok(c(id, "validate", a, a)) /\ Ok(c(id, "updateUser", a, a))
    <3> TAKE a \in Names \cup {Root}
    <3>1. Ok(c(id, "validate", a, a))
      BY DEF Idle, Context, PCs, ContextOK, Writes
    <3>2. Ok(c(id, "updateUser", a, a))
      BY DEF Idle, Context, PCs, ContextOK, Writes
    <3> QED
      BY <3>1, <3>2
  <2>5. CASE Become(p, c(id, "updateUser", home[id], attr[id]))
    <3> HIDE DEF c
    <3> QED
      BY <2>2, <2>3, <2>5, ContextStep
  <2>6. CASE \E a \in Names : Become(p, c(id, "validate", a, a))
    <3> HIDE DEF c
    <3>1. PICK a \in Names : Become(p, c(id, "validate", a, a))
      BY <2>6
    <3> QED
      BY <2>2, <2>4, <3>1, ContextStep
  <2>7. CASE Become(p, c(id, "updateUser", Root, Root))
    <3> HIDE DEF c
    <3> QED
      BY <2>2, <2>4, <2>7, ContextStep
  <2> QED
    BY <2>1, <2>5, <2>6, <2>7
<1> QED
  BY <1>1, <1>2, <1>3, <1>4, <1>5 DEF Arrive

\* What the transactions and statements write is typed, keeps the attribute
\* equal to the column, and keeps no certificate of a row that goes.
LEMMA InsertAffiliationInv ==
    ASSUME Inv, NEW p \in Requests, InsertAffiliation(p)
    PROVE  Inv'
<1> DEFINE c == ctx[p]
           d == [c EXCEPT !.next = After(c.next)]
<1>1. /\ c \in Context /\ ContextOK(c) /\ c.pc = "insert"
      /\ c.name \in Names /\ c.next \in 1 .. Len(c.name)
  BY DEF InsertAffiliation, At, Inv, TypeOK, ContextsOK, ContextOK, Writes
<1>2. c.name \in Seq(Segments) /\ Len(c.name) \in Nat
  BY <1>1, AffiliationAssumption, LenProperties
<1>3. Inserted(c) \in Names
  <2>1. c.next \in DOMAIN c.name
    BY <1>1, <1>2, LenProperties
  <2> QED
    BY <1>1, <2>1, AffiliationAssumption DEF Inserted
<1>4. affs' \in SUBSET Names
  BY <1>3 DEF InsertAffiliation, Inv, TypeOK
<1>5. UNCHANGED <<home, attr, good, conn>>
  BY DEF InsertAffiliation
<1>6. AttributeInSync' /\ CertificatesHaveOwners'
  BY <1>5 DEF Inv, AttributeInSync, CertificatesHaveOwners
<1>7. CASE c.next < Len(c.name)
  <2>1. Become(p, d)
    BY <1>7 DEF InsertAffiliation
  <2>2. c.next \in Nat /\ After(c.next) \in Nat /\ After(c.next) \in 1 .. Len(c.name)
    BY <1>1, <1>2, <1>7 DEF After
  <2>3. d \in Context
    <3> HIDE DEF c
    <3> QED
      BY <1>1, <2>2 DEF Context
  <2>4. ContextOK(d)
    <3> HIDE DEF c
    <3> QED
      BY <1>1, <2>2 DEF ContextOK, Context, Writes
  <2>5. ctx' = [ctx EXCEPT ![p] = d] /\ ctx \in [Requests -> Context]
    BY <2>1 DEF Become, Inv, TypeOK
  <2> HIDE DEF d
  <2>6. ctx' \in [Requests -> Context] /\ ContextsOK'
    BY <2>3, <2>4, <2>5 DEF Inv, ContextsOK
  <2> QED
    BY <2>6, <1>4, <1>5, <1>6 DEF Inv, TypeOK
<1>8. CASE ~(c.next < Len(c.name))
  <2>1. Done(p)
    BY <1>8 DEF InsertAffiliation
  <2> QED
    BY <2>1, <1>4, <1>5, <1>6, TableStep DEF Inv, TypeOK
<1> QED
  BY <1>7, <1>8

LEMMA DeleteAffiliationInv ==
    ASSUME Inv, NEW p \in Requests, DeleteAffiliationTx(p)
    PROVE  Inv'
<1> DEFINE gone == Members(ctx[p].name)
<1>1. CASE MayDelete(ctx[p])
  <2>1. /\ affs' = {n \in affs : ~Selects(ctx[p].name, n)}
        /\ home' = [id \in Ids |-> IF id \in gone THEN Gone ELSE home[id]]
        /\ attr' = [id \in Ids |-> IF id \in gone THEN Root ELSE attr[id]]
        /\ good' = good \ gone
        /\ Done(p) /\ UNCHANGED conn
    BY <1>1 DEF DeleteAffiliationTx, Unrevoked
  <2> HIDE DEF gone
  <2>2. /\ affs' \in SUBSET Names /\ home' \in [Ids -> Names \cup {Root, Gone}]
        /\ attr' \in [Ids -> Names \cup {Root}] /\ good' \in SUBSET Ids /\ conn' \in BOOLEAN
    BY <2>1 DEF Inv, TypeOK
  <2>3. AttributeInSync'
    BY <2>1 DEF Inv, TypeOK, AttributeInSync
  <2>4. CertificatesHaveOwners'
    BY <2>1 DEF Inv, TypeOK, CertificatesHaveOwners
  <2> QED
    BY <2>1, <2>2, <2>3, <2>4, TableStep
<1>2. CASE ~MayDelete(ctx[p])
  <2>1. Become(p, Idle) /\ UNCHANGED tables
    BY <1>2 DEF DeleteAffiliationTx, Done, tables
  <2> QED
    BY <2>1, IdleOK, ContextStep
<1> QED
  BY <1>1, <1>2

\* A renaming that commits stays within Names, moves column and attribute of an
\* identity to the same name, and takes nobody's row.
LEMMA RenameCommitInv ==
    ASSUME Inv, NEW p \in Requests, Done(p), RenameCommit(ctx[p])
    PROVE  Inv'
<1> DEFINE c == ctx[p]
           to(m) == Renamed(c.name, c.new, m)
           hit == Affected(c.name)
<1>1. /\ affs' = (affs \ Changed(c)) \cup {to(m) : m \in Changed(c)}
      /\ affs' \subseteq Names
      /\ home' = [id \in Ids |-> IF id \in hit THEN to(home[id]) ELSE home[id]]
      /\ attr' = [id \in Ids |-> IF id \in hit THEN to(home[id]) ELSE attr[id]]
      /\ UNCHANGED <<good, conn>>
  BY DEF RenameCommit, RenamedAttr
<1>2. \A id \in hit : to(home[id]) \in Names
  <2> SUFFICES ASSUME NEW id \in hit PROVE to(home[id]) \in Names
    OBVIOUS
  <2>1. home[id] \in Selected(c.name) /\ home[id] \in Names
    BY DEF Affected, Selected, Inv, TypeOK
  <2>2. CASE home[id] \in Changed(c)
    BY <2>2, <1>1
  <2>3. CASE home[id] \notin Changed(c)
    BY <2>1, <2>3 DEF Changed
  <2> QED
    BY <2>2, <2>3
<1>3. Gone \notin Names
  BY AffiliationAssumption
<1> HIDE DEF to, hit
<1>4. /\ affs' \in SUBSET Names /\ home' \in [Ids -> Names \cup {Root, Gone}]
      /\ attr' \in [Ids -> Names \cup {Root}] /\ good' \in SUBSET Ids /\ conn' \in BOOLEAN
  BY <1>1, <1>2 DEF Inv, TypeOK
<1>5. AttributeInSync'
  BY <1>1 DEF Inv, TypeOK, AttributeInSync
<1>6. CertificatesHaveOwners'
  BY <1>1, <1>2, <1>3 DEF Inv, TypeOK, CertificatesHaveOwners
<1> QED
  BY <1>4, <1>5, <1>6, TableStep

\* InsertUser and UpdateUser store the record of the context.
LEMMA StoreInv ==
    ASSUME Inv, NEW p \in Requests, ctx[p].pc \in {"insertUser", "updateUser"},
           Stored(p) \/ UNCHANGED <<home, attr>>, Done(p), UNCHANGED <<affs, good, conn>>
    PROVE  Inv'
<1>1. /\ ctx[p] \in Context /\ ctx[p].id \in Ids
      /\ ctx[p].attr # Root => ctx[p].attr = ctx[p].home
  BY DEF Inv, TypeOK, ContextsOK, ContextOK, Writes
<1>2. ctx[p].home \in Names \cup {Root} /\ ctx[p].attr \in Names \cup {Root}
  BY <1>1 DEF Context
<1>3. Gone \notin Names \cup {Root}
  BY AffiliationAssumption
<1>4. CASE Stored(p)
  <2>1. /\ home' \in [Ids -> Names \cup {Root, Gone}] /\ attr' \in [Ids -> Names \cup {Root}]
    BY <1>1, <1>2, <1>4 DEF Stored, Inv, TypeOK
  <2>2. AttributeInSync'
    BY <1>1, <1>4 DEF Stored, Inv, TypeOK, AttributeInSync
  <2>3. CertificatesHaveOwners'
    BY <1>1, <1>2, <1>3, <1>4 DEF Stored, Inv, TypeOK, CertificatesHaveOwners
  <2> QED
    BY <2>1, <2>2, <2>3, TableStep DEF Inv, TypeOK
<1>5. CASE UNCHANGED <<home, attr>>
  <2>1. Become(p, Idle) /\ UNCHANGED tables
    BY <1>5 DEF Done, tables
  <2> QED
    BY <2>1, IdleOK, ContextStep
<1> QED
  BY <1>4, <1>5

\* A step of a handler that only changes its position.
LEMMA GotoInv ==
    ASSUME Inv, NEW p \in Requests, NEW pc \in PCs, Goto(p, pc), UNCHANGED tables,
           ContextOK([ctx[p] EXCEPT !.pc = pc])
    PROVE  Inv'
<1>1. ctx[p] \in Context
  BY DEF Inv, TypeOK
<1>2. [ctx[p] EXCEPT !.pc = pc] \in Context
  BY <1>1 DEF Context
<1> QED
  BY <1>2, ContextStep DEF Goto

LEMMA DoneInv ==
    ASSUME Inv, NEW p \in Requests, Done(p), UNCHANGED tables
    PROVE  Inv'
BY IdleOK, ContextStep DEF Done

LEMMA ProceedInv ==
    ASSUME Inv, NEW p \in Requests, Proceed(p)
    PROVE  Inv'
<1> DEFINE c == ctx[p]
<1>0. c \in Context /\ ContextOK(c)
  BY DEF Inv, TypeOK, ContextsOK
<1>1. CASE AddExists(p)
  <2> DEFINE d == [c EXCEPT !.pc = IF ~c.force /\ Len(c.name) > 1 THEN "parent" ELSE "insert",
                            !.next = IF c.force THEN 1 ELSE Len(c.name)]
  <2>1. UNCHANGED tables /\ c.pc = "exists" /\ (Done(p) \/ (Covers(c.aff, c.name) /\ Become(p, d)))
    BY <1>1 DEF AddExists, At, tables
  <2>2. c.name \in Names /\ c.op = "add"
    BY <1>0, <2>1 DEF ContextOK, Writes
  <2>3. Len(c.name) \in Nat \ {0}
    BY <2>2, AffiliationAssumption, LenProperties, EmptySeq
  <2>4. CASE Covers(c.aff, c.name) /\ Become(p, d)
    <3>1. d \in Context
      <4> DEFINE pc == IF ~c.force /\ Len(c.name) > 1 THEN "parent" ELSE "insert"
                 next == IF c.force THEN 1 ELSE Len(c.name)
      <4>1. pc \in PCs /\ next \in Nat
        BY <2>3 DEF PCs
      <4> HIDE DEF pc, next, c
      <4>2. [c EXCEPT !.pc = pc, !.next = next] \in Context
        BY <1>0, <4>1 DEF Context
      <4> QED
        BY <4>2 DEF pc, next
    <3>2. ContextOK(d)
      <4> HIDE DEF c
      <4>1. /\ d.op = "add" /\ d.pc \in {"parent", "insert"} /\ d.next \in 1 .. Len(c.name)
            /\ d.name = c.name /\ d.aff = c.aff
        BY <1>0, <2>2, <2>3 DEF Context
      <4> HIDE DEF d
      <4> QED
        BY <4>1, <2>2, <2>4 DEF ContextOK, Covers, Writes
    <3> HIDE DEF d
    <3> QED
      BY <2>1, <2>4, <3>1, <3>2, ContextStep
  <2> QED
    BY <2>1, <2>4, DoneInv
<1>2. CASE AddParent(p)
  <2>1. UNCHANGED tables /\ c.pc = "parent" /\ (Done(p) \/ Goto(p, "insert"))
    BY <1>2 DEF AddParent, At, tables
  <2>2. c.name \in Names
    BY <1>0, <2>1 DEF ContextOK, Writes
  <2>3. ContextOK([c EXCEPT !.pc = "insert"])
    BY <1>0, <2>1, <2>2 DEF ContextOK, Context, Writes
  <2> QED
    BY <2>1, <2>3, GotoInv, DoneInv DEF PCs
<1>3. CASE InsertAffiliation(p)
  BY <1>3, InsertAffiliationInv
<1>4. CASE Lookup(p)
  <2>1. /\ UNCHANGED tables /\ c.pc = "lookup"
        /\ \/ Done(p)
           \/ c.op = "delete" /\ Goto(p, "delete")
           \/ c.op # "delete" /\ Goto(p, "free")
    BY <1>4 DEF Lookup, At, tables
  <2>2. c.op # "delete" => ContextOK([c EXCEPT !.pc = "free"])
    BY <1>0, <2>1 DEF ContextOK, Context, Writes
  <2>3. c.op = "delete" => ContextOK([c EXCEPT !.pc = "delete"])
    BY <1>0, <2>1 DEF ContextOK, Context, Writes
  <2> QED
    BY <2>1, <2>2, <2>3, GotoInv, DoneInv DEF PCs
<1>5. CASE DeleteAffiliationTx(p)
  BY <1>5, DeleteAffiliationInv
<1>6. CASE RenameFree(p)
  <2>1. UNCHANGED tables /\ c.pc = "free" /\ (Done(p) \/ Goto(p, "rename"))
    BY <1>6 DEF RenameFree, At, tables
  <2>2. ContextOK([c EXCEPT !.pc = "rename"])
    BY <1>0, <2>1 DEF ContextOK, Context, Writes
  <2> QED
    BY <2>1, <2>2, GotoInv, DoneInv DEF PCs
<1>7. CASE ModifyAffiliationTx(p)
  <2>1. Done(p) /\ (RenameCommit(c) \/ RenamePanic \/ UNCHANGED tables)
    BY <1>7 DEF ModifyAffiliationTx, tables
  <2>2. CASE RenameCommit(c)
    BY <2>1, <2>2, RenameCommitInv
  <2>3. CASE RenamePanic
    <3>1. AttributeInSync' /\ CertificatesHaveOwners'
      BY <2>3 DEF RenamePanic, Inv, AttributeInSync, CertificatesHaveOwners
    <3> QED
      BY <2>1, <2>3, <3>1, TableStep DEF RenamePanic, Inv, TypeOK
  <2> QED
    BY <2>1, <2>2, <2>3, DoneInv
<1>8. CASE ValidateAffiliation(p)
  <2>1. UNCHANGED tables /\ c.pc = "validate"
        /\ (Done(p) \/ Goto(p, "insertUser") \/ Goto(p, "updateUser"))
    BY <1>8 DEF ValidateAffiliation, At, tables
  <2>2. ContextOK([c EXCEPT !.pc = "insertUser"]) /\ ContextOK([c EXCEPT !.pc = "updateUser"])
    BY <1>0, <2>1 DEF ContextOK, Context, Writes
  <2> QED
    BY <2>1, <2>2, GotoInv, DoneInv DEF PCs
<1>9. CASE InsertUser(p)
  BY <1>9, StoreInv DEF InsertUser, At
<1>10. CASE UpdateUser(p)
  BY <1>10, StoreInv DEF UpdateUser, At
<1> QED
  BY <1>1, <1>2, <1>3, <1>4, <1>5, <1>6, <1>7, <1>8, <1>9, <1>10 DEF Proceed

\* A restart loads the configuration and forgets the requests.
LEMMA RestartInv == ASSUME Inv, Restart PROVE Inv'
<1>1. TypeOK'
  BY IdleOK, AffiliationAssumption DEF Restart, Inv, TypeOK
<1>2. ContextsOK'
  BY IdleOK DEF Restart, ContextsOK
<1>3. AttributeInSync'
  <2>1. \A id \in Ids : home[id] = Gone => attr[id] = Root
    BY AffiliationAssumption DEF Inv, TypeOK, AttributeInSync
  <2> QED
    BY <2>1 DEF Restart, Inv, TypeOK, AttributeInSync
<1>4. CertificatesHaveOwners'
  BY DEF Restart, Inv, TypeOK, CertificatesHaveOwners
<1> QED
  BY <1>1, <1>2, <1>3, <1>4 DEF Inv

LEMMA NextInv == Inv /\ [Next]_vars => Inv'
<1> SUFFICES ASSUME Inv, [Next]_vars PROVE Inv'
  OBVIOUS
<1>1. CASE \E p \in Requests : Arrive(p)
  BY <1>1, ArriveInv
<1>2. CASE \E p \in Requests : Proceed(p)
  BY <1>2, ProceedInv
<1>3. CASE Restart
  BY <1>3, RestartInv
<1>4. CASE UNCHANGED vars
  BY <1>4 DEF vars, Inv, TypeOK, ContextsOK, AttributeInSync, CertificatesHaveOwners
<1> QED
  BY <1>1, <1>2, <1>3, <1>4 DEF Next

\* The inductive invariant holds in every state.
THEOREM Invariance == Spec => []Inv
BY InitInv, NextInv, PTL DEF Spec

\* The tables and the request contexts keep their shape.
THEOREM TypeCorrect == Spec => []TypeOK
<1>1. Inv => TypeOK
  BY DEF Inv
<1> QED
  BY <1>1, Invariance, PTL

\* hf.Affiliation is the column affiliation, or absent, under every
\* interleaving of renamings, deletions, registrations and modifications.
THEOREM AttributesInSync == Spec => []AttributeInSync
<1>1. Inv => AttributeInSync
  BY DEF Inv
<1> QED
  BY <1>1, Invariance, PTL

\* No certificate outlives the row of its identity.
THEOREM CertificateOwners == Spec => []CertificatesHaveOwners
<1>1. Inv => CertificatesHaveOwners
  BY DEF Inv
<1> QED
  BY <1>1, Invariance, PTL

-----------------------------------------------------------------------------
(* What each step writes, and the abstract hierarchy *)

LEMMA NameSeq == \A n \in Names : n \in Seq(Segments) /\ n # <<>> /\ n # Gone
BY AffiliationAssumption

\* The tables change by one insertion, deletion, renaming or stored identity,
\* and the first three stay within the authority of their caller.
Writing(p) ==
    LET c == ctx[p]
    IN  \/ UNCHANGED <<affs, home>>
        \/ /\ c.name \in Names /\ c.next \in 1 .. Len(c.name) /\ IsPrefix(c.aff, c.name)
           /\ affs' = affs \cup {Inserted(c)} /\ UNCHANGED home
        \/ /\ c.name \in Names /\ IsPrefix(c.aff, c.name)
           /\ affs' = {n \in affs : ~Selects(c.name, n)}
           /\ home' = [id \in Ids |-> IF id \in Members(c.name) THEN Gone ELSE home[id]]
        \/ /\ c.name \in Names /\ IsPrefix(c.aff, c.name)
           /\ c.new \in Names /\ IsPrefix(c.aff, c.new)
           /\ RenameCommit(c) /\ ~Clashes(c)
        \/ /\ c.id \in Ids /\ c.home \in Names \cup {Root}
           /\ UNCHANGED affs /\ home' = [home EXCEPT ![c.id] = c.home]

LEMMA ProceedWrites == ASSUME Inv, NEW p \in Requests, Proceed(p) PROVE Writing(p)
<1> DEFINE c == ctx[p]
<1>0. c \in Context /\ ContextOK(c)
  BY DEF Inv, TypeOK, ContextsOK
<1>1. CASE AddExists(p) \/ AddParent(p) \/ Lookup(p) \/ RenameFree(p) \/ ValidateAffiliation(p)
  BY <1>1 DEF AddExists, AddParent, Lookup, RenameFree, ValidateAffiliation, Writing
<1>2. CASE InsertAffiliation(p)
  <2>1. c.pc = "insert" /\ affs' = affs \cup {Inserted(c)} /\ UNCHANGED home
    BY <1>2 DEF InsertAffiliation, At
  <2>2. c.name \in Names /\ c.next \in 1 .. Len(c.name) /\ IsPrefix(c.aff, c.name)
    BY <1>0, <2>1 DEF ContextOK, Writes
  <2> QED
    BY <2>1, <2>2 DEF Writing
<1>3. CASE DeleteAffiliationTx(p)
  <2>1. c.name \in Names /\ IsPrefix(c.aff, c.name)
    BY <1>0, <1>3 DEF DeleteAffiliationTx, At, ContextOK, Writes
  <2>2. \/ UNCHANGED <<affs, home>>
        \/ /\ affs' = {n \in affs : ~Selects(c.name, n)}
           /\ home' = [id \in Ids |-> IF id \in Members(c.name) THEN Gone ELSE home[id]]
    BY <1>3 DEF DeleteAffiliationTx
  <2> QED
    BY <2>1, <2>2 DEF Writing
<1>4. CASE ModifyAffiliationTx(p)
  <2>1. c.pc = "rename" /\ c.op = "rename"
    BY <1>0, <1>4 DEF ModifyAffiliationTx, At, ContextOK
  <2>2. /\ c.name \in Names /\ IsPrefix(c.aff, c.name)
        /\ c.new \in Names /\ IsPrefix(c.aff, c.new)
    BY <1>0, <2>1 DEF ContextOK, Writes
  <2>3. UNCHANGED <<affs, home>> \/ (RenameCommit(c) /\ ~Clashes(c))
    BY <1>4 DEF ModifyAffiliationTx, RenamePanic
  <2> QED
    BY <2>2, <2>3 DEF Writing
<1>5. CASE InsertUser(p) \/ UpdateUser(p)
  <2>1. c.id \in Ids
    BY <1>0, <1>5 DEF InsertUser, UpdateUser, At, ContextOK, Writes
  <2>2. c.home \in Names \cup {Root}
    BY <1>0 DEF Context
  <2>3. UNCHANGED affs /\ (UNCHANGED home \/ home' = [home EXCEPT ![c.id] = c.home])
    BY <1>5 DEF InsertUser, UpdateUser, Stored
  <2> QED
    BY <2>1, <2>2, <2>3 DEF Writing
<1> QED
  BY <1>1, <1>2, <1>3, <1>4, <1>5 DEF Proceed

LEMMA SelectsWithin ==
    ASSUME ExactLike, NEW o \in Names, NEW m \in Names
    PROVE  Selects(o, m) <=> m \in Tree!Within(o)
<1>1. Selects(o, m) <=> IsPrefix(o, m)
  BY SelectsPrefix, NameSeq
<1>2. m \in Tree!Within(o) <=> IsPrefix(o, m)
  BY DEF Tree!Within, Tree!IsPrefix, IsPrefix
<1> QED
  BY <1>1, <1>2

\* An identity that is selected has an affiliation of the subtree.
LEMMA MembersWithin ==
    ASSUME Inv, ExactLike, NEW o \in Names, NEW id \in Ids
    PROVE  id \in Members(o) <=> home[id] \in Tree!Within(o)
<1>1. home[id] \in Names \cup {Root, Gone} /\ Gone \notin Names /\ Root \notin Names
  BY AffiliationAssumption, NameSeq DEF Inv, TypeOK, Root
<1>2. ~Selects(o, Root)
  <2>1. Len(o) \in Nat /\ Len(Root) = 0 /\ o # Root
    BY NameSeq, LenProperties DEF Root
  <2> QED
    BY <2>1 DEF Selects, LikeBelow
<1>4. home[id] \in Names => (home[id] \in Tree!Within(o) <=> Selects(o, home[id]))
  BY SelectsWithin
<1>5. home[id] \notin Names => home[id] \notin Tree!Within(o)
  BY DEF Tree!Within
<1>6. id \in Members(o) <=> home[id] # Gone /\ Selects(o, home[id])
  BY DEF Members
<1> HIDE DEF Root
<1> QED
  BY <1>1, <1>2, <1>4, <1>5, <1>6

\* What a renaming makes of a name it selects.
LEMMA RenamedMoved ==
    ASSUME ExactLike, NEW o \in Names, NEW n \in Names, NEW m \in Names, Selects(o, m)
    PROVE  Renamed(o, n, m) = Tree!Moved(o, n, m) /\ IsPrefix(n, Renamed(o, n, m))
<1> DEFINE t == SubSeq(m, Len(o) + 1, Len(m))
<1>1. o \in Seq(Segments) /\ o # <<>> /\ n \in Seq(Segments) /\ m \in Seq(Segments)
  BY NameSeq
<1>2. IsPrefix(o, m)
  BY <1>1, SelectsPrefix
<1>3. Renamed(o, n, m) = n \o t
  BY <1>1, <1>2, RenamedPrefix
<1>4. t \in Seq(Segments)
  <2>1. Len(o) \in Nat /\ Len(m) \in Nat
    BY <1>1, LenProperties
  <2>2. CASE Len(o) + 1 > Len(m)
    BY <2>1, <2>2, SubSeqEmpty, EmptySeq
  <2>3. CASE Len(o) + 1 <= Len(m)
    BY <1>1, <2>1, <2>3, SubSeqProperties
  <2> QED
    BY <2>1, <2>2, <2>3
<1>5. IsPrefix(n, n \o t)
  BY <1>1, <1>4, PrefixOfConcat
<1> QED
  BY <1>3, <1>5 DEF Tree!Moved

\* What a handler writes is one step of the abstract hierarchy.
LEMMA TreeStep == ASSUME Inv, ExactLike, NEW p \in Requests, Writing(p)
                  PROVE  [Tree!Next]_<<affs, home>>
<1> DEFINE c == ctx[p]
<1>1. CASE UNCHANGED <<affs, home>>
  BY <1>1
<1>2. CASE /\ c.name \in Names /\ c.next \in 1 .. Len(c.name)
           /\ affs' = affs \cup {Inserted(c)} /\ UNCHANGED home
  <2>1. c.next \in DOMAIN c.name
    BY <1>2, NameSeq, LenProperties
  <2>2. Inserted(c) \in Names
    BY <1>2, <2>1, AffiliationAssumption DEF Inserted
  <2>3. Tree!Create(Inserted(c))
    BY <1>2 DEF Tree!Create
  <2> QED
    BY <2>2, <2>3 DEF Tree!Next
<1>3. CASE /\ c.name \in Names
           /\ affs' = {n \in affs : ~Selects(c.name, n)}
           /\ home' = [id \in Ids |-> IF id \in Members(c.name) THEN Gone ELSE home[id]]
  <2>1. \A n \in affs : Selects(c.name, n) <=> n \in Tree!Within(c.name)
    BY <1>3, SelectsWithin DEF Inv, TypeOK
  <2>2. affs' = affs \ Tree!Within(c.name)
    BY <1>3, <2>1
  <2>3. \A id \in Ids : id \in Members(c.name) <=> home[id] \in Tree!Within(c.name)
    BY <1>3, MembersWithin
  <2>4. home' = [id \in Ids |-> IF home[id] \in Tree!Within(c.name) THEN Gone ELSE home[id]]
    BY <1>3, <2>3
  <2>5. Tree!Delete(c.name)
    BY <2>2, <2>4 DEF Tree!Delete
  <2> QED
    BY <1>3, <2>5 DEF Tree!Next
<1>4. CASE /\ c.name \in Names /\ c.new \in Names
           /\ RenameCommit(c) /\ ~Clashes(c)
  <2> DEFINE old == affs \cap Tree!Within(c.name)
             to(m) == Tree!Moved(c.name, c.new, m)
  <2>1. old = Selected(c.name)
    BY <1>4, SelectsWithin DEF Inv, TypeOK, Selected
  <2>2. \A m \in old : Renamed(c.name, c.new, m) = to(m)
    BY <1>4, <2>1, RenamedMoved DEF Inv, TypeOK, Selected
  <2>3. /\ Changed(c) \subseteq old
        /\ \A m \in old \ Changed(c) : to(m) = m
        /\ \A m \in Changed(c) : Renamed(c.name, c.new, m) = to(m)
    BY <2>1, <2>2 DEF Changed
  <2>4. /\ affs' = (affs \ Changed(c)) \cup {Renamed(c.name, c.new, m) : m \in Changed(c)}
        /\ home' = [id \in Ids |-> IF home[id] \in old
                                   THEN Renamed(c.name, c.new, home[id]) ELSE home[id]]
        /\ \A m \in Changed(c) : Renamed(c.name, c.new, m) \notin affs \ Changed(c)
    BY <1>4, <2>1 DEF RenameCommit, Affected, Clashes
  <2>5. home' = [id \in Ids |-> IF home[id] \in old THEN to(home[id]) ELSE home[id]]
    BY <2>2, <2>4
  <2>6. old \subseteq affs
    OBVIOUS
  <2> HIDE DEF old, to
  <2>7. affs' = (affs \ old) \cup {to(m) : m \in old}
    BY <2>3, <2>4, <2>6
  <2>8. \A m \in old : to(m) \notin affs \ old
    BY <2>3, <2>4
  <2>9. Tree!Rename(c.name, c.new)
    BY <2>5, <2>7, <2>8 DEF Tree!Rename, old, to
  <2> QED
    BY <1>4, <2>9 DEF Tree!Next
<1>5. CASE /\ c.id \in Ids /\ c.home \in Names \cup {Root}
           /\ UNCHANGED affs /\ home' = [home EXCEPT ![c.id] = c.home]
  <2>1. Tree!Enter(c.id, c.home)
    BY <1>5 DEF Tree!Enter
  <2> QED
    BY <1>5, <2>1 DEF Tree!Next, Tree!Root, Root
<1> QED
  BY <1>1, <1>2, <1>3, <1>4, <1>5 DEF Writing

LEMMA NextTree == ASSUME Inv, ExactLike, [Next]_vars PROVE [Tree!Next]_<<affs, home>>
<1>1. CASE \E p \in Requests : Arrive(p)
  BY <1>1 DEF Arrive, StartAdd, StartDelete, StartRename, StartRegister, StartModify,
              AsManager, Authenticate
<1>2. CASE \E p \in Requests : Proceed(p)
  BY <1>2, ProceedWrites, TreeStep
<1>3. CASE Restart
  BY <1>3 DEF Restart, Tree!Load, Tree!Next
<1>4. CASE UNCHANGED vars
  BY <1>4 DEF vars
<1> QED
  BY <1>1, <1>2, <1>3, <1>4 DEF Next

\* The handlers, their races and their crashes included, implement the abstract
\* hierarchy: what they do to the two tables is a sequence of creations,
\* subtree deletions, subtree renamings onto free names and moves of one
\* identity.  Holds where LIKE matches a segment exactly.
THEOREM Implementation == ExactLike => (Spec => TreeSpec)
<1> SUFFICES ASSUME ExactLike PROVE Spec => TreeSpec
  OBVIOUS
<1>1. Init => Tree!Init
  BY DEF Init, Tree!Init
<1>2. Inv /\ [Next]_vars => [Tree!Next]_<<affs, home>>
  BY NextTree
<1> QED
  BY <1>1, <1>2, Invariance, PTL DEF Spec, TreeSpec, Tree!Spec

\* What a handler removes or makes has the prefix that its caller was checked
\* for, whatever happened between the check and the transaction.
LEMMA AuthorityStep ==
    ASSUME Inv, ExactLike, NEW p \in Requests, Writing(p)
    PROVE  /\ \A n \in affs \ affs' : IsPrefix(ctx[p].aff, n)
           /\ \A n \in affs' \ affs : IsPrefix(ctx[p].aff, n) \/ IsPrefix(n, ctx[p].aff)
           /\ affs' # affs =>
               \A id \in Ids : home[id] \notin {home'[id], Gone} => IsPrefix(ctx[p].aff, home[id])
<1> DEFINE c == ctx[p]
<1>0. c.aff \in Seq(Segments)
  <2>1. c.aff \in Names \cup {Root}
    BY DEF Inv, TypeOK, Context
  <2> QED
    BY <2>1, NameSeq, EmptySeq DEF Root
<1>a. ASSUME c.name \in Names, IsPrefix(c.aff, c.name), NEW n \in Names, Selects(c.name, n)
      PROVE  IsPrefix(c.aff, n)
  <2>1. c.name \in Seq(Segments) /\ n \in Seq(Segments) /\ IsPrefix(c.name, n)
    BY <1>a, NameSeq, SelectsPrefix
  <2> QED
    BY <1>0, <1>a, <2>1, PrefixTransitive
<1>1. CASE UNCHANGED <<affs, home>>
  BY <1>1
<1>2. CASE /\ c.name \in Names /\ c.next \in 1 .. Len(c.name) /\ IsPrefix(c.aff, c.name)
           /\ affs' = affs \cup {Inserted(c)} /\ UNCHANGED home
  <2> DEFINE n == Inserted(c)
  <2>1. c.name \in Seq(Segments) /\ Len(c.name) \in Nat /\ c.next \in DOMAIN c.name
    BY <1>2, NameSeq, LenProperties
  <2>2. n \in Seq(Segments)
    BY <1>2, <2>1, AffiliationAssumption, NameSeq DEF Inserted
  <2>3. IsPrefix(n, c.name)
    <3>1. Len(n) = c.next /\ \A i \in 1 .. c.next : n[i] = c.name[i]
      BY <1>2, <2>1, SubSeqProperties DEF Inserted
    <3> HIDE DEF n
    <3>2. Len(n) <= Len(c.name) /\ \A i \in 1 .. Len(n) : n[i] = c.name[i]
      BY <1>2, <3>1
    <3> QED
      BY <2>1, <2>2, <3>2, PrefixElements
  <2>4. IsPrefix(c.aff, n) \/ IsPrefix(n, c.aff)
    BY <1>0, <1>2, <2>1, <2>2, <2>3, PrefixesCompare
  <2> HIDE DEF n
  <2>5. affs \ affs' = {} /\ affs' \ affs \subseteq {n} /\ UNCHANGED home
    BY <1>2 DEF n
  <2> QED
    BY <2>4, <2>5
<1>3. CASE /\ c.name \in Names /\ IsPrefix(c.aff, c.name)
           /\ affs' = {n \in affs : ~Selects(c.name, n)}
           /\ home' = [id \in Ids |-> IF id \in Members(c.name) THEN Gone ELSE home[id]]
  <2>1. \A n \in affs \ affs' : IsPrefix(c.aff, n)
    BY <1>3, <1>a DEF Inv, TypeOK
  <2>2. ASSUME NEW id \in Ids, home[id] \notin {home'[id], Gone}
        PROVE  IsPrefix(c.aff, home[id])
    <3>1. id \in Members(c.name)
      BY <1>3, <2>2
    <3>2. home[id] \in Names /\ Selects(c.name, home[id])
      BY <1>3, <3>1, MembersWithin DEF Members, Tree!Within
    <3> QED
      BY <1>3, <1>a, <3>2
  <2>3. affs' \ affs = {}
    BY <1>3
  <2> QED
    BY <2>1, <2>2, <2>3
<1>4. CASE /\ c.name \in Names /\ IsPrefix(c.aff, c.name)
           /\ c.new \in Names /\ IsPrefix(c.aff, c.new)
           /\ RenameCommit(c) /\ ~Clashes(c)
  <2>1. /\ affs' = (affs \ Changed(c)) \cup {Renamed(c.name, c.new, m) : m \in Changed(c)}
        /\ affs' \subseteq Names
        /\ home' = [id \in Ids |-> IF id \in Affected(c.name)
                                   THEN Renamed(c.name, c.new, home[id]) ELSE home[id]]
    BY <1>4 DEF RenameCommit
  <2>2. \A m \in Selected(c.name) : m \in Names /\ Selects(c.name, m)
    BY DEF Selected, Inv, TypeOK
  <2>3. \A m \in Changed(c) : m \in Selected(c.name)
    BY DEF Changed
  <2>4. \A n \in affs \ affs' : IsPrefix(c.aff, n)
    BY <1>4, <1>a, <2>1, <2>2, <2>3
  <2>5. ASSUME NEW n \in affs' \ affs
        PROVE  IsPrefix(c.aff, n)
    <3>1. PICK m \in Changed(c) : n = Renamed(c.name, c.new, m)
      BY <2>1, <2>5
    <3>2. IsPrefix(c.new, n)
      BY <1>4, <2>2, <2>3, <3>1, RenamedMoved
    <3>3. n \in Names
      BY <2>1
    <3> QED
      BY <1>0, <1>4, <3>2, <3>3, NameSeq, PrefixTransitive
  <2>6. ASSUME NEW id \in Ids, home[id] \notin {home'[id], Gone}
        PROVE  IsPrefix(c.aff, home[id])
    <3>1. home[id] \in Selected(c.name)
      BY <2>1, <2>6 DEF Affected
    <3> QED
      BY <1>4, <1>a, <2>2, <3>1
  <2> QED
    BY <2>4, <2>5, <2>6
<1>5. CASE UNCHANGED affs
  BY <1>5
<1> QED
  BY <1>1, <1>2, <1>3, <1>4, <1>5 DEF Writing

\* Nobody changes the hierarchy, or moves identities with it, outside of the
\* authority he was checked for.
THEOREM Authority == ExactLike => (Spec => AuthorityRespected)
<1> SUFFICES ASSUME ExactLike PROVE Spec => AuthorityRespected
  OBVIOUS
<1> DEFINE A == \A p \in Requests : Proceed(p) =>
        /\ \A n \in affs \ affs' : IsPrefix(ctx[p].aff, n)
        /\ \A n \in affs' \ affs : IsPrefix(ctx[p].aff, n) \/ IsPrefix(n, ctx[p].aff)
        /\ affs' # affs =>
            \A id \in Ids : home[id] \notin {home'[id], Gone} => IsPrefix(ctx[p].aff, home[id])
<1>1. Inv /\ [Next]_vars => [A]_vars
  BY ProceedWrites, AuthorityStep
<1> QED
  BY <1>1, Invariance, PTL DEF Spec, AuthorityRespected

-----------------------------------------------------------------------------
(* One request at a time *)

\* Where handlers do not overlap, and renamings leave an affiliation under its
\* parent, what a handler has looked up is still so when it writes.
OneAtATime == \A p, q \in Requests : p = q
KeepsParent == \A r \in Renames : Parent(r[1]) = Parent(r[2])
Sequential == ExactLike /\ OneAtATime /\ KeepsParent

\* ParentsExist says this of one level at a time; a renaming is stopped by what
\* is below its new name at any depth.
Closed(A) == \A n \in A : \A i \in 1 .. Len(n) : SubSeq(n, 1, i) \in A

\* What a handler knows of the affiliations A: it inserts after the ancestors,
\* renames to a free name, stores an affiliation that exists.
Knows(c, A) ==
    /\ c.pc = "insert" => \A i \in 1 .. c.next - 1 : SubSeq(c.name, 1, i) \in A
    /\ c.pc = "parent" => c.next = Len(c.name)
    /\ c.pc # "idle" /\ c.op = "rename" => Parent(c.name) = Parent(c.new)
    /\ c.pc = "rename" => c.new \notin A
    /\ c.pc \in {"insertUser", "updateUser"} => c.home \in A \cup {Root}

SequentialInv ==
    /\ Closed(affs)
    /\ NoDanglingIdentity
    /\ ConnectionReturned
    /\ \A p \in Requests : Knows(ctx[p], affs)

LEMMA Cut ==
    ASSUME NEW S, NEW s \in Seq(S), NEW i \in 1 .. Len(s)
    PROVE  /\ SubSeq(s, 1, i) \in Seq(S) /\ Len(SubSeq(s, 1, i)) = i
           /\ \A j \in 1 .. i : SubSeq(s, 1, i)[j] = s[j]
BY SubSeqProperties, LenProperties

\* A path is cut where another one with the same beginning is.
LEMMA SameCut ==
    ASSUME NEW S, NEW s \in Seq(S), NEW t \in Seq(S), NEW i \in 1 .. Len(s), i <= Len(t),
           \A j \in 1 .. i : s[j] = t[j]
    PROVE  SubSeq(s, 1, i) = SubSeq(t, 1, i)
<1> DEFINE a == SubSeq(s, 1, i)
           b == SubSeq(t, 1, i)
<1>1. i \in 1 .. Len(t)
  BY LenProperties
<1>2. a \in Seq(S) /\ Len(a) = i /\ \A j \in 1 .. i : a[j] = s[j]
  BY Cut
<1>3. b \in Seq(S) /\ Len(b) = i /\ \A j \in 1 .. i : b[j] = t[j]
  BY <1>1, Cut
<1> HIDE DEF a, b
<1>4. a = b
  BY <1>2, <1>3, SeqEqual
<1> QED
  BY <1>4 DEF a, b

LEMMA CutCut ==
    ASSUME NEW S, NEW s \in Seq(S), NEW i \in 1 .. Len(s), NEW j \in 1 .. i
    PROVE  SubSeq(SubSeq(s, 1, i), 1, j) = SubSeq(s, 1, j)
<1> DEFINE t == SubSeq(s, 1, i)
<1>1. t \in Seq(S) /\ Len(t) = i /\ (\A l \in 1 .. i : t[l] = s[l]) /\ Len(s) \in Nat
  BY Cut, LenProperties
<1>2. j \in 1 .. Len(t) /\ j <= Len(s) /\ \A l \in 1 .. j : t[l] = s[l]
  BY <1>1
<1> HIDE DEF t
<1>3. SubSeq(t, 1, j) = SubSeq(s, 1, j)
  BY <1>1, <1>2, SameCut
<1> QED
  BY <1>3 DEF t

\* Two names with the same parent differ in the last segment only.
LEMMA Siblings ==
    ASSUME NEW o \in Names, NEW n \in Names, Parent(o) = Parent(n)
    PROVE  Len(o) = Len(n) /\ Len(o) \in Nat \ {0} /\ \A j \in 1 .. Len(o) - 1 : o[j] = n[j]
<1>1. /\ o \in Seq(Segments) /\ n \in Seq(Segments)
      /\ Len(o) \in Nat \ {0} /\ Len(n) \in Nat \ {0}
  BY AffiliationAssumption, LenProperties, EmptySeq
<1>2. SubSeq(o, 1, Len(o) - 1) = SubSeq(n, 1, Len(n) - 1)
  BY DEF Parent, Front
<1>a. ASSUME NEW s \in Seq(Segments), Len(s) \in Nat \ {0}
      PROVE  /\ Len(SubSeq(s, 1, Len(s) - 1)) = Len(s) - 1
             /\ \A j \in 1 .. Len(s) - 1 : SubSeq(s, 1, Len(s) - 1)[j] = s[j]
  <2>1. CASE Len(s) = 1
    <3>1. SubSeq(s, 1, 0) = <<>> /\ Len(<<>>) = 0
      BY SubSeqEmpty, EmptySeq
    <3> QED
      BY <2>1, <3>1
  <2>2. CASE Len(s) # 1
    <3> DEFINE l == Len(s)
    <3>1. l \in Nat \ {0} /\ l # 1
      BY <1>a, <2>2
    <3> HIDE DEF l
    <3>2. l - 1 \in 1 .. l
      BY <3>1
    <3>3. l - 1 \in 1 .. Len(s)
      BY <3>2 DEF l
    <3>4. /\ Len(SubSeq(s, 1, l - 1)) = l - 1
          /\ \A j \in 1 .. l - 1 : SubSeq(s, 1, l - 1)[j] = s[j]
      BY <3>3, Cut
    <3> QED
      BY <3>4 DEF l
  <2> QED
    BY <2>1, <2>2
<1>3. Len(o) - 1 = Len(n) - 1
  BY <1>1, <1>2, <1>a
<1>4. Len(o) = Len(n)
  BY <1>1, <1>3
<1>5. \A j \in 1 .. Len(o) - 1 : o[j] = n[j]
  BY <1>1, <1>2, <1>4, <1>a
<1> QED
  BY <1>1, <1>4, <1>5

\* A renaming under the same parent replaces one segment.
LEMMA RenamedSegment ==
    ASSUME ExactLike, NEW o \in Names, NEW n \in Names, Parent(o) = Parent(n),
           NEW m \in Seq(Segments), Selects(o, m)
    PROVE  /\ Renamed(o, n, m) \in Seq(Segments)
           /\ Len(Renamed(o, n, m)) = Len(m) /\ Len(m) \in Nat
           /\ Len(o) \in 1 .. Len(m) /\ Len(n) = Len(o)
           /\ \A j \in 1 .. Len(m) :
                /\ Renamed(o, n, m)[j] = IF j = Len(o) THEN n[j] ELSE m[j]
                /\ j < Len(o) => o[j] = m[j]
                /\ j <= Len(o) => Renamed(o, n, m)[j] = n[j]
<1> DEFINE k == Len(o)
           t == SubSeq(m, k + 1, Len(m))
           r == n \o t
<1>1. /\ o \in Seq(Segments) /\ n \in Seq(Segments) /\ o # <<>>
      /\ k \in Nat \ {0} /\ Len(n) = k /\ Len(m) \in Nat
      /\ \A j \in 1 .. k - 1 : o[j] = n[j]
  BY Siblings, AffiliationAssumption, LenProperties
<1>2. IsPrefix(o, m)
  BY <1>1, SelectsPrefix
<1>3. k <= Len(m) /\ \A j \in 1 .. k : o[j] = m[j]
  BY <1>1, <1>2, PrefixElements
<1>4. t \in Seq(Segments) /\ Len(t) = Len(m) - k /\ \A j \in 1 .. Len(m) - k : t[j] = m[k + j]
  <2>1. CASE k = Len(m)
    <3>1. t = <<>>
      BY <1>1, <2>1, SubSeqEmpty
    <3> QED
      BY <1>1, <2>1, <3>1, EmptySeq
  <2>2. CASE k # Len(m)
    <3>0. \A j \in k + 1 .. Len(m) : m[j] \in Segments
      <4>1. DOMAIN m = 1 .. Len(m)
        BY LenProperties
      <4> QED
        BY <1>1, <4>1, ElementOfSeq
    <3> DEFINE l == Len(m)
               f == k + 1
    <3>1. /\ t \in Seq(Segments) /\ Len(t) = IF f <= l THEN l - f + 1 ELSE 0
          /\ \A j \in 1 .. l - f + 1 : t[j] = m[f + j - 1]
      <4>1. f \in Int /\ l \in Int
        BY <1>1
      <4> HIDE DEF f, l
      <4>2. /\ SubSeq(m, f, l) \in Seq(Segments)
            /\ Len(SubSeq(m, f, l)) = IF f <= l THEN l - f + 1 ELSE 0
            /\ \A j \in 1 .. l - f + 1 : SubSeq(m, f, l)[j] = m[f + j - 1]
        BY <3>0, <4>1, SubSeqProperties DEF f, l
      <4> QED
        BY <4>2 DEF f, l
    <3>2. k \in Nat /\ l \in Nat /\ k < l
      BY <1>1, <1>3, <2>2
    <3> HIDE DEF t, k, l
    <3>3. f <= l /\ l - f + 1 = l - k /\ \A j \in 1 .. l - k : f + j - 1 = k + j
      BY <3>2
    <3> HIDE DEF f
    <3>4. Len(t) = l - k
      BY <3>1, <3>3
    <3>5. \A j \in 1 .. l - k : t[j] = m[k + j]
      BY <3>1, <3>3
    <3> QED
      BY <3>1, <3>4, <3>5 DEF l
  <2> QED
    BY <2>1, <2>2
<1>5. Renamed(o, n, m) = r
  BY <1>1, <1>2, RenamedPrefix
<1> HIDE DEF t, k
<1>6. /\ r \in Seq(Segments) /\ Len(r) = Len(n) + Len(t)
      /\ \A j \in 1 .. Len(n) + Len(t) : r[j] = IF j <= Len(n) THEN n[j] ELSE t[j - Len(n)]
  BY <1>1, <1>4, ConcatProperties
<1> HIDE DEF r
<1>7. Len(r) = Len(m) /\ \A j \in 1 .. Len(m) : r[j] = IF j <= k THEN n[j] ELSE t[j - k]
  BY <1>1, <1>3, <1>4, <1>6
<1>8. ASSUME NEW j \in 1 .. Len(m), j > k PROVE r[j] = m[j]
  <2>1. j - k \in 1 .. Len(m) - k /\ k + (j - k) = j
    BY <1>1, <1>8
  <2>2. r[j] = t[j - k]
    BY <1>1, <1>7, <1>8
  <2> QED
    BY <1>4, <2>1, <2>2
<1>9. ASSUME NEW j \in 1 .. Len(m)
      PROVE  /\ r[j] = IF j = k THEN n[j] ELSE m[j]
             /\ j < k => o[j] = m[j]
             /\ j <= k => r[j] = n[j]
  <2>1. CASE j > k
    BY <1>1, <1>8, <2>1
  <2>2. CASE j = k
    BY <1>1, <1>7, <2>2
  <2>3. CASE j < k
    <3>1. j \in 1 .. k - 1 /\ j \in 1 .. k
      BY <1>1, <2>3
    <3>2. r[j] = n[j] /\ n[j] = o[j] /\ o[j] = m[j]
      BY <1>1, <1>3, <1>7, <2>3, <3>1
    <3> QED
      BY <1>1, <2>3, <3>2
  <2> QED
    BY <1>1, <2>1, <2>2, <2>3
<1> QED
  BY <1>1, <1>3, <1>5, <1>6, <1>7, <1>9 DEF k

\* The one request there is moves on to c.
LEMMA KnowStep ==
    ASSUME Inv, OneAtATime, NEW p \in Requests, NEW c, Become(p, c), Knows(c, affs'),
           Closed(affs'), NoDanglingIdentity', ConnectionReturned'
    PROVE  SequentialInv'
<1>1. ctx'[p] = c
  BY DEF Become, Inv, TypeOK
<1>2. \A q \in Requests : Knows(ctx'[q], affs')
  BY <1>1 DEF OneAtATime
<1> QED
  BY <1>2 DEF SequentialInv

LEMMA KnowRead ==
    ASSUME Inv, SequentialInv, OneAtATime, NEW p \in Requests, NEW c, Become(p, c),
           UNCHANGED tables, Knows(c, affs)
    PROVE  SequentialInv'
<1>1. affs' = affs /\ NoDanglingIdentity' /\ ConnectionReturned'
  BY DEF SequentialInv, NoDanglingIdentity, ConnectionReturned, tables
<1>2. Closed(affs') /\ Knows(c, affs')
  BY <1>1 DEF SequentialInv
<1> QED
  BY <1>1, <1>2, KnowStep

LEMMA IdleKnows == \A A : Knows(Idle, A)
BY DEF Knows, Idle

LEMMA ArriveSequential ==
    ASSUME Inv, SequentialInv, Sequential, NEW p \in Requests, Arrive(p)
    PROVE  SequentialInv'
<1>0. OneAtATime
  BY DEF Sequential
<1>1. CASE StartAdd(p)
  <2>1. PICK caller \in Ids, n \in Added, force \in BOOLEAN :
          Become(p, [Idle EXCEPT !.op = "add", !.pc = "exists", !.name = n,
                                 !.aff = home[caller], !.force = force])
    BY <1>1 DEF StartAdd
  <2> DEFINE c == [Idle EXCEPT !.op = "add", !.pc = "exists", !.name = n,
                               !.aff = home[caller], !.force = force]
  <2>2. c.op = "add" /\ c.pc = "exists" /\ Become(p, c)
    BY <2>1 DEF Idle
  <2>3. UNCHANGED tables
    BY <1>1 DEF StartAdd, AsManager, Authenticate, tables
  <2> HIDE DEF c
  <2> QED
    BY <1>0, <2>2, <2>3, KnowRead DEF Knows
<1>2. CASE StartDelete(p)
  <2>1. PICK caller \in Ids, n \in Names, force \in BOOLEAN :
          Become(p, [Idle EXCEPT !.op = "delete", !.pc = "lookup", !.name = n,
                          !.aff = home[caller], !.force = force,
                          !.registrar = (Roles[caller] = "some")])
    BY <1>2 DEF StartDelete
  <2> DEFINE c == [Idle EXCEPT !.op = "delete", !.pc = "lookup", !.name = n,
                          !.aff = home[caller], !.force = force,
                          !.registrar = (Roles[caller] = "some")]
  <2>2. c.op = "delete" /\ c.pc = "lookup" /\ Become(p, c)
    BY <2>1 DEF Idle
  <2>3. UNCHANGED tables
    BY <1>2 DEF StartDelete, AsManager, Authenticate, tables
  <2> HIDE DEF c
  <2> QED
    BY <1>0, <2>2, <2>3, KnowRead DEF Knows
<1>3. CASE StartRename(p)
  <2>1. PICK caller \in Ids, f \in Renames, force \in BOOLEAN :
          Become(p, [Idle EXCEPT !.op = "rename", !.pc = "lookup", !.name = f[1],
                          !.new = f[2], !.aff = home[caller], !.force = force,
                          !.registrar = (Roles[caller] = "some")])
    BY <1>3 DEF StartRename
  <2> DEFINE c == [Idle EXCEPT !.op = "rename", !.pc = "lookup", !.name = f[1],
                          !.new = f[2], !.aff = home[caller], !.force = force,
                          !.registrar = (Roles[caller] = "some")]
  <2>2. c.op = "rename" /\ c.pc = "lookup" /\ c.name = f[1] /\ c.new = f[2] /\ Become(p, c)
    BY <2>1 DEF Idle
  <2>3. UNCHANGED tables /\ Parent(f[1]) = Parent(f[2])
    BY <1>3 DEF StartRename, AsManager, Authenticate, tables, Sequential, KeepsParent
  <2> HIDE DEF c
  <2> QED
    BY <1>0, <2>2, <2>3, KnowRead DEF Knows
<1>4. CASE StartRegister(p)
  <2>1. PICK id \in Ids, a \in Names \cup {Root} :
          Become(p, [Idle EXCEPT !.op = "register", !.id = id, !.home = a, !.attr = a,
                          !.pc = IF a = Root THEN "insertUser" ELSE "validate"])
    BY <1>4 DEF StartRegister
  <2> DEFINE c == [Idle EXCEPT !.op = "register", !.id = id, !.home = a, !.attr = a,
                          !.pc = IF a = Root THEN "insertUser" ELSE "validate"]
  <2>2. /\ c.op = "register" /\ c.home = a /\ Become(p, c)
        /\ c.pc = IF a = Root THEN "insertUser" ELSE "validate"
    BY <2>1 DEF Idle
  <2>3. UNCHANGED tables
    BY <1>4 DEF StartRegister, Authenticate, tables
  <2> HIDE DEF c
  <2> QED
    BY <1>0, <2>2, <2>3, KnowRead DEF Knows
<1>5. CASE StartModify(p)
  <2> DEFINE c(id, pc, a, b) == [Idle EXCEPT !.op = "modify", !.id = id, !.pc = pc,
                                             !.home = a, !.attr = b]
  <2>1. PICK id \in Ids :
          /\ home[id] # Gone
          /\ \/ Become(p, c(id, "updateUser", home[id], attr[id]))
             \/ \E a \in Names : Become(p, c(id, "validate", a, a))
             \/ Become(p, c(id, "updateUser", Root, Root))
    BY <1>5 DEF StartModify
  <2>2. UNCHANGED tables
    BY <1>5 DEF StartModify, Authenticate, tables
  <2>3. home[id] \in affs \cup {Root}
    BY <2>1 DEF SequentialInv, NoDanglingIdentity
  <2>4. \A pc, a, b : /\ c(id, pc, a, b).op = "modify" /\ c(id, pc, a, b).pc = pc
                      /\ c(id, pc, a, b).home = a
    BY DEF Idle
  <2> HIDE DEF c
  <2>5. /\ Knows(c(id, "updateUser", home[id], attr[id]), affs)
        /\ Knows(c(id, "updateUser", Root, Root), affs)
        /\ \A a : Knows(c(id, "validate", a, a), affs)
    BY <2>3, <2>4 DEF Knows
  <2> QED
    BY <1>0, <2>1, <2>2, <2>5, KnowRead
<1> QED
  BY <1>1, <1>2, <1>3, <1>4, <1>5 DEF Arrive

\* An affiliation is inserted below its ancestors.
LEMMA InsertSequential ==
    ASSUME Inv, SequentialInv, Sequential, NEW p \in Requests, InsertAffiliation(p)
    PROVE  SequentialInv'
<1> DEFINE c == ctx[p]
           n == Inserted(c)
<1>1. /\ c \in Context /\ c.pc = "insert"
      /\ c.name \in Names /\ c.next \in 1 .. Len(c.name)
      /\ c.name \in Seq(Segments) /\ Len(c.name) \in Nat
      /\ \A i \in 1 .. c.next - 1 : SubSeq(c.name, 1, i) \in affs
  BY AffiliationAssumption, LenProperties
     DEF InsertAffiliation, At, Inv, TypeOK, ContextsOK, ContextOK, Writes, SequentialInv, Knows
<1>2. affs' = affs \cup {n} /\ UNCHANGED <<home, conn>>
  BY DEF InsertAffiliation
<1>3. Len(n) = c.next /\ \A i \in 1 .. c.next : SubSeq(n, 1, i) = SubSeq(c.name, 1, i)
  BY <1>1, Cut, CutCut DEF Inserted
<1>4. n = SubSeq(c.name, 1, c.next)
  BY DEF Inserted
<1> HIDE DEF n
<1>5. \A i \in 1 .. c.next : SubSeq(c.name, 1, i) \in affs'
  <2> SUFFICES ASSUME NEW i \in 1 .. c.next PROVE SubSeq(c.name, 1, i) \in affs'
    OBVIOUS
  <2>1. CASE i = c.next
    BY <1>2, <1>4, <2>1
  <2>2. CASE i # c.next
    <3>1. c.next \in Nat /\ i \in 1 .. c.next - 1
      BY <1>1, <2>2
    <3> QED
      BY <1>1, <1>2, <3>1
  <2> QED
    BY <2>1, <2>2
<1>6. Closed(affs')
  <2> SUFFICES ASSUME NEW m \in affs', NEW i \in 1 .. Len(m) PROVE SubSeq(m, 1, i) \in affs'
    BY DEF Closed
  <2>1. CASE m \in affs
    BY <1>2, <2>1 DEF SequentialInv, Closed
  <2>2. CASE m = n
    BY <1>3, <1>5, <2>2
  <2> QED
    BY <1>2, <2>1, <2>2
<1>7. NoDanglingIdentity' /\ ConnectionReturned'
  BY <1>2 DEF SequentialInv, NoDanglingIdentity, ConnectionReturned
<1>8. CASE c.next < Len(c.name)
  <2> DEFINE d == [c EXCEPT !.next = After(c.next)]
  <2>1. Become(p, d)
    BY <1>8 DEF InsertAffiliation
  <2>2. d.pc = "insert" /\ d.op = c.op /\ d.name = c.name /\ d.new = c.new /\ d.next = c.next + 1
    BY <1>1 DEF Context, After
  <2> HIDE DEF d
  <2>3. d.next - 1 = c.next
    BY <1>1, <2>2
  <2>6. \A i \in 1 .. d.next - 1 : SubSeq(d.name, 1, i) \in affs'
    BY <1>5, <2>2, <2>3
  <2>4. c.op = "rename" => Parent(c.name) = Parent(c.new)
    BY <1>1 DEF SequentialInv, Knows
  <2>5. Knows(d, affs')
    BY <1>1, <2>2, <2>4, <2>6 DEF Knows
  <2> QED
    BY <1>6, <1>7, <2>1, <2>5, KnowStep DEF Sequential
<1>9. CASE ~(c.next < Len(c.name))
  <2>1. Become(p, Idle)
    BY <1>9 DEF InsertAffiliation, Done
  <2> QED
    BY <1>6, <1>7, <2>1, IdleKnows, KnowStep DEF Sequential
<1> QED
  BY <1>8, <1>9

\* Below a name that stays, everything that is selected is deleted.
LEMMA DeleteSequential ==
    ASSUME Inv, SequentialInv, Sequential, NEW p \in Requests, DeleteAffiliationTx(p)
    PROVE  SequentialInv'
<1> DEFINE o == ctx[p].name
<1>1. o \in Names /\ Become(p, Idle) /\ UNCHANGED conn
  BY DEF DeleteAffiliationTx, At, Inv, ContextsOK, ContextOK, Writes, Done
<1>2. CASE MayDelete(ctx[p])
  <2>1. /\ affs' = {n \in affs : ~Selects(o, n)}
        /\ home' = [id \in Ids |-> IF id \in Members(o) THEN Gone ELSE home[id]]
    BY <1>2 DEF DeleteAffiliationTx
  <2> HIDE DEF o
  <2>2. Closed(affs')
    <3> SUFFICES ASSUME NEW n \in affs, ~Selects(o, n), NEW i \in 1 .. Len(n)
                 PROVE  SubSeq(n, 1, i) \in affs /\ ~Selects(o, SubSeq(n, 1, i))
      BY <2>1 DEF Closed
    <3> DEFINE a == SubSeq(n, 1, i)
    <3>1. a \in affs
      BY DEF SequentialInv, Closed
    <3>2. /\ n \in Seq(Segments) /\ a \in Seq(Segments) /\ o \in Seq(Segments)
          /\ Len(n) \in Nat /\ Len(a) = i /\ \A j \in 1 .. i : a[j] = n[j]
      BY <1>1, NameSeq, LenProperties, Cut DEF Inv, TypeOK
    <3> HIDE DEF a
    <3>3. IsPrefix(a, n)
      BY <3>2, PrefixElements
    <3>4. Selects(o, a) => Selects(o, n)
      BY <3>2, <3>3, SelectsPrefix, PrefixTransitive DEF Sequential
    <3>5. a \in affs /\ ~Selects(o, a)
      BY <3>1, <3>4
    <3> QED
      BY <3>5 DEF a
  <2>3. NoDanglingIdentity'
    BY <2>1 DEF NoDanglingIdentity, SequentialInv, Members
  <2> QED
    BY <1>1, <2>2, <2>3, IdleKnows, KnowStep DEF Sequential, SequentialInv, ConnectionReturned
<1>3. CASE ~MayDelete(ctx[p])
  <2>1. UNCHANGED tables
    BY <1>3 DEF DeleteAffiliationTx, tables
  <2> QED
    BY <1>1, <2>1, IdleKnows, KnowRead DEF Sequential
<1> QED
  BY <1>2, <1>3

\* Nothing exists below a name that does not, so no UPDATE of a renaming onto
\* a free sibling meets another name: it commits, and what it leaves is closed.
LEMMA RenameMeetsNothing ==
    ASSUME Inv, Closed(affs), ExactLike, NEW o \in Names, NEW n \in Names,
           Parent(o) = Parent(n), n \notin affs, NEW m \in Selected(o)
    PROVE  /\ m \in affs /\ m \in Seq(Segments) /\ Selects(o, m)
           /\ Renamed(o, n, m) \notin affs
<1>1. m \in affs /\ m \in Seq(Segments) /\ Selects(o, m)
  BY NameSeq DEF Selected, Inv, TypeOK
<1> DEFINE r == Renamed(o, n, m)
           k == Len(o)
<1>2. /\ r \in Seq(Segments) /\ Len(r) = Len(m) /\ Len(m) \in Nat
      /\ k \in 1 .. Len(m) /\ Len(n) = k
      /\ \A j \in 1 .. Len(m) : j <= k => r[j] = n[j]
  BY <1>1, RenamedSegment
<1>3. n \in Seq(Segments) /\ SubSeq(n, 1, k) = n
  BY <1>2, NameSeq, SubSeqFull
<1> HIDE DEF r, k
<1>4. ASSUME r \in affs PROVE FALSE
  <2>1. k \in 1 .. Len(r) /\ k <= Len(n) /\ \A j \in 1 .. k : r[j] = n[j]
    BY <1>2
  <2>2. SubSeq(r, 1, k) = n
    BY <1>2, <1>3, <2>1, SameCut
  <2> QED
    BY <1>4, <2>1, <2>2 DEF Closed
<1> QED
  BY <1>1, <1>4 DEF r

\* Two names below o stay two names.
LEMMA RenamedInjective ==
    ASSUME Inv, ExactLike, NEW o \in Names, NEW n \in Names, Parent(o) = Parent(n),
           NEW l \in Selected(o), NEW m \in Selected(o), Renamed(o, n, l) = Renamed(o, n, m)
    PROVE  l = m
<1> DEFINE r == Renamed(o, n, m)
           k == Len(o)
<1>1. /\ l \in Seq(Segments) /\ Selects(o, l)
      /\ m \in Seq(Segments) /\ Selects(o, m) /\ o \in Seq(Segments)
  BY NameSeq DEF Selected, Inv, TypeOK
<1>2. /\ Len(r) = Len(m) /\ Len(m) \in Nat /\ k \in 1 .. Len(m)
      /\ \A j \in 1 .. Len(m) : r[j] = IF j = k THEN n[j] ELSE m[j]
  BY <1>1, RenamedSegment
<1>3. /\ Len(r) = Len(l) /\ k \in 1 .. Len(l)
      /\ \A j \in 1 .. Len(l) : r[j] = IF j = k THEN n[j] ELSE l[j]
  BY <1>1, RenamedSegment
<1>4. o[k] = l[k] /\ o[k] = m[k]
  <2>1. IsPrefix(o, l) /\ IsPrefix(o, m)
    BY <1>1, SelectsPrefix
  <2> QED
    BY <1>1, <1>2, <2>1, PrefixElements
<1> HIDE DEF r, k
<1>5. Len(l) = Len(m)
  BY <1>2, <1>3
<1>6. \A j \in 1 .. Len(l) : l[j] = m[j]
  BY <1>2, <1>3, <1>4, <1>5
<1> QED
  BY <1>1, <1>5, <1>6, SeqEqual

\* What is cut off a renamed name is renamed, or above what is.
LEMMA RenamedCut ==
    ASSUME Inv, Closed(affs), ExactLike, NEW o \in affs, NEW n \in Names,
           Parent(o) = Parent(n), NEW m \in Selected(o), NEW i \in 1 .. Len(m)
    PROVE  \/ SubSeq(Renamed(o, n, m), 1, i) \in affs \ Selected(o)
           \/ \E l \in Selected(o) : SubSeq(Renamed(o, n, m), 1, i) = Renamed(o, n, l)
<1> DEFINE r == Renamed(o, n, m)
           k == Len(o)
           a == SubSeq(m, 1, i)
           b == SubSeq(r, 1, i)
<1>1. /\ o \in Names /\ o \in Seq(Segments) /\ m \in affs
      /\ m \in Seq(Segments) /\ Selects(o, m) /\ n \in Seq(Segments)
  BY NameSeq DEF Selected, Inv, TypeOK
<1>2. /\ r \in Seq(Segments) /\ Len(r) = Len(m) /\ Len(m) \in Nat
      /\ k \in 1 .. Len(m) /\ Len(n) = k
      /\ \A j \in 1 .. Len(m) : /\ r[j] = IF j = k THEN n[j] ELSE m[j]
                                /\ j < k => o[j] = m[j]
  <2> HIDE DEF a, b
  <2>1. /\ Renamed(o, n, m) \in Seq(Segments)
        /\ Len(Renamed(o, n, m)) = Len(m) /\ Len(m) \in Nat
        /\ Len(o) \in 1 .. Len(m) /\ Len(n) = Len(o)
        /\ \A j \in 1 .. Len(m) :
             /\ Renamed(o, n, m)[j] = IF j = Len(o) THEN n[j] ELSE m[j]
             /\ j < Len(o) => o[j] = m[j]
             /\ j <= Len(o) => Renamed(o, n, m)[j] = n[j]
    BY <1>1, RenamedSegment
  <2> QED
    BY <2>1
<1>3. a \in affs /\ a \in Seq(Segments) /\ Len(a) = i /\ \A j \in 1 .. i : a[j] = m[j]
  BY <1>1, Cut DEF Closed
<1>4. IsPrefix(o, m)
  BY <1>1, SelectsPrefix
<1> HIDE DEF r, k
<1>5. b \in Seq(Segments) /\ Len(b) = i /\ \A j \in 1 .. i : b[j] = r[j]
  BY <1>2, Cut
<1>6. CASE i < k
  <2>1. \A j \in 1 .. i : r[j] = m[j]
    BY <1>2, <1>6
  <2>2. b = a
    <3> HIDE DEF a, b
    <3> QED
      BY <1>3, <1>5, <2>1, SeqEqual
  <2>3. ~Selects(o, a)
    <3>1. IsPrefix(o, a) => Len(o) <= Len(a)
      BY <1>1, <1>3, PrefixElements
    <3> HIDE DEF a
    <3>2. ~IsPrefix(o, a)
      BY <1>2, <1>3, <1>6, <3>1 DEF k
    <3> QED
      BY <1>1, <1>3, <3>2, SelectsPrefix
  <2>4. b \in affs \ Selected(o)
    BY <1>3, <2>2, <2>3 DEF Selected
  <2> QED
    BY <2>4 DEF r
<1>7. CASE ~(i < k)
  <2>1. Selects(o, a)
    <3>1. Len(o) <= Len(m) /\ \A j \in 1 .. Len(o) : o[j] = m[j]
      BY <1>1, <1>4, PrefixElements
    <3> HIDE DEF a
    <3>2. Len(o) <= Len(a) /\ \A j \in 1 .. Len(o) : o[j] = a[j]
      <4>1. k <= i /\ \A j \in 1 .. k : j \in 1 .. i
        BY <1>2, <1>7
      <4> QED
        BY <1>3, <3>1, <4>1 DEF k
    <3>3. IsPrefix(o, a)
      BY <1>1, <1>3, <3>2, PrefixElements
    <3> QED
      BY <1>1, <1>3, <3>3, SelectsPrefix
  <2> DEFINE s == Renamed(o, n, a)
  <2>2. /\ s \in Seq(Segments) /\ Len(s) = i
        /\ \A j \in 1 .. i : s[j] = IF j = k THEN n[j] ELSE a[j]
    <3> HIDE DEF a
    <3>1. /\ Renamed(o, n, a) \in Seq(Segments)
          /\ Len(Renamed(o, n, a)) = Len(a) /\ Len(a) \in Nat
          /\ Len(o) \in 1 .. Len(a) /\ Len(n) = Len(o)
          /\ \A j \in 1 .. Len(a) :
               /\ Renamed(o, n, a)[j] = IF j = Len(o) THEN n[j] ELSE a[j]
               /\ j < Len(o) => o[j] = a[j]
               /\ j <= Len(o) => Renamed(o, n, a)[j] = n[j]
      BY <1>1, <1>3, <2>1, RenamedSegment
    <3> QED
      BY <1>3, <3>1 DEF k
  <2>3. \A j \in 1 .. i : r[j] = IF j = k THEN n[j] ELSE m[j]
    BY <1>2
  <2>4. a \in Selected(o)
    BY <1>3, <2>1 DEF Selected
  <2>5. b = s
    <3> HIDE DEF a, b, s
    <3> QED
      BY <1>3, <1>5, <2>2, <2>3, SeqEqual
  <2> QED
    BY <2>4, <2>5 DEF r
<1> QED
  BY <1>6, <1>7

LEMMA RenameSequential ==
    ASSUME Inv, SequentialInv, Sequential, NEW p \in Requests, ModifyAffiliationTx(p)
    PROVE  SequentialInv'
<1> DEFINE c == ctx[p]
           o == c.name
           n == c.new
           old == Selected(o)
           to(m) == Renamed(o, n, m)
<1>1. c.pc = "rename" /\ c.op = "rename" /\ Become(p, Idle)
  BY DEF ModifyAffiliationTx, At, Done, Inv, ContextsOK, ContextOK
<1>2. /\ o \in Names /\ n \in Names /\ Parent(o) = Parent(n) /\ n \notin affs
  BY <1>1 DEF Inv, ContextsOK, ContextOK, SequentialInv, Knows, Writes
<1>3. \A m \in old : m \in affs /\ to(m) \notin affs /\ to(m) # m
  BY <1>2, RenameMeetsNothing DEF SequentialInv, Sequential
<1>4. Changed(c) = old
  BY <1>3 DEF Changed
<1>5. ~Clashes(c) /\ ~MayClash(c)
  <2>1. \A l, m \in old : to(l) = to(m) => l = m
    BY <1>2, RenamedInjective DEF Sequential
  <2> QED
    BY <1>3, <1>4, <2>1 DEF Clashes, MayClash
<1>6. CASE MayRename(c) /\ RenameCommit(c)
  <2>1. /\ affs' = (affs \ old) \cup {to(m) : m \in old} /\ UNCHANGED conn
        /\ home' = [id \in Ids |-> IF home[id] \in old THEN to(home[id]) ELSE home[id]]
    <3>1. \A id \in Ids : id \in Affected(o) <=> home[id] \in old
      BY DEF Affected
    <3>2. /\ affs' = (affs \ Changed(c)) \cup {to(m) : m \in Changed(c)} /\ UNCHANGED conn
          /\ home' = [id \in Ids |-> IF id \in Affected(o) THEN to(home[id]) ELSE home[id]]
      BY <1>6 DEF RenameCommit
    <3> HIDE DEF old, to, o, c
    <3> QED
      BY <1>4, <3>1, <3>2
  <2>2. o \in affs /\ \A m \in affs : m \in Seq(Segments) /\ Len(m) \in Nat
    BY <1>6, NameSeq, LenProperties DEF MayRename, Inv, TypeOK
  <2>3. ASSUME NEW m \in affs \ old, NEW i \in 1 .. Len(m)
        PROVE  SubSeq(m, 1, i) \in affs \ old
    <3> DEFINE a == SubSeq(m, 1, i)
    <3>1. /\ a \in affs /\ a \in Seq(Segments) /\ Len(a) = i /\ \A j \in 1 .. i : a[j] = m[j]
      BY <2>2, Cut DEF SequentialInv, Closed
    <3> HIDE DEF a
    <3>2. IsPrefix(a, m)
      BY <2>2, <3>1, PrefixElements
    <3>3. ~Selects(o, m) /\ o \in Seq(Segments)
      BY <1>2, NameSeq DEF Selected
    <3>4. ~Selects(o, a)
      BY <2>2, <3>1, <3>2, <3>3, SelectsPrefix, PrefixTransitive DEF Sequential
    <3>5. a \in affs \ old
      BY <3>1, <3>4 DEF Selected
    <3> QED
      BY <3>5 DEF a
  <2>4. ASSUME NEW m \in old, NEW i \in 1 .. Len(to(m))
        PROVE  \/ SubSeq(to(m), 1, i) \in affs \ old
               \/ \E l \in old : SubSeq(to(m), 1, i) = to(l)
    <3>1. Len(to(m)) = Len(m)
      BY <1>2, RenameMeetsNothing, RenamedSegment DEF SequentialInv, Sequential
    <3> QED
      BY <1>2, <2>2, <3>1, RenamedCut DEF SequentialInv, Sequential
  <2> HIDE DEF old, to, o, c, n
  <2>5. Closed(affs')
    BY <2>1, <2>3, <2>4 DEF Closed
  <2>6. NoDanglingIdentity'
    BY <2>1 DEF NoDanglingIdentity, SequentialInv
  <2> QED
    BY <1>1, <2>1, <2>5, <2>6, IdleKnows, KnowStep
    DEF Sequential, SequentialInv, ConnectionReturned
<1>7. CASE ~MayRename(c) /\ UNCHANGED <<affs, home, attr, good, conn>>
  BY <1>1, <1>7, IdleKnows, KnowRead DEF Sequential, tables
<1> QED
  BY <1>5, <1>6, <1>7 DEF ModifyAffiliationTx

LEMMA ProceedSequential ==
    ASSUME Inv, SequentialInv, Sequential, NEW p \in Requests, Proceed(p)
    PROVE  SequentialInv'
<1> DEFINE c == ctx[p]
<1>0. c \in Context /\ ContextOK(c) /\ Knows(c, affs) /\ OneAtATime
  BY DEF Inv, TypeOK, ContextsOK, SequentialInv, Sequential
<1>d. ASSUME Done(p), UNCHANGED tables PROVE SequentialInv'
  BY <1>0, <1>d, IdleKnows, KnowRead DEF Done
<1>g. ASSUME NEW pc, Goto(p, pc), UNCHANGED tables, Knows([c EXCEPT !.pc = pc], affs)
      PROVE  SequentialInv'
  BY <1>0, <1>g, KnowRead DEF Goto
<1>e. \A pc : /\ [c EXCEPT !.pc = pc].pc = pc /\ [c EXCEPT !.pc = pc].op = c.op
              /\ [c EXCEPT !.pc = pc].name = c.name /\ [c EXCEPT !.pc = pc].new = c.new
              /\ [c EXCEPT !.pc = pc].next = c.next /\ [c EXCEPT !.pc = pc].home = c.home
  BY <1>0 DEF Context
<1>1. CASE AddExists(p)
  <2> DEFINE pc == IF ~c.force /\ Len(c.name) > 1 THEN "parent" ELSE "insert"
             next == IF c.force THEN 1 ELSE Len(c.name)
             d == [c EXCEPT !.pc = pc, !.next = next]
  <2>1. UNCHANGED tables /\ c.pc = "exists" /\ (Done(p) \/ Become(p, d))
    BY <1>1 DEF AddExists, At, tables
  <2>2. Len(c.name) \in Nat \ {0} /\ c.op = "add"
    <3>1. c.name \in Names /\ c.op = "add"
      BY <1>0, <2>1 DEF ContextOK, Writes
    <3> QED
      BY <3>1, AffiliationAssumption, LenProperties, EmptySeq
  <2>3. d.pc = pc /\ d.op = c.op /\ d.next = next /\ d.name = c.name
    <3> HIDE DEF pc, next
    <3> QED
      BY <1>0 DEF Context
  <2>4. pc = "parent" => next = Len(c.name)
    OBVIOUS
  <2>5. pc = "insert" => next = 1
    <3>1. CASE c.force
      BY <3>1
    <3>2. CASE ~c.force
      <4>1. pc = "insert" => ~(Len(c.name) > 1)
        BY <3>2
      <4>2. next = Len(c.name)
        BY <3>2
      <4>3. ~(Len(c.name) > 1) => Len(c.name) = 1
        <5> DEFINE l == Len(c.name)
        <5>1. l \in Nat \ {0}
          BY <2>2
        <5> HIDE DEF l
        <5>2. ~(l > 1) => l = 1
          BY <5>1
        <5> QED
          BY <5>2 DEF l
      <4> HIDE DEF pc, next
      <4> QED
        BY <4>1, <4>2, <4>3
    <3> QED
      BY <3>1, <3>2
  <2>6. pc \in {"parent", "insert"}
    OBVIOUS
  <2> HIDE DEF pc, next, d
  <2>7. Knows(d, affs)
    <3>1. pc = "insert" => \A i \in 1 .. d.next - 1 : FALSE
      BY <2>3, <2>5
    <3> QED
      BY <2>2, <2>3, <2>4, <2>6, <3>1 DEF Knows
  <2> QED
    BY <1>0, <1>d, <2>1, <2>7, KnowRead
<1>2. CASE AddParent(p)
  <2> DEFINE d == [c EXCEPT !.pc = "insert"]
  <2>1. /\ UNCHANGED tables /\ c.pc = "parent"
        /\ Done(p) \/ (Parent(c.name) \in affs /\ Goto(p, "insert"))
    BY <1>2 DEF AddParent, At, tables
  <2>2. /\ c.name \in Names /\ c.name \in Seq(Segments) /\ Len(c.name) \in Nat
        /\ c.next \in 1 .. Len(c.name) /\ c.next = Len(c.name)
    BY <1>0, <2>1, NameSeq, LenProperties DEF ContextOK, Writes, Knows
  <2>3. ASSUME Parent(c.name) \in affs, NEW i \in 1 .. c.next - 1
        PROVE  SubSeq(c.name, 1, i) \in affs
    <3> DEFINE l == Len(c.name) - 1
    <3>1. l \in 1 .. Len(c.name) /\ i \in 1 .. l
      BY <2>2, <2>3
    <3>2. Parent(c.name) = SubSeq(c.name, 1, l)
      BY DEF Parent, Front
    <3> HIDE DEF l
    <3>3. Len(SubSeq(c.name, 1, l)) = l
      BY <2>2, <3>1, Cut
    <3>4. SubSeq(SubSeq(c.name, 1, l), 1, i) = SubSeq(c.name, 1, i)
      BY <2>2, <3>1, CutCut
    <3>5. SubSeq(SubSeq(c.name, 1, l), 1, i) \in affs
      BY <2>3, <3>1, <3>2, <3>3 DEF SequentialInv, Closed
    <3> QED
      BY <3>4, <3>5
  <2>4. Parent(c.name) \in affs => Knows(d, affs)
    <3>1. d.pc = "insert" /\ d.op = c.op /\ d.name = c.name /\ d.new = c.new /\ d.next = c.next
      BY <1>e
    <3> HIDE DEF d, c
    <3> QED
      BY <1>0, <2>1, <2>3, <3>1 DEF Knows
  <2> QED
    BY <1>d, <1>g, <2>1, <2>4
<1>3. CASE Lookup(p)
  <2>1. /\ UNCHANGED tables /\ c.pc = "lookup"
        /\ Done(p) \/ Goto(p, "delete") \/ Goto(p, "free")
    BY <1>3 DEF Lookup, At, tables
  <2>2. Knows([c EXCEPT !.pc = "delete"], affs) /\ Knows([c EXCEPT !.pc = "free"], affs)
    BY <1>0, <1>e, <2>1 DEF Knows
  <2> QED
    BY <1>d, <1>g, <2>1, <2>2
<1>4. CASE RenameFree(p)
  <2>1. /\ UNCHANGED tables /\ c.pc = "free"
        /\ Done(p) \/ (c.new \notin affs /\ Goto(p, "rename"))
    BY <1>4 DEF RenameFree, NewNameTaken, At, tables
  <2>2. c.new \notin affs => Knows([c EXCEPT !.pc = "rename"], affs)
    BY <1>0, <1>e, <2>1 DEF Knows
  <2> QED
    BY <1>d, <1>g, <2>1, <2>2
<1>5. CASE ValidateAffiliation(p)
  <2>1. /\ UNCHANGED tables /\ c.pc = "validate"
        /\ Done(p) \/ (c.home \in affs /\ (Goto(p, "insertUser") \/ Goto(p, "updateUser")))
    BY <1>5 DEF ValidateAffiliation, At, tables
  <2>2. c.home \in affs => /\ Knows([c EXCEPT !.pc = "insertUser"], affs)
                           /\ Knows([c EXCEPT !.pc = "updateUser"], affs)
    BY <1>0, <1>e, <2>1 DEF Knows
  <2> QED
    BY <1>d, <1>g, <2>1, <2>2
<1>6. CASE InsertUser(p) \/ UpdateUser(p)
  <2>1. /\ c.pc \in {"insertUser", "updateUser"} /\ Become(p, Idle) /\ UNCHANGED <<affs, conn>>
        /\ UNCHANGED home \/ home' = [home EXCEPT ![c.id] = c.home]
    BY <1>6 DEF InsertUser, UpdateUser, At, Done, Stored
  <2>2. c.home \in affs \cup {Root}
    BY <1>0, <2>1 DEF Knows
  <2> HIDE DEF c
  <2>3. NoDanglingIdentity'
    BY <2>1, <2>2 DEF NoDanglingIdentity, SequentialInv, Inv, TypeOK
  <2>4. Closed(affs') /\ ConnectionReturned'
    BY <2>1 DEF SequentialInv, ConnectionReturned
  <2> QED
    BY <1>0, <2>1, <2>3, <2>4, IdleKnows, KnowStep
<1> QED
  BY <1>1, <1>2, <1>3, <1>4, <1>5, <1>6, InsertSequential, DeleteSequential, RenameSequential
  DEF Proceed

\* The configuration has the ancestors of what it has.
LEMMA ConfiguredClosed == Closed(Configured)
<1>1. \A n \in Configured : DOMAIN n = 1 .. Len(n)
  BY AffiliationAssumption, LenProperties
<1> QED
  BY <1>1, AffiliationAssumption DEF Closed

LEMMA RestartSequential ==
    ASSUME Inv, SequentialInv, Restart
    PROVE  SequentialInv'
<1>1. Closed(affs')
  BY ConfiguredClosed DEF Restart, Closed, SequentialInv
<1>2. NoDanglingIdentity'
  <2>1. \A id \in Ids : ConfiguredHome[id] \in Configured \cup {Root, Gone}
    BY AffiliationAssumption
  <2> QED
    BY <2>1 DEF Restart, NoDanglingIdentity, SequentialInv
<1>3. ConnectionReturned' /\ \A p \in Requests : Knows(ctx'[p], affs')
  BY IdleKnows DEF Restart, ConnectionReturned
<1> QED
  BY <1>1, <1>2, <1>3 DEF SequentialInv

LEMMA InitSequential == Init => SequentialInv
<1> SUFFICES ASSUME Init PROVE SequentialInv
  OBVIOUS
<1>1. Closed(affs) /\ \A p \in Requests : Knows(ctx[p], affs)
  BY ConfiguredClosed, IdleKnows DEF Init
<1>2. NoDanglingIdentity /\ ConnectionReturned
  BY AffiliationAssumption DEF Init, NoDanglingIdentity, ConnectionReturned
<1> QED
  BY <1>1, <1>2 DEF SequentialInv

LEMMA NextSequential == Sequential /\ Inv /\ SequentialInv /\ [Next]_vars => SequentialInv'
<1> SUFFICES ASSUME Sequential, Inv, SequentialInv, [Next]_vars PROVE SequentialInv'
  OBVIOUS
<1>1. CASE UNCHANGED vars
  <2>1. ctx' = ctx /\ affs' = affs /\ NoDanglingIdentity' /\ ConnectionReturned'
    BY <1>1 DEF vars, SequentialInv, NoDanglingIdentity, ConnectionReturned
  <2> QED
    BY <2>1 DEF SequentialInv
<1> QED
  BY <1>1, ArriveSequential, ProceedSequential, RestartSequential DEF Next

\* What the handlers know stays true until they act on it, and the hierarchy
\* they leave is closed.
THEOREM SequentialInvariance == Sequential => (Spec => []SequentialInv)
<1> SUFFICES ASSUME Sequential PROVE Spec => []SequentialInv
  OBVIOUS
<1>1. Inv /\ SequentialInv /\ [Next]_vars => SequentialInv'
  BY NextSequential
<1> QED
  BY <1>1, InitSequential, Invariance, PTL DEF Spec

\* The hierarchy has no holes: one handler at a time, with renamings under the
\* same parent, keeps the ancestors of every affiliation, crashes in the middle
\* of an addition with force included.
THEOREM Ancestors == Sequential => (Spec => []ParentsExist)
<1>1. Inv /\ SequentialInv => ParentsExist
  <2> SUFFICES ASSUME Inv, Closed(affs), NEW n \in affs, Len(n) > 1 PROVE Parent(n) \in affs
    BY DEF ParentsExist, SequentialInv
  <2>1. Len(n) \in Nat
    BY NameSeq, LenProperties DEF Inv, TypeOK
  <2>2. Len(n) - 1 \in 1 .. Len(n)
    BY <2>1
  <2> QED
    BY <2>2 DEF Closed, Parent, Front
<1> QED
  BY <1>1, Invariance, SequentialInvariance, PTL

\* Under the same restriction every identity is in an affiliation that exists:
\* what validateID found is still there when the record is written.
THEOREM HomesExist == Sequential => (Spec => []NoDanglingIdentity)
<1>1. SequentialInv => NoDanglingIdentity
  BY DEF SequentialInv
<1> QED
  BY <1>1, SequentialInvariance, PTL

\* And no handler keeps the connection: a renaming onto a name that was free
\* finds nothing below it either, so none of its UPDATEs panics.
THEOREM ConnectionFree == Sequential => (Spec => []ConnectionReturned)
<1>1. SequentialInv => ConnectionReturned
  BY DEF SequentialInv
<1> QED
  BY <1>1, SequentialInvariance, PTL
=============================================================================
