----------------------------- MODULE ExchangeProofs ----------------------------
(***************************************************************************)
(* What the client of Exchange reports, for every number of clients, every *)
(* table, buffer and fault: proofs of the invariants of the run.           *)
(***************************************************************************)
EXTENDS Exchange, SequenceTheorems, WellFoundedInduction, TLAPS

-----------------------------------------------------------------------------
(* The streamer over several tokens *)

\* The positions of a walk that begins in s and takes the tokens.
Along(s, tokens, walk) ==
    walk = [n \in 0 .. Len(tokens) |->
              IF n = 0 THEN s ELSE Feed(walk[n - 1], tokens[n])]

\* The walk from s over the tokens ends in t.
Leads(s, tokens, t) == \E walk : Along(s, tokens, walk) /\ walk[Len(tokens)] = t

\* A set of numbers has a least element: the form of induction that is used for
\* the streamer's loop over its tokens.
LEMMA LeastNumber ==
    ASSUME NEW T \in SUBSET Nat, T # {}
    PROVE  \E x \in T : \A y \in T : x <= y
<1>1. PICK x \in T : \A y \in T : ~ (<<y, x>> \in OpToRel(<, Nat))
  BY WFMin, NatLessThanWellFounded, Zenon
<1>2. ASSUME NEW y \in T, y < x PROVE FALSE
  <2>1. <<y, x>> \in OpToRel(<, Nat)
    BY <1>2, Zenon DEF OpToRel
  <2> QED BY <1>1, <2>1
<1>3. \A y \in T : x <= y
  BY <1>2
<1> QED BY <1>3

LEMMA AlongSteps ==
    ASSUME NEW s, NEW tokens, Len(tokens) \in Nat, NEW f, Along(s, tokens, f)
    PROVE  /\ f[0] = s
           /\ \A n \in 1 .. Len(tokens) : f[n] = Feed(f[n - 1], tokens[n])
BY DEF Along

\* The positions of a walk are determined (the loop of stream is deterministic).
LEMMA WalkUnique ==
    ASSUME NEW s, NEW tokens, Len(tokens) \in Nat,
           NEW f, Along(s, tokens, f), NEW g, Along(s, tokens, g)
    PROVE  f[Len(tokens)] = g[Len(tokens)]
<1> DEFINE Apart == {n \in 0 .. Len(tokens) : f[n] # g[n]}
<1>1. CASE Apart = {}
  BY <1>1
<1>2. CASE Apart # {}
  <2>1. PICK n \in Apart : \A m \in Apart : n <= m
    BY <1>2, LeastNumber, Apart \subseteq Nat
  <2>2. f[0] = s /\ g[0] = s
    BY DEF Along
  <2>3. n > 0 /\ n - 1 \in 0 .. Len(tokens) /\ n - 1 \notin Apart
    BY <2>1, <2>2
  <2>4. f[n - 1] = g[n - 1]
    BY <2>3
  <2>5. f[n] = Feed(f[n - 1], tokens[n]) /\ g[n] = Feed(g[n - 1], tokens[n])
    BY <2>1, <2>3 DEF Along
  <2> QED BY <2>1, <2>4, <2>5
<1> QED BY <1>1, <1>2

\* The recursive function of the streamer computes where a walk leads.
LEMMA StreamedLeads ==
    ASSUME NEW s, NEW tokens, Len(tokens) \in Nat, NEW t, Leads(s, tokens, t)
    PROVE  Streamed(s, tokens) = t
<1> DEFINE after == CHOOSE walk : Along(s, tokens, walk)
<1>1. PICK f : Along(s, tokens, f) /\ f[Len(tokens)] = t
  BY DEF Leads
<1>2. Along(s, tokens, after)
  BY <1>1
<1>3. Streamed(s, tokens) = after[Len(tokens)]
  BY DEF Streamed, Along
<1> QED BY <1>1, <1>2, <1>3, WalkUnique

LEMMA LeadsNothing == ASSUME NEW s PROVE Leads(s, <<>>, s)
<1> DEFINE walk == [n \in 0 .. Len(<<>>) |-> s]
<1>1. Along(s, <<>>, walk) /\ walk[Len(<<>>)] = s
  BY DEF Along
<1> QED BY <1>1 DEF Leads

\* One more token.
LEMMA LeadsOn ==
    ASSUME NEW S, NEW tokens \in Seq(S), NEW token \in S, NEW s, NEW t, Leads(s, tokens, t)
    PROVE  Leads(s, Append(tokens, token), Feed(t, token))
<1>1. PICK f : Along(s, tokens, f) /\ f[Len(tokens)] = t
  BY DEF Leads
<1> DEFINE more == Append(tokens, token)
           walk == [n \in 0 .. Len(more) |-> IF n <= Len(tokens) THEN f[n] ELSE Feed(t, token)]
<1>2. Len(more) = Len(tokens) + 1 /\ Len(tokens) \in Nat /\ more[Len(more)] = token
      /\ \A n \in 1 .. Len(tokens) : more[n] = tokens[n]
  BY AppendProperties
<1>3. f[0] = s /\ \A n \in 1 .. Len(tokens) : f[n] = Feed(f[n - 1], tokens[n])
  BY <1>1, <1>2 DEF Along
<1>4. ASSUME NEW n \in 0 .. Len(more)
      PROVE  walk[n] = IF n = 0 THEN s ELSE Feed(walk[n - 1], more[n])
  <2>1. CASE n = 0
    BY <2>1, <1>2, <1>3
  <2>2. CASE n \in 1 .. Len(tokens)
    BY <2>2, <1>2, <1>3
  <2>3. CASE n = Len(more) /\ n # 0
    <3>1. walk[n - 1] = t /\ walk[n] = Feed(t, token)
      BY <2>3, <1>1, <1>2
    <3> QED BY <2>3, <3>1, <1>2
  <2> QED BY <2>1, <2>2, <2>3, <1>2
<1>5. Along(s, more, walk)
  BY <1>4 DEF Along
<1>6. walk[Len(more)] = Feed(t, token)
  BY <1>2
<1> QED BY <1>5, <1>6 DEF Leads

\* One sequence of tokens after the other.
LEMMA LeadsFurther ==
    ASSUME NEW S, NEW v \in Seq(S), NEW w \in Seq(S), NEW s, NEW t, NEW u,
           Leads(s, v, t), Leads(t, w, u)
    PROVE  Leads(s, v \o w, u)
<1>1. PICK f : Along(s, v, f) /\ f[Len(v)] = t
  BY DEF Leads
<1>2. PICK g : Along(t, w, g) /\ g[Len(w)] = u
  BY DEF Leads
<1> DEFINE all == v \o w
           walk == [n \in 0 .. Len(all) |-> IF n <= Len(v) THEN f[n] ELSE g[n - Len(v)]]
<1>3. Len(v) \in Nat /\ Len(w) \in Nat /\ Len(all) = Len(v) + Len(w)
      /\ \A n \in 1 .. Len(all) : all[n] = IF n <= Len(v) THEN v[n] ELSE w[n - Len(v)]
  BY ConcatProperties
<1>4. f[0] = s /\ \A n \in 1 .. Len(v) : f[n] = Feed(f[n - 1], v[n])
  BY <1>1, <1>3, AlongSteps
<1>5. g[0] = t /\ \A n \in 1 .. Len(w) : g[n] = Feed(g[n - 1], w[n])
  BY <1>2, <1>3, AlongSteps
<1>6. ASSUME NEW n \in 0 .. Len(all)
      PROVE  walk[n] = IF n = 0 THEN s ELSE Feed(walk[n - 1], all[n])
  <2>1. CASE n = 0
    BY <2>1, <1>3, <1>4
  <2>2. CASE n \in 1 .. Len(v)
    BY <2>2, <1>3, <1>4
  <2>3. CASE n = Len(v) + 1 /\ n <= Len(all)
    <3>1. walk[n - 1] = g[0] /\ walk[n] = g[1] /\ all[n] = w[1] /\ 1 \in 1 .. Len(w)
      BY <2>3, <1>1, <1>3, <1>5
    <3>2. g[1] = Feed(g[1 - 1], w[1])
      BY <3>1, <1>5
    <3> QED BY <2>3, <3>1, <3>2, <1>3
  <2>4. CASE n > Len(v) + 1
    <3> DEFINE m == n - Len(v)
    <3>1. m \in 1 .. Len(w) /\ walk[n] = g[m] /\ walk[n - 1] = g[m - 1] /\ all[n] = w[m]
      BY <2>4, <1>3
    <3>2. g[m] = Feed(g[m - 1], w[m])
      BY <3>1, <1>5
    <3> QED BY <2>4, <3>1, <3>2, <1>3
  <2> QED BY <2>1, <2>2, <2>3, <2>4, <1>3
<1>7. Along(s, all, walk)
  BY <1>6 DEF Along
<1>8. walk[Len(all)] = u
  <2>1. CASE Len(w) = 0
    BY <2>1, <1>1, <1>2, <1>3, <1>5
  <2>2. CASE Len(w) # 0
    BY <2>2, <1>2, <1>3
  <2> QED BY <2>1, <2>2
<1> QED BY <1>7, <1>8 DEF Leads
-----------------------------------------------------------------------------
(* The walk over the tokens of an answer *)

\* All that the server writes.
Tokens ==
    Elements \cup Delimiters \cup Ends
      \cup {"result", "identities", "caname", "ca", "answer", "errors", "message", "messages",
            "success", "true", "false"}

\* Not inside of an array that is skipped.
W(at, path, got) == [at |-> at, path |-> path, skip |-> <<>>, got |-> got]

\* Behind the value at the path.
After(path, got) == IF path = <<>> THEN W("done", path, got) ELSE W("name", Front(path), got)

Searched == {Listed, Errors}

LEMMA ValueOver ==
    ASSUME NEW at, NEW path, NEW got
    PROVE  AfterValue(W(at, path, got)) = After(path, got)
<1>1. CASE path = <<>>
  <2>1. AfterValue(W(at, path, got)) = W("done", path, got)
    BY <1>1 DEF AfterValue, W
  <2> QED BY <1>1, <2>1 DEF After
<1>2. CASE path # <<>>
  <2>1. AfterValue(W(at, path, got)) = W("name", Front(path), got)
    BY <1>2 DEF AfterValue, W
  <2> QED BY <1>2, <2>1 DEF After
<1> QED BY <1>1, <1>2

LEMMA FeedScalar ==
    ASSUME NEW path, NEW got, NEW token, token \notin Delimiters
    PROVE  Feed(W("value", path, got), token) = After(path, got)
<1>1. Feed(W("value", path, got), token) = AfterValue(W("value", path, got))
  BY DEF Feed, AtValue, W, Delimiters
<1> QED BY <1>1, ValueOver

LEMMA FeedObject ==
    ASSUME NEW path, NEW got, path \notin Searched
    PROVE  Feed(W("value", path, got), "{") = W("name", path, got)
BY DEF Feed, AtValue, W, Delimiters, Searched

LEMMA FeedList ==
    ASSUME NEW path, NEW got, path \in Searched
    PROVE  Feed(W("value", path, got), "[") = W("elements", path, got)
BY DEF Feed, AtValue, W, Delimiters, Searched

LEMMA FeedEmptyList ==
    ASSUME NEW path, NEW got, path \notin Searched, path # <<>>
    PROVE  Feed(Feed(W("value", path, got), "["), "]") = After(path, got)
<1> DEFINE s == [W("value", path, got) EXCEPT !.at = "skip", !.skip = <<"]">>]
<1>1. Feed(W("value", path, got), "[") = s
  BY DEF Feed, AtValue, W, Delimiters, Searched
<1>2. s.at = "skip" /\ s.skip = <<"]">> /\ Len(s.skip) = 1 /\ Last(s.skip) = "]" /\ s.path = path
  BY DEF W, Last
<1>3. Feed(s, "]") = AfterValue(s)
  BY <1>2 DEF Feed, AtSkipped, Delimiters
<1>4. AfterValue(s) = W("name", Front(path), got)
  BY DEF AfterValue, W
<1> QED BY <1>1, <1>3, <1>4 DEF After

LEMMA FeedMember ==
    ASSUME NEW path, NEW got, NEW token, token \notin Delimiters
    PROVE  Feed(W("name", path, got), token) = W("value", Append(path, token), got)
BY DEF Feed, AtName, W, Delimiters

LEMMA FeedObjectEnd ==
    ASSUME NEW path, NEW got
    PROVE  Feed(W("name", path, got), "}") = After(path, got)
<1>1. Feed(W("name", path, got), "}") = AfterValue(W("name", path, got))
  BY DEF Feed, AtName, W, Delimiters
<1> QED BY <1>1, ValueOver

LEMMA FeedListEnd ==
    ASSUME NEW path, NEW got
    PROVE  Feed(W("elements", path, got), "]") = After(path, got)
<1>1. Feed(W("elements", path, got), "]") = AfterValue(W("elements", path, got))
  BY ExchangeAssumption DEF Feed, AtElements, W, Delimiters
<1> QED BY <1>1, ValueOver

LEMMA FeedElement ==
    ASSUME NEW got, NEW token \in Elements
    PROVE  Feed(W("elements", Listed, got), token) = W("elements", Listed, Append(got, token))
BY ExchangeAssumption DEF Feed, AtElements, W, Delimiters

\* Anything else in an array that is searched ends the walk with an error.
LEMMA FeedWrong ==
    ASSUME NEW path, NEW got, NEW token, token # "]", token \notin Elements \/ path # Listed
    PROVE  Feed(W("elements", path, got), token).at = "error"
BY DEF Feed, AtElements, W, Failed

LEMMA FeedFailed ==
    ASSUME NEW s, NEW token, s.at = "error"
    PROVE  Feed(s, token) = s
BY DEF Feed

\* The rest of a response does not make good an error.
LEMMA FailedStays ==
    ASSUME NEW s, s.at = "error", NEW tokens \in Seq(Tokens)
    PROVE  Leads(s, tokens, s)
<1> DEFINE walk == [n \in 0 .. Len(tokens) |-> s]
<1>1. ASSUME NEW n \in 0 .. Len(tokens)
      PROVE  walk[n] = IF n = 0 THEN s ELSE Feed(walk[n - 1], tokens[n])
  BY FeedFailed
<1>2. Along(s, tokens, walk)
  BY <1>1 DEF Along
<1> QED BY <1>2 DEF Leads

\* A walk from s whose positions are f[0], f[1] and so on.
LEMMA LeadsBy ==
    ASSUME NEW s, NEW tokens, Len(tokens) \in Nat, NEW f, f[0] = s,
           \A n \in 1 .. Len(tokens) : f[n] = Feed(f[n - 1], tokens[n])
    PROVE  Leads(s, tokens, f[Len(tokens)])
<1> DEFINE walk == [n \in 0 .. Len(tokens) |-> f[n]]
<1>1. ASSUME NEW n \in 0 .. Len(tokens)
      PROVE  walk[n] = IF n = 0 THEN s ELSE Feed(walk[n - 1], tokens[n])
  OBVIOUS
<1>2. Along(s, tokens, walk)
  BY <1>1 DEF Along
<1> QED BY <1>2 DEF Leads

\* The sequences that the server writes, token by token.
LEMMA Leads1 ==
    ASSUME NEW s, NEW a
    PROVE  Leads(s, <<a>>, Feed(s, a))
<1> DEFINE tokens == <<a>>
           at == [n \in 0 .. 1 |->
                  IF n = 0 THEN s
                  ELSE Feed(s, a)]
<1>1. Len(tokens) = 1 /\ at[0] = s /\ at[1] = Feed(s, a)
  OBVIOUS
<1>2. tokens[1] = a
  OBVIOUS
<1>3. at[1] = Feed(at[0], a)
  OBVIOUS
<1> HIDE DEF at, tokens
<1>4. \A n \in 1 .. Len(tokens) : at[n] = Feed(at[n - 1], tokens[n])
  <2>1. \A n \in 1 .. 1 : n \in {1}
    OBVIOUS
  <2> QED BY <2>1, <1>1, <1>2, <1>3
<1>5. Leads(s, tokens, at[Len(tokens)])
  <2>1. Len(tokens) \in Nat /\ at[0] = s
    BY <1>1
  <2> QED BY <1>4, <2>1, LeadsBy, Zenon
<1> QED BY <1>1, <1>5 DEF tokens

LEMMA Leads2 ==
    ASSUME NEW s, NEW a, NEW b
    PROVE  Leads(s, <<a, b>>, Feed(Feed(s, a), b))
<1> DEFINE tokens == <<a, b>>
           at == [n \in 0 .. 2 |->
                  IF n = 0 THEN s
                  ELSE IF n = 1 THEN Feed(s, a)
                  ELSE Feed(Feed(s, a), b)]
<1>1. Len(tokens) = 2 /\ at[0] = s /\ at[2] = Feed(Feed(s, a), b)
  OBVIOUS
<1>2. tokens[1] = a /\ tokens[2] = b
  OBVIOUS
<1>3. /\ at[1] = Feed(at[0], a)
      /\ at[2] = Feed(at[1], b)
  OBVIOUS
<1> HIDE DEF at, tokens
<1>4. \A n \in 1 .. Len(tokens) : at[n] = Feed(at[n - 1], tokens[n])
  <2>1. \A n \in 1 .. 2 : n \in {1, 2}
    OBVIOUS
  <2> QED BY <2>1, <1>1, <1>2, <1>3
<1>5. Leads(s, tokens, at[Len(tokens)])
  <2>1. Len(tokens) \in Nat /\ at[0] = s
    BY <1>1
  <2> QED BY <1>4, <2>1, LeadsBy, Zenon
<1> QED BY <1>1, <1>5 DEF tokens

LEMMA Leads3 ==
    ASSUME NEW s, NEW a, NEW b, NEW c
    PROVE  Leads(s, <<a, b, c>>, Feed(Feed(Feed(s, a), b), c))
<1> DEFINE tokens == <<a, b, c>>
           at == [n \in 0 .. 3 |->
                  IF n = 0 THEN s
                  ELSE IF n = 1 THEN Feed(s, a)
                  ELSE IF n = 2 THEN Feed(Feed(s, a), b)
                  ELSE Feed(Feed(Feed(s, a), b), c)]
<1>1. Len(tokens) = 3 /\ at[0] = s /\ at[3] = Feed(Feed(Feed(s, a), b), c)
  OBVIOUS
<1>2. tokens[1] = a /\ tokens[2] = b /\ tokens[3] = c
  OBVIOUS
<1>3. /\ at[1] = Feed(at[0], a)
      /\ at[2] = Feed(at[1], b)
      /\ at[3] = Feed(at[2], c)
  OBVIOUS
<1> HIDE DEF at, tokens
<1>4. \A n \in 1 .. Len(tokens) : at[n] = Feed(at[n - 1], tokens[n])
  <2>1. \A n \in 1 .. 3 : n \in {1, 2, 3}
    OBVIOUS
  <2> QED BY <2>1, <1>1, <1>2, <1>3
<1>5. Leads(s, tokens, at[Len(tokens)])
  <2>1. Len(tokens) \in Nat /\ at[0] = s
    BY <1>1
  <2> QED BY <1>4, <2>1, LeadsBy, Zenon
<1> QED BY <1>1, <1>5 DEF tokens

LEMMA Leads4 ==
    ASSUME NEW s, NEW a, NEW b, NEW c, NEW d
    PROVE  Leads(s, <<a, b, c, d>>, Feed(Feed(Feed(Feed(s, a), b), c), d))
<1> DEFINE tokens == <<a, b, c, d>>
           at == [n \in 0 .. 4 |->
                  IF n = 0 THEN s
                  ELSE IF n = 1 THEN Feed(s, a)
                  ELSE IF n = 2 THEN Feed(Feed(s, a), b)
                  ELSE IF n = 3 THEN Feed(Feed(Feed(s, a), b), c)
                  ELSE Feed(Feed(Feed(Feed(s, a), b), c), d)]
<1>1. Len(tokens) = 4 /\ at[0] = s /\ at[4] = Feed(Feed(Feed(Feed(s, a), b), c), d)
  OBVIOUS
<1>2. tokens[1] = a /\ tokens[2] = b /\ tokens[3] = c /\ tokens[4] = d
  OBVIOUS
<1>3. /\ at[1] = Feed(at[0], a)
      /\ at[2] = Feed(at[1], b)
      /\ at[3] = Feed(at[2], c)
      /\ at[4] = Feed(at[3], d)
  OBVIOUS
<1> HIDE DEF at, tokens
<1>4. \A n \in 1 .. Len(tokens) : at[n] = Feed(at[n - 1], tokens[n])
  <2>1. \A n \in 1 .. 4 : n \in {1, 2, 3, 4}
    OBVIOUS
  <2> QED BY <2>1, <1>1, <1>2, <1>3
<1>5. Leads(s, tokens, at[Len(tokens)])
  <2>1. Len(tokens) \in Nat /\ at[0] = s
    BY <1>1
  <2> QED BY <1>4, <2>1, LeadsBy, Zenon
<1> QED BY <1>1, <1>5 DEF tokens

LEMMA Leads6 ==
    ASSUME NEW s, NEW a, NEW b, NEW c, NEW d, NEW e, NEW f
    PROVE  Leads(s, <<a, b, c, d, e, f>>, Feed(Feed(Feed(Feed(Feed(Feed(s, a), b), c), d), e), f))
<1> DEFINE tokens == <<a, b, c, d, e, f>>
           at == [n \in 0 .. 6 |->
                  IF n = 0 THEN s
                  ELSE IF n = 1 THEN Feed(s, a)
                  ELSE IF n = 2 THEN Feed(Feed(s, a), b)
                  ELSE IF n = 3 THEN Feed(Feed(Feed(s, a), b), c)
                  ELSE IF n = 4 THEN Feed(Feed(Feed(Feed(s, a), b), c), d)
                  ELSE IF n = 5 THEN Feed(Feed(Feed(Feed(Feed(s, a), b), c), d), e)
                  ELSE Feed(Feed(Feed(Feed(Feed(Feed(s, a), b), c), d), e), f)]
<1>1. Len(tokens) = 6 /\ at[0] = s /\ at[6] = Feed(Feed(Feed(Feed(Feed(Feed(s, a), b), c), d), e), f)
  OBVIOUS
<1>2. tokens[1] = a /\ tokens[2] = b /\ tokens[3] = c /\ tokens[4] = d /\ tokens[5] = e /\ tokens[6] = f
  OBVIOUS
<1>3. /\ at[1] = Feed(at[0], a)
      /\ at[2] = Feed(at[1], b)
      /\ at[3] = Feed(at[2], c)
      /\ at[4] = Feed(at[3], d)
      /\ at[5] = Feed(at[4], e)
      /\ at[6] = Feed(at[5], f)
  OBVIOUS
<1> HIDE DEF at, tokens
<1>4. \A n \in 1 .. Len(tokens) : at[n] = Feed(at[n - 1], tokens[n])
  <2>1. \A n \in 1 .. 6 : n \in {1, 2, 3, 4, 5, 6}
    OBVIOUS
  <2> QED BY <2>1, <1>1, <1>2, <1>3
<1>5. Leads(s, tokens, at[Len(tokens)])
  <2>1. Len(tokens) \in Nat /\ at[0] = s
    BY <1>1
  <2> QED BY <1>4, <2>1, LeadsBy, Zenon
<1> QED BY <1>1, <1>5 DEF tokens

LEMMA PathFacts ==
    ASSUME NEW a, NEW b
    PROVE  /\ Append(<<>>, a) = <<a>> /\ Append(<<a>>, b) = <<a, b>>
           /\ Front(<<a>>) = <<>> /\ Front(<<a, b>>) = <<a>>
           /\ <<a>> # <<>> /\ <<a, b>> # <<>>
<1> DEFINE S == {a, b}
           s == Append(<<a>>, b)
           t == <<a, b>>
           u == Front(t)
           v == <<a>>
<1>1. s \in Seq(S) /\ t \in Seq(S) /\ Len(s) = 2 /\ Len(t) = 2
  OBVIOUS
<1>2. s[1] = a /\ s[2] = b /\ t[1] = a /\ t[2] = b
  OBVIOUS
<1>3. \A i \in 1 .. Len(s) : s[i] = t[i]
  <2>1. \A i \in 1 .. 2 : i \in {1, 2}
    OBVIOUS
  <2> QED BY <2>1, <1>1, <1>2
<1>4. s = t
  <2> HIDE DEF s, t
  <2> QED BY <1>1, <1>3, SeqEqual
<1>5. u \in Seq(S) /\ v \in Seq(S) /\ Len(u) = 1 /\ Len(v) = 1 /\ u[1] = a /\ v[1] = a
  BY SubSeqProperties DEF Front
<1>6. u = v
  <2> HIDE DEF u, v
  <2>1. \A i \in 1 .. 1 : i = 1
    OBVIOUS
  <2>2. \A i \in 1 .. Len(u) : u[i] = v[i]
    BY <1>5, <2>1
  <2> QED BY <1>5, <2>2, SeqEqual
<1>7. Append(<<>>, a) = <<a>> /\ Front(<<a>>) = <<>>
  BY SubSeqEmpty DEF Front
<1>8. <<a>> # <<>> /\ <<a, b>> # <<>>
  BY EmptySeq, <1>1, <1>5
<1> QED BY <1>4, <1>6, <1>7, <1>8

\* In the array of the listing; behind the result.
InList(got) == W("elements", Listed, got)
Closed(got) == W("name", <<>>, got)

LEMMA Paths ==
    /\ Listed = <<"result", "identities">> /\ Errors = <<"errors">>
    /\ <<>> \notin Searched /\ <<"result">> \notin Searched /\ <<"messages">> \notin Searched
    /\ Listed \in Searched /\ Errors \in Searched /\ Errors # Listed
    /\ Listed # <<>> /\ Front(Listed) = <<"result">>
<1>1. Listed = <<"result", "identities">> /\ Errors = <<"errors">>
  BY ExchangeAssumption DEF Errors
<1>2. Len(Listed) = 2 /\ Len(Errors) = 1 /\ Errors[1] = "errors" /\ Len(<<>>) = 0
      /\ Len(<<"result">>) = 1 /\ Len(<<"messages">>) = 1
      /\ <<"result">>[1] = "result" /\ <<"messages">>[1] = "messages"
  BY <1>1
<1>3. "result" # "errors" /\ "messages" # "errors"
  OBVIOUS
<1>4. Front(<<"result", "identities">>) = <<"result">>
  BY PathFacts
<1> QED BY <1>1, <1>2, <1>3, <1>4 DEF Searched

LEMMA Opens == Leads(Start, <<"{", "result">>, W("value", <<"result">>, <<>>))
<1>1. Start = W("value", <<>>, <<>>)
  BY DEF Start, W
<1>2. Feed(Start, "{") = W("name", <<>>, <<>>)
  BY <1>1, FeedObject, Paths
<1>3. Append(<<>>, "result") = <<"result">>
  BY PathFacts
<1>4. Feed(W("name", <<>>, <<>>), "result") = W("value", <<"result">>, <<>>)
  BY <1>3, FeedMember, "result" \notin Delimiters DEF Delimiters
<1> QED BY <1>2, <1>4, Leads2

LEMMA ListOpens == Leads(W("value", <<"result">>, <<>>), <<"{", "identities", "[">>, InList(<<>>))
<1>1. Feed(W("value", <<"result">>, <<>>), "{") = W("name", <<"result">>, <<>>)
  BY FeedObject, Paths
<1>2. Append(<<"result">>, "identities") = Listed
  BY PathFacts, Paths
<1>3. Feed(W("name", <<"result">>, <<>>), "identities") = W("value", Listed, <<>>)
  BY <1>2, FeedMember, "identities" \notin Delimiters DEF Delimiters
<1>4. Feed(W("value", Listed, <<>>), "[") = InList(<<>>)
  BY FeedList, Paths DEF InList
<1> QED BY <1>1, <1>3, <1>4, Leads3

LEMMA ListTakes == ASSUME NEW got, NEW id \in Elements
                   PROVE  Leads(InList(got), <<id>>, InList(Append(got, id)))
BY FeedElement, Leads1 DEF InList

LEMMA ListCloses == ASSUME NEW got
                    PROVE  Leads(InList(got), <<"]", "caname", "ca", "}">>, Closed(got))
<1>1. Feed(InList(got), "]") = W("name", <<"result">>, got)
  BY FeedListEnd, Paths DEF InList, After
<1>2. Feed(W("name", <<"result">>, got), "caname") = W("value", <<"result", "caname">>, got)
  <2>1. Append(<<"result">>, "caname") = <<"result", "caname">>
    BY PathFacts
  <2> QED BY <2>1, FeedMember, "caname" \notin Delimiters DEF Delimiters
<1>3. Feed(W("value", <<"result", "caname">>, got), "ca") = W("name", <<"result">>, got)
  <2>1. Front(<<"result", "caname">>) = <<"result">> /\ <<"result", "caname">> # <<>>
    BY PathFacts
  <2> QED BY <2>1, FeedScalar, "ca" \notin Delimiters DEF Delimiters, After
<1>4. Feed(W("name", <<"result">>, got), "}") = Closed(got)
  <2>1. Front(<<"result">>) = <<>> /\ <<"result">> # <<>>
    BY PathFacts
  <2> QED BY <2>1, FeedObjectEnd DEF After, Closed
<1> QED BY <1>1, <1>2, <1>3, <1>4, Leads4

-----------------------------------------------------------------------------
(* The inductive invariant *)

\* The walk of a listing, once it has taken what the handler has written.
Expected(r, got) ==
    IF ~r.wrote THEN Start
    ELSE IF r.pc = "answer" /\ r.outcome = "ok" THEN Closed(got) ELSE InList(got)

Plain == Tokens \ Ends

\* While the handler is at work, what was taken, what is in flight and the rows
\* to come make up the rows of the query.
Unfinished(r, w, k) ==
    /\ w \in Seq(Plain)
    /\ \E got \in Seq(Elements) :
          /\ Leads(k.walk, w, Expected(r, got))
          /\ ~r.broken => got \o r.rows = r.shown

\* When it is done, the rest in flight decides as the handler did.
Decided(r, w, k) ==
    /\ w # <<>> /\ Last(w) \in Ends
    /\ \E t : /\ Leads(k.walk, Front(w), t)
              /\ t.at = "done" <=> r.outcome = "ok"
              /\ t.at = "done" /\ ~r.broken => t.got = r.shown

Replied(r, w) == w # <<>> /\ (Accepts(w, r.status) <=> r.outcome = "ok")

Positions(op) ==
    CASE op = "list" -> {"none", "authenticate", "query", "chunk", "rows", "close", "answer"}
      [] op = "affiliations" -> {"none", "authenticate", "query", "collect", "answer"}
      [] op = "get" -> {"none", "authenticate", "read", "answer"}
      [] op = "add" -> {"none", "authenticate", "insert", "read", "answer"}
      [] op = "delete" -> {"none", "authenticate", "remove", "answer"}
      [] op = "none" -> {"none"}

\* The handler: what it has written, its status and its outcome at each position.
HandlerOK(r, rc) ==
    /\ r.pc \in Positions(r.op)
    /\ r.pc \notin {"none", "answer"} => r.outcome = "none"
    /\ r.pc = "answer" => r.outcome \in {"ok", "error"}
    /\ r.pc # "none" /\ r.op # "list" => ~r.wrote
    /\ r.pc \in {"authenticate", "query", "chunk"} => ~r.wrote /\ ~r.broken /\ r.rows = r.shown
    /\ r.pc \in {"rows", "close"} => r.wrote
    /\ r.pc = "rows" => ~r.broken
    /\ r.pc = "close" => r.rows = <<>>
    /\ r.pc = "answer" /\ r.outcome = "ok" /\ r.op = "list" => r.wrote /\ r.rows = <<>>
    /\ r.outcome = "none" => r.status \in {0, 200, 201}
    /\ r.outcome = "none" /\ r.op # "list" => r.status = 0
    /\ r.outcome = "ok" => r.status \in {200, 201}
    /\ r.op = "add" /\ r.pc \in {"insert", "read"} => rc = 201
    /\ r.op = "add" /\ r.outcome = "ok" => r.status = 201
    /\ r.op = "add" /\ r.pc # "none" => r.id \in Elements

\* The call, next to its handler.
CallOK(r, w, k) ==
    /\ k.pc \in {"idle", "waiting"}
    /\ k.pc = "idle" => w = <<>>
    /\ k.pc = "waiting" /\ k.op = "list" /\ r.pc # "none" => Unfinished(r, w, k)
    /\ k.pc = "waiting" /\ k.op = "list" /\ r.pc = "none" => Decided(r, w, k)
    /\ k.pc = "waiting" /\ k.op # "list" /\ r.pc # "none" => w = <<>>
    /\ k.pc = "waiting" /\ k.op # "list" /\ r.pc = "none" => Replied(r, w)
    /\ k.pc = "waiting" => k.result = "none" /\ ~k.left
    /\ k.pc = "idle" /\ k.left => k.result = "error"
    /\ k.pc = "idle" /\ ~k.left /\ k.result # "none" =>
          /\ r.pc = "none" /\ k.status = r.status
          /\ k.result = "ok" <=> r.outcome = "ok"
          /\ k.op = "list" /\ k.result = "ok" /\ ~r.broken => k.walk.got = r.shown

IsCall(k) ==
    /\ k = [op |-> k.op, pc |-> k.pc, id |-> k.id, walk |-> k.walk,
            status |-> k.status, left |-> k.left, result |-> k.result]
    /\ k.result \in {"none", "ok", "error"} /\ k.left \in BOOLEAN

\* Everything about one client: the invariant is a conjunction over clients.
ClientOK(r, w, k, rc) ==
    /\ r \in Request /\ w \in Seq(Tokens) /\ IsCall(k)
    /\ k.op = r.op
    /\ HandlerOK(r, rc)
    /\ CallOK(r, w, k)

TablesOK ==
    /\ table \in Seq(Elements)
    /\ conn \in Clients \cup {Free, Lost}
    /\ successRC \in {200, 201}
    /\ calls \in 0 .. MaxCalls
    /\ crashes \in 0 .. MaxCrashes

Inv ==
    /\ TablesOK
    /\ srv = [c \in Clients |-> srv[c]] /\ wire = [c \in Clients |-> wire[c]]
    /\ cli = [c \in Clients |-> cli[c]]
    /\ \A c \in Clients : ClientOK(srv[c], wire[c], cli[c], successRC)

-----------------------------------------------------------------------------
(* How a listing ends *)

LEMMA Literals ==
    /\ "errors" \in Tokens /\ "[" \in Tokens /\ "]" \in Tokens /\ "message" \in Tokens
    /\ "messages" \in Tokens /\ "success" \in Tokens /\ "true" \in Tokens /\ "false" \in Tokens
    /\ "{" \in Tokens /\ "}" \in Tokens /\ "result" \in Tokens /\ "answer" \in Tokens
    /\ "identities" \in Tokens /\ "caname" \in Tokens /\ "ca" \in Tokens
    /\ Complete \in Tokens /\ Reset \in Tokens
BY DEF Tokens, Delimiters, Ends

LEMMA TuplesOf ==
    ASSUME NEW S
    PROVE  /\ \A a, b \in S : <<a, b>> \in Seq(S) /\ <<a>> \in Seq(S)
           /\ \A a, b, c \in S : <<a, b, c>> \in Seq(S)
           /\ \A a, b, c, d \in S : <<a, b, c, d>> \in Seq(S)
           /\ \A a, b, c, d, e, f \in S : <<a, b, c, d, e, f>> \in Seq(S)
OBVIOUS

LEMMA TokensOf ==
    /\ \A a, b \in Tokens : <<a, b>> \in Seq(Tokens) /\ <<a>> \in Seq(Tokens)
    /\ \A a, b, c \in Tokens : <<a, b, c>> \in Seq(Tokens)
    /\ \A a, b, c, d \in Tokens : <<a, b, c, d>> \in Seq(Tokens)
    /\ \A a, b, c, d, e, f \in Tokens : <<a, b, c, d, e, f>> \in Seq(Tokens)
BY TuplesOf, Zenon

LEMMA ErrorsClose == ASSUME NEW got
                     PROVE  Leads(Closed(got), <<"errors", "[", "]">>, Closed(got))
<1>1. Append(<<>>, "errors") = Errors /\ Front(Errors) = <<>> /\ Errors # <<>>
  BY PathFacts, Paths
<1>2. Feed(Closed(got), "errors") = W("value", Errors, got)
  BY <1>1, FeedMember, "errors" \notin Delimiters DEF Closed, Delimiters
<1>3. Feed(W("value", Errors, got), "[") = W("elements", Errors, got)
  BY FeedList, Paths
<1>4. Feed(W("elements", Errors, got), "]") = Closed(got)
  BY <1>1, FeedListEnd DEF After, Closed
<1> QED BY <1>2, <1>3, <1>4, Leads3

LEMMA SuccessCloses ==
    ASSUME NEW got
    PROVE  Leads(Closed(got), <<"messages", "[", "]", "success", "true", "}">>, W("done", <<>>, got))
<1> DEFINE at == W("value", <<"messages">>, got)
<1>1. Append(<<>>, "messages") = <<"messages">> /\ Append(<<>>, "success") = <<"success">>
      /\ Front(<<"messages">>) = <<>> /\ <<"messages">> # <<>>
      /\ Front(<<"success">>) = <<>> /\ <<"success">> # <<>>
  BY PathFacts
<1>2. Feed(Closed(got), "messages") = at
  <2>1. Feed(W("name", <<>>, got), "messages") = W("value", Append(<<>>, "messages"), got)
    BY FeedMember, "messages" \notin Delimiters DEF Delimiters
  <2> QED BY <1>1, <2>1, Zenon DEF Closed
<1>3. Feed(Feed(at, "["), "]") = Closed(got)
  <2>1. Feed(Feed(at, "["), "]") = After(<<"messages">>, got)
    BY <1>1, Paths, FeedEmptyList
  <2> QED BY <1>1, <2>1 DEF After, Closed
<1>4. Feed(Closed(got), "success") = W("value", <<"success">>, got)
  <2>1. Feed(W("name", <<>>, got), "success") = W("value", Append(<<>>, "success"), got)
    BY FeedMember, "success" \notin Delimiters DEF Delimiters
  <2> QED BY <1>1, <2>1, Zenon DEF Closed
<1>5. Feed(W("value", <<"success">>, got), "true") = Closed(got)
  <2>1. Feed(W("value", <<"success">>, got), "true") = After(<<"success">>, got)
    BY FeedScalar, "true" \notin Delimiters DEF Delimiters
  <2> QED BY <1>1, <2>1 DEF After, Closed
<1>6. Feed(Closed(got), "}") = W("done", <<>>, got)
  BY FeedObjectEnd DEF Closed, After
<1> HIDE DEF at
<1>7. Feed(Feed(Feed(Closed(got), "messages"), "["), "]") = Closed(got)
  BY <1>2, <1>3
<1>8. Feed(Feed(Feed(Closed(got), "success"), "true"), "}") = W("done", <<>>, got)
  BY <1>4, <1>5, <1>6
<1> QED
  <2>1. Leads(Closed(got), <<"messages", "[", "]", "success", "true", "}">>,
              Feed(Feed(Feed(Feed(Feed(Feed(Closed(got), "messages"), "["), "]"),
                             "success"), "true"), "}"))
    BY Leads6, Zenon
  <2> QED BY <1>7, <1>8, <2>1, Zenon

LEMMA EndingTokens ==
    /\ Ending(FALSE) = <<"errors", "[", "]">> \o <<"messages", "[", "]", "success", "true", "}">>
    /\ Ending(TRUE) = <<"errors", "[", "message", "]">>
                         \o <<"messages", "[", "]", "success", "false", "}">>
    /\ Ending(FALSE) \in Seq(Tokens) /\ Ending(TRUE) \in Seq(Tokens)
<1>1. Ending(FALSE) = <<"errors", "[", "]">> \o <<"messages", "[", "]", "success", "true", "}">>
  BY Zenon DEF Ending, ErrorsOf, Success
<1>2. Ending(TRUE) = <<"errors", "[", "message", "]">>
                         \o <<"messages", "[", "]", "success", "false", "}">>
  BY Zenon DEF Ending, ErrorsOf, Success
<1>3. /\ <<"errors", "[", "]">> \in Seq(Tokens) /\ <<"errors", "[", "message", "]">> \in Seq(Tokens)
      /\ <<"messages", "[", "]", "success", "true", "}">> \in Seq(Tokens)
      /\ <<"messages", "[", "]", "success", "false", "}">> \in Seq(Tokens)
  BY Literals, TokensOf, Zenon
<1> QED BY <1>1, <1>2, <1>3, ConcatProperties, Zenon

\* An answer without an error ends the walk over the body as it should.
LEMMA EndsWell == ASSUME NEW got
                  PROVE  Leads(Closed(got), Ending(FALSE), W("done", <<>>, got))
<1> DEFINE v == <<"errors", "[", "]">>
           w == <<"messages", "[", "]", "success", "true", "}">>
<1>1. v \in Seq(Tokens) /\ w \in Seq(Tokens)
  BY Literals, TokensOf, Zenon
<1>2. Leads(Closed(got), v, Closed(got)) /\ Leads(Closed(got), w, W("done", <<>>, got))
  BY ErrorsClose, SuccessCloses
<1> HIDE DEF v, w
<1>3. Leads(Closed(got), v \o w, W("done", <<>>, got))
  BY <1>1, <1>2, LeadsFurther
<1> QED BY <1>3, EndingTokens DEF v, w

\* An answer with an error ends it with an error, within the array that is
\* listed or behind the result.
LEMMA EndsBadly ==
    ASSUME NEW got, NEW s \in {InList(got), Closed(got)}
    PROVE  \E t : Leads(s, Ending(TRUE), t) /\ t.at = "error"
<1> DEFINE t == Feed(Feed(Feed(Feed(s, "errors"), "["), "message"), "]")
           v == <<"errors", "[", "message", "]">>
           w == <<"messages", "[", "]", "success", "false", "}">>
<1>1. t.at = "error"
  <2>1. CASE s = InList(got)
    <3>1. "errors" # "]" /\ "errors" \notin Elements
      BY ExchangeAssumption
    <3>2. Feed(s, "errors").at = "error"
      BY <2>1, <3>1, FeedWrong DEF InList
    <3> QED BY <3>2, FeedFailed
  <2>2. CASE s = Closed(got)
    <3>1. Append(<<>>, "errors") = Errors
      BY PathFacts, Paths
    <3>2. Feed(s, "errors") = W("value", Errors, got)
      BY <2>2, <3>1, FeedMember, "errors" \notin Delimiters DEF Closed, Delimiters
    <3>3. Feed(W("value", Errors, got), "[") = W("elements", Errors, got)
      BY FeedList, Paths
    <3>4. Feed(W("elements", Errors, got), "message").at = "error"
      BY FeedWrong, Paths
    <3> QED BY <3>2, <3>3, <3>4, FeedFailed
  <2> QED BY <2>1, <2>2
<1>2. v \in Seq(Tokens) /\ w \in Seq(Tokens)
  BY Literals, TokensOf, Zenon
<1>3. Leads(s, v, t)
  BY Leads4
<1>4. Ending(TRUE) = v \o w
  BY EndingTokens
<1> HIDE DEF t, v, w
<1>5. Leads(t, w, t)
  BY <1>1, <1>2, FailedStays
<1>6. Leads(s, v \o w, t)
  BY <1>2, <1>3, <1>5, LeadsFurther
<1> QED BY <1>1, <1>4, <1>6

\* So does an error before the first row.
LEMMA EndsAtOnce ==
    \E t : Leads(Start, (<<"{", "result">> \o <<"answer">>) \o Ending(TRUE), t) /\ t.at = "error"
<1> DEFINE v == <<"{", "result">>
           w == <<"answer">>
           r == W("value", <<"result">>, <<>>)
<1>1. v \in Seq(Tokens) /\ w \in Seq(Tokens) /\ Ending(TRUE) \in Seq(Tokens) /\ v \o w \in Seq(Tokens)
  <2>1. v \in Seq(Tokens) /\ w \in Seq(Tokens)
    BY Literals, TokensOf, Zenon
  <2> QED BY <2>1, EndingTokens, ConcatProperties, Zenon
<1>2. Leads(Start, v, r)
  BY Opens
<1>3. Leads(r, w, Closed(<<>>))
  <2>1. Front(<<"result">>) = <<>> /\ <<"result">> # <<>>
    BY PathFacts
  <2>2. Feed(r, "answer") = Closed(<<>>)
    BY <2>1, FeedScalar, "answer" \notin Delimiters DEF Delimiters, After, Closed
  <2> QED BY <2>2, Leads1
<1>4. PICK t : Leads(Closed(<<>>), Ending(TRUE), t) /\ t.at = "error"
  BY EndsBadly
<1> HIDE DEF v, w, r
<1>5. Leads(Start, v \o w, Closed(<<>>))
  BY <1>1, <1>2, <1>3, LeadsFurther
<1>6. Leads(Start, (v \o w) \o Ending(TRUE), t)
  BY <1>1, <1>4, <1>5, LeadsFurther
<1> QED BY <1>4, <1>6 DEF v, w

-----------------------------------------------------------------------------
(* The end of a response, and what SendReq finds in one *)

LEMMA EndFacts ==
    ASSUME NEW S, NEW v \in Seq(S), NEW e \in S
    PROVE  /\ v \o <<e>> \in Seq(S) /\ v \o <<e>> # <<>>
           /\ Front(v \o <<e>>) = v /\ Last(v \o <<e>>) = e
<1> DEFINE w == v \o <<e>>
           u == Front(w)
<1>1. <<e>> \in Seq(S) /\ Len(<<e>>) = 1 /\ <<e>>[1] = e
  OBVIOUS
<1>2. w \in Seq(S) /\ Len(w) = Len(v) + 1 /\ Len(v) \in Nat
      /\ \A i \in 1 .. Len(v) + 1 : w[i] = IF i <= Len(v) THEN v[i] ELSE <<e>>[i - Len(v)]
  BY <1>1, ConcatProperties
<1>3. w # <<>> /\ w[Len(w)] = e
  BY <1>1, <1>2, EmptySeq
<1>4. u = SubSeq(w, 1, Len(v))
  BY <1>2 DEF Front
<1>5. /\ u \in Seq(S) /\ Len(u) = Len(v)
      /\ \A i \in 1 .. Len(v) : u[i] = w[i]
  <2>1. \A i \in 1 .. Len(v) : w[i] \in S
    BY <1>2
  <2> HIDE DEF w
  <2> QED BY <1>2, <1>4, <2>1, SubSeqProperties
<1>6. u = v
  <2> HIDE DEF u, w
  <2> QED BY <1>2, <1>5, SeqEqual
<1> QED BY <1>2, <1>3, <1>6 DEF Last

LEMMA EndOf ==
    \A v \in Seq(Tokens), e \in Tokens :
       /\ v \o <<e>> \in Seq(Tokens) /\ v \o <<e>> # <<>>
       /\ Front(v \o <<e>>) = v /\ Last(v \o <<e>>) = e
BY EndFacts

\* The body of a request that is answered in one piece.
Reply(failed) == (<<"{", "result">> \o <<"answer">>) \o Ending(failed) \o <<Complete>>

LEMMA RangeOfTuples ==
    /\ \A a : Range(<<a>>) = {a}
    /\ \A a, b : Range(<<a, b>>) = {a, b}
    /\ \A a, b, c : Range(<<a, b, c>>) = {a, b, c}
    /\ \A a, b, c, d : Range(<<a, b, c, d>>) = {a, b, c, d}
    /\ \A a, b, c, d, e, f : Range(<<a, b, c, d, e, f>>) = {a, b, c, d, e, f}
BY DEF Range

LEMMA Joined ==
    \A v, w \in Seq(Tokens) : v \o w \in Seq(Tokens) /\ Range(v \o w) = Range(v) \cup Range(w)
BY ConcatProperties, RangeConcatenation

LEMMA ReplyTokens ==
    ASSUME NEW failed \in BOOLEAN
    PROVE  /\ Reply(failed) \in Seq(Tokens) /\ Reply(failed) # <<>>
           /\ Last(Reply(failed)) = Complete
           /\ "message" \in Range(Reply(failed)) <=> failed
           /\ "true" \in Range(Reply(failed)) <=> ~failed
<1> DEFINE begin == <<"{", "result">> \o <<"answer">>
           errors == ErrorsOf(failed)
           end == <<"messages", "[", "]", "success", Success(failed), "}">>
<1>1. /\ <<"{", "result">> \in Seq(Tokens) /\ <<"answer">> \in Seq(Tokens)
      /\ <<Complete>> \in Seq(Tokens)
  BY Literals, TokensOf, Zenon
<1>2. begin \in Seq(Tokens) /\ Range(begin) = {"{", "result", "answer"}
  <2>1. Range(<<"{", "result">>) = {"{", "result"} /\ Range(<<"answer">>) = {"answer"}
    BY RangeOfTuples, Zenon
  <2>2. begin \in Seq(Tokens) /\ Range(begin) = {"{", "result"} \cup {"answer"}
    <3>1. begin \in Seq(Tokens) /\ Range(begin) = Range(<<"{", "result">>) \cup Range(<<"answer">>)
      BY <1>1, Joined, Zenon
    <3> QED BY <2>1, <3>1, Zenon
  <2> QED BY <2>2
<1>3. /\ errors \in Seq(Tokens)
      /\ Range(errors) = IF failed THEN {"errors", "[", "message", "]"} ELSE {"errors", "[", "]"}
  <2>1. CASE failed
    <3>1. errors = <<"errors", "[", "message", "]">>
      BY <2>1, Zenon DEF ErrorsOf
    <3>2. <<"errors", "[", "message", "]">> \in Seq(Tokens)
      BY Literals, TokensOf, Zenon
    <3>3. Range(<<"errors", "[", "message", "]">>) = {"errors", "[", "message", "]"}
      BY RangeOfTuples
    <3> QED BY <2>1, <3>1, <3>2, <3>3, Zenon
  <2>2. CASE ~failed
    <3>1. errors = <<"errors", "[", "]">>
      BY <2>2, Zenon DEF ErrorsOf
    <3>2. <<"errors", "[", "]">> \in Seq(Tokens)
      BY Literals, TokensOf, Zenon
    <3>3. Range(<<"errors", "[", "]">>) = {"errors", "[", "]"}
      BY RangeOfTuples
    <3> QED BY <2>2, <3>1, <3>2, <3>3, Zenon
  <2> QED BY <2>1, <2>2
<1>4. Success(failed) = (IF failed THEN "false" ELSE "true") /\ Success(failed) \in Tokens
  BY Literals DEF Success
<1>5. end \in Seq(Tokens) /\ Range(end) = {"messages", "[", "]", "success", Success(failed), "}"}
  <2>1. end \in Seq(Tokens)
    BY <1>4, Literals, TokensOf, Zenon
  <2>2. Range(end) = {"messages", "[", "]", "success", Success(failed), "}"}
    <3> DEFINE six(a, b, c, d, e, f) == Range(<<a, b, c, d, e, f>>) = {a, b, c, d, e, f}
    <3>1. \A a, b, c, d, e, f : six(a, b, c, d, e, f)
      BY RangeOfTuples, Zenon
    <3> HIDE DEF six
    <3>2. six("messages", "[", "]", "success", Success(failed), "}")
      BY <3>1
    <3> QED BY <3>2, Zenon DEF six
  <2> QED BY <2>1, <2>2
<1>6. Range(<<Complete>>) = {Complete} /\ Complete = "EOF"
  BY RangeOfTuples DEF Complete
<1>7. Ending(failed) = errors \o end /\ Reply(failed) = (begin \o Ending(failed)) \o <<Complete>>
  BY Zenon DEF Ending, Reply
<1> HIDE DEF begin, errors, end
<1>8. Ending(failed) \in Seq(Tokens) /\ Range(Ending(failed)) = Range(errors) \cup Range(end)
  <2>1. errors \in Seq(Tokens) /\ end \in Seq(Tokens)
    BY <1>3, <1>5
  <2>2. errors \o end \in Seq(Tokens) /\ Range(errors \o end) = Range(errors) \cup Range(end)
    BY <2>1, Joined, Zenon
  <2> QED BY <1>7, <2>2, Zenon
<1>9. /\ begin \o Ending(failed) \in Seq(Tokens)
      /\ Range(begin \o Ending(failed)) = Range(begin) \cup Range(Ending(failed))
  BY <1>2, <1>8, Joined, Zenon
<1>10. Range(Reply(failed)) = Range(begin \o Ending(failed)) \cup {Complete}
  <2> DEFINE all == begin \o Ending(failed)
             last == <<Complete>>
  <2>1. all \in Seq(Tokens) /\ last \in Seq(Tokens)
    BY <1>1, <1>9, Zenon
  <2>2. Reply(failed) = all \o last /\ Range(last) = {Complete}
    BY <1>6, <1>7, Zenon
  <2> HIDE DEF all, last
  <2>3. Range(all \o last) = Range(all) \cup Range(last)
    BY <2>1, Joined, Zenon
  <2>4. Range(Reply(failed)) = Range(all) \cup {Complete}
    BY <2>2, <2>3, Zenon
  <2> QED BY <2>4, Zenon DEF all
<1>11. /\ Reply(failed) \in Seq(Tokens) /\ Reply(failed) # <<>>
       /\ Last(Reply(failed)) = Complete
  BY <1>7, <1>9, EndOf, Literals, Zenon
<1>12. Range(Reply(failed)) = {"{", "result", "answer"} \cup Range(errors) \cup Range(end) \cup {"EOF"}
  BY <1>2, <1>6, <1>8, <1>9, <1>10
<1> QED BY <1>3, <1>4, <1>5, <1>11, <1>12

-----------------------------------------------------------------------------
(* Steps of a handler, seen from its call *)

\* What a handler has written meets what the call is waiting for.
Expects(r, w, k) ==
    /\ k.op = "list" /\ r.pc # "none" => Unfinished(r, w, k)
    /\ k.op = "list" /\ r.pc = "none" => Decided(r, w, k)
    /\ k.op # "list" /\ r.pc # "none" => w = <<>>
    /\ k.op # "list" /\ r.pc = "none" => Replied(r, w)

LEMMA Parts == ASSUME NEW r, NEW w, NEW k, NEW rc, ClientOK(r, w, k, rc)
               PROVE  /\ r \in Request /\ w \in Seq(Tokens) /\ k.op = r.op /\ HandlerOK(r, rc)
                      /\ k.pc = "idle" => w = <<>>
                      /\ k.pc = "waiting" => Expects(r, w, k)
BY Zenon DEF ClientOK, CallOK, Expects

\* A step that writes what its call expects keeps the call and the handler in
\* agreement; what an earlier call returned does not come into it.
LEMMA HandlerStep ==
    ASSUME NEW r, NEW w, NEW k, NEW rc, ClientOK(r, w, k, rc), r.pc # "none",
           NEW r2 \in Request, NEW w2 \in Seq(Tokens), NEW rc2,
           r2.op = r.op, HandlerOK(r2, rc2),
           k.pc = "idle" => w2 = w,
           k.pc = "waiting" => Expects(r2, w2, k)
    PROVE  ClientOK(r2, w2, k, rc2)
<1>1. k.op = r.op /\ IsCall(k) /\ CallOK(r, w, k)
  BY DEF ClientOK
<1>2. CallOK(r2, w2, k)
  BY <1>1, Zenon DEF CallOK, Expects
<1> QED BY <1>1, <1>2 DEF ClientOK

\* Nothing is written and nothing read: the expectations stay as they are.
LEMMA Quiet ==
    ASSUME NEW r, NEW w, NEW k, Unfinished(r, w, k), NEW r2,
           r.pc # "answer", r2.pc = "answer" => r2.outcome # "ok",
           r2.wrote = r.wrote, r2.rows = r.rows, r2.shown = r.shown, r2.broken = r.broken
    PROVE  Unfinished(r2, w, k)
<1>1. ASSUME NEW got PROVE Expected(r2, got) = Expected(r, got)
  BY Zenon DEF Expected
<1> QED BY <1>1, Zenon DEF Unfinished

LEMMA EmptyWalk ==
    ASSUME NEW r, NEW k, ~r.wrote, k.walk = Start,
           r.rows \in Seq(Elements), r.rows = r.shown
    PROVE  Unfinished(r, <<>>, k)
<1>1. Leads(k.walk, <<>>, Expected(r, <<>>))
  BY LeadsNothing, Zenon DEF Expected
<1>2. <<>> \in Seq(Plain) /\ <<>> \in Seq(Elements) /\ <<>> \o r.rows = r.shown
  BY ConcatEmptySeq
<1> QED BY <1>1, <1>2, Zenon DEF Unfinished

\* More tokens in flight, which take the walk from what was expected to what is.
LEMMA FurtherOn ==
    ASSUME NEW r, NEW w, NEW k, NEW got, w \in Seq(Plain), Leads(k.walk, w, Expected(r, got)),
           NEW v \in Seq(Plain), NEW r2, NEW got2 \in Seq(Elements),
           Leads(Expected(r, got), v, Expected(r2, got2)),
           ~r2.broken => got2 \o r2.rows = r2.shown
    PROVE  Unfinished(r2, w \o v, k)
<1>1. w \o v \in Seq(Plain)
  BY ConcatProperties
<1>2. Leads(k.walk, w \o v, Expected(r2, got2))
  BY LeadsFurther
<1> QED BY <1>1, <1>2, Zenon DEF Unfinished

LEMMA PlainTokens == Plain \subseteq Tokens /\ Seq(Plain) \subseteq Seq(Tokens)
BY SeqMonotonic DEF Plain

\* The handler is done: the last token ends the response.
LEMMA DoneWith ==
    ASSUME NEW r, NEW w, NEW k, NEW got, w \in Seq(Plain), Leads(k.walk, w, Expected(r, got)),
           NEW v \in Seq(Tokens), NEW end \in Ends, NEW t, Leads(Expected(r, got), v, t),
           NEW r2, t.at = "done" <=> r2.outcome = "ok",
           t.at = "done" /\ ~r2.broken => t.got = r2.shown
    PROVE  Decided(r2, w \o (v \o <<end>>), k) /\ w \o (v \o <<end>>) \in Seq(Tokens)
<1>1. w \in Seq(Tokens) /\ end \in Tokens /\ <<end>> \in Seq(Tokens)
  BY PlainTokens, TokensOf DEF Tokens
<1>2. w \o v \in Seq(Tokens)
  BY <1>1, Joined, Zenon
<1>3. w \o (v \o <<end>>) = (w \o v) \o <<end>>
  BY <1>1, ConcatAssociative
<1>4. Leads(k.walk, w \o v, t)
  BY <1>1, LeadsFurther
<1> DEFINE all == (w \o v) \o <<end>>
<1>5. all \in Seq(Tokens) /\ all # <<>> /\ Front(all) = w \o v /\ Last(all) = end
  BY <1>1, <1>2, EndOf, Zenon
<1> HIDE DEF all
<1>6. Decided(r2, all, k)
  BY <1>4, <1>5 DEF Decided
<1> QED BY <1>3, <1>5, <1>6 DEF all

\* A reset: the walk has not come to the end of the body.
LEMMA Cut ==
    ASSUME NEW r, NEW w, NEW k, Unfinished(r, w, k), NEW r2, r2.outcome # "ok"
    PROVE  Decided(r2, w \o <<Reset>>, k) /\ w \o <<Reset>> \in Seq(Tokens)
<1>1. PICK got : Leads(k.walk, w, Expected(r, got))
  BY DEF Unfinished
<1>2. w \in Seq(Plain)
  BY DEF Unfinished
<1>3. Expected(r, got).at # "done"
  BY DEF Expected, Start, Closed, InList, W
<1>4. Leads(Expected(r, got), <<>>, Expected(r, got)) /\ <<>> \in Seq(Tokens)
  BY LeadsNothing
<1>5. Reset \in Ends /\ <<>> \o <<Reset>> = <<Reset>>
  <2>1. <<Reset>> \in Seq(Tokens)
    BY Literals, TokensOf
  <2> QED BY <2>1, ConcatEmptySeq DEF Ends
<1>6. Decided(r2, w \o (<<>> \o <<Reset>>), k) /\ w \o (<<>> \o <<Reset>>) \in Seq(Tokens)
  <2> DEFINE t == Expected(r, got)
  <2>1. (t.at = "done" <=> r2.outcome = "ok") /\ (t.at = "done" /\ ~r2.broken => t.got = r2.shown)
    BY <1>3
  <2> HIDE DEF t
  <2>2. Leads(Expected(r, got), <<>>, t)
    BY <1>4 DEF t
  <2> QED BY <1>1, <1>2, <1>4, <1>5, <2>1, <2>2, DoneWith, Zenon
<1> QED BY <1>5, <1>6

-----------------------------------------------------------------------------
(* The handlers, one lemma for each kind of step *)

\* What a step leaves as it is unless it is about the rows.
Kept(r, r2) ==
    /\ r2.op = r.op /\ r2.wrote = r.wrote /\ r2.rows = r.rows
    /\ r2.shown = r.shown /\ r2.broken = r.broken /\ r2.id = r.id

Statuses == {200, 201, 400, 401, 500}
Outcomes == {"ok", "error", "panic", "crash"}

\* The status after WriteHeader.
Sent(r, status) == IF r.status = 0 THEN status ELSE r.status

LEMMA KeptOn == ASSUME NEW r, NEW r2, NEW r3, Kept(r, r2), Kept(r2, r3)
                PROVE  Kept(r, r3)
BY Zenon DEF Kept

Placed(r, pc) == [r EXCEPT !.pc = pc]
WithOutcome(r, outcome) == [r EXCEPT !.outcome = outcome]

\* The request when its handler has returned.
Returns(r, status, outcome) ==
    [Header(r, status) EXCEPT !.pc = "answer", !.outcome = outcome]

LEMMA HeaderFields ==
    ASSUME NEW r \in Request, NEW status \in Statuses, NEW r2, r2 = Header(r, status)
    PROVE  /\ r2 \in Request /\ Kept(r, r2) /\ r2.status = Sent(r, status)
           /\ r2.outcome = r.outcome /\ r2.pc = r.pc
<1>1. CASE r.status = 0
  <2>1. r2 = [r EXCEPT !.status = status]
    BY <1>1 DEF Header
  <2> QED BY <1>1, <2>1 DEF Request, Kept, Sent, Statuses
<1>2. CASE r.status # 0
  BY <1>2 DEF Header, Kept, Sent
<1> QED BY <1>1, <1>2

LEMMA OutcomeFields ==
    ASSUME NEW r \in Request, NEW outcome \in Outcomes, NEW r2, r2 = WithOutcome(r, outcome)
    PROVE  /\ r2 \in Request /\ Kept(r, r2) /\ r2.status = r.status
           /\ r2.outcome = outcome /\ r2.pc = r.pc
BY SMTT(40) DEF Request, Kept, Outcomes, WithOutcome

LEMMA PositionFields ==
    ASSUME NEW r \in Request,
           NEW pc \in {"none", "query", "collect", "read", "insert", "remove", "answer"},
           NEW r2, r2 = Placed(r, pc)
    PROVE  /\ r2 \in Request /\ Kept(r, r2) /\ r2.status = r.status
           /\ r2.outcome = r.outcome /\ r2.pc = pc
BY DEF Request, Kept, Placed

\* A handler ends with an outcome and a status, unless a status was sent before.
LEMMA EndFields ==
    ASSUME NEW r \in Request, NEW status \in Statuses, NEW outcome \in Outcomes,
           NEW r2, r2 = Returns(r, status, outcome)
    PROVE  /\ r2 \in Request /\ Kept(r, r2) /\ r2.status = Sent(r, status)
           /\ r2.outcome = outcome /\ r2.pc = "answer"
<1> DEFINE h == Header(r, status)
           g == Placed(h, "answer")
<1>1. r2 = WithOutcome(g, outcome)
  <2>1. r2 = [[h EXCEPT !.pc = "answer"] EXCEPT !.outcome = outcome]
    BY DEF Returns
  <2> QED BY <2>1 DEF WithOutcome, Placed
<1>2. h \in Request /\ Kept(r, h) /\ h.status = Sent(r, status)
  BY HeaderFields
<1> HIDE DEF h
<1>3. g \in Request /\ Kept(h, g) /\ g.status = h.status /\ g.pc = "answer"
  BY <1>2, PositionFields
<1> HIDE DEF g
<1>4. r2 \in Request /\ Kept(g, r2) /\ r2.status = g.status /\ r2.outcome = outcome /\ r2.pc = g.pc
  BY <1>1, <1>3, OutcomeFields
<1> QED BY <1>2, <1>3, <1>4, KeptOn

LEMMA PositionsOf ==
    ASSUME NEW r, NEW rc, HandlerOK(r, rc), r \in Request
    PROVE  /\ r.op \in Ops \cup {"none"} /\ r.pc \in Positions(r.op)
           /\ r.pc \in {"chunk", "rows", "close"} => r.op = "list"
           /\ r.pc = "query" => r.op \in {"list", "affiliations"}
           /\ r.pc = "collect" => r.op = "affiliations"
           /\ r.pc = "insert" => r.op = "add"
           /\ r.pc = "read" => r.op \in {"get", "add"}
           /\ r.pc = "remove" => r.op = "delete"
           /\ r.pc # "none" => r.op # "none"
<1>1. r.op \in Ops \cup {"none"}
  BY DEF Request
<1>2. r.pc \in Positions(r.op)
  BY DEF HandlerOK
<1> QED BY <1>1, <1>2 DEF Positions, Ops

LEMMA PositionsIn ==
    ASSUME NEW op \in Ops
    PROVE  "answer" \in Positions(op) /\ "none" \in Positions(op) /\ "authenticate" \in Positions(op)
BY DEF Positions, Ops

\* What is expected does not change when nothing is written.
LEMMA QuietStep ==
    ASSUME NEW r, NEW w, NEW k, NEW rc, ClientOK(r, w, k, rc), r.pc \notin {"none", "answer"},
           NEW r2 \in Request, Kept(r, r2), r2.pc # "none",
           r.op = "list" /\ r2.pc = "answer" => r2.outcome # "ok",
           NEW rc2, HandlerOK(r2, rc2)
    PROVE  ClientOK(r2, w, k, rc2)
<1>1. /\ r \in Request /\ w \in Seq(Tokens) /\ k.op = r.op /\ HandlerOK(r, rc)
      /\ k.pc = "waiting" => Expects(r, w, k)
  BY Parts, Zenon
<1>2. CASE k.pc = "waiting" /\ k.op = "list"
  <2>1. Unfinished(r, w, k)
    BY <1>1, <1>2, Zenon DEF Expects
  <2>2. Unfinished(r2, w, k)
    BY <1>1, <1>2, <2>1, Quiet, Zenon DEF Kept
  <2>3. Expects(r2, w, k)
    BY <1>2, <2>2, Zenon DEF Expects
  <2> QED BY <1>1, <2>3, HandlerStep, Zenon DEF Kept
<1>3. CASE ~(k.pc = "waiting" /\ k.op = "list")
  <2>1. k.pc = "waiting" => Expects(r2, w, k)
    BY <1>1, <1>3, Zenon DEF Expects
  <2> QED BY <1>1, <2>1, HandlerStep, Zenon DEF Kept
<1> QED BY <1>2, <1>3

\* Admit, InsertIdentity, OpenCursor: the handler goes on without having
\* written anything.
LEMMA GoesOn ==
    ASSUME NEW r, NEW w, NEW k, NEW rc, ClientOK(r, w, k, rc),
           NEW pc \in {"query", "collect", "read", "insert", "remove"}, pc \in Positions(r.op),
           r.pc \in {"authenticate", "query", "insert"}, r.pc = "query" => r.op = "affiliations",
           NEW rc2, r.op = "add" => rc2 = 201,
           NEW r2, r2 = Placed(r, pc)
    PROVE  ClientOK(r2, w, k, rc2)
<1>1. r \in Request /\ HandlerOK(r, rc)
  BY Parts
<1>2. r2 \in Request /\ Kept(r, r2) /\ r2.status = r.status /\ r2.outcome = r.outcome /\ r2.pc = pc
  BY <1>1, PositionFields
<1>3. HandlerOK(r2, rc2)
  <2>1. r.pc = "insert" => r.op = "add"
    BY <1>1, PositionsOf
  <2>2. pc = "query" => r.pc # "insert"
    BY <2>1 DEF Positions
  <2>3. r.outcome = "none"
    BY <1>1 DEF HandlerOK
  <2>4. pc \in Positions(r2.op)
    BY <1>2, Zenon DEF Kept
  <2>5. r.op # "list" => ~r.wrote /\ r.status = 0
    BY <1>1, <2>3 DEF HandlerOK
  <2>6. r.pc # "insert" => ~r.wrote /\ ~r.broken /\ r.rows = r.shown
    BY <1>1 DEF HandlerOK
  <2>7. r.status \in {0, 200, 201}
    BY <1>1, <2>3 DEF HandlerOK
  <2>8. r2.op = "add" => r2.id \in Elements
    BY <1>1, <1>2 DEF HandlerOK, Kept
  <2> QED BY <1>2, <2>1, <2>2, <2>3, <2>4, <2>5, <2>6, <2>7, <2>8 DEF HandlerOK, Kept
<1>4. r.pc \notin {"none", "answer"} /\ r2.pc # "none" /\ r2.pc # "answer"
  BY <1>2
<1> QED BY <1>2, <1>3, <1>4, QuietStep, Zenon

\* Refuse, and every statement that fails.
LEMMA Fails ==
    ASSUME NEW r, NEW w, NEW k, NEW rc, ClientOK(r, w, k, rc), r.pc \notin {"none", "answer"},
           NEW status \in {400, 401, 500}, NEW r2, r2 = Returns(r, status, "error")
    PROVE  ClientOK(r2, w, k, rc)
<1>1. r \in Request /\ HandlerOK(r, rc)
  BY Parts
<1>2. r2 \in Request /\ Kept(r, r2) /\ r2.outcome = "error" /\ r2.pc = "answer"
  <2>1. status \in Statuses /\ "error" \in Outcomes
    BY DEF Statuses, Outcomes
  <2> QED BY <1>1, <2>1, EndFields
<1>3. HandlerOK(r2, rc)
  <2>1. r2.op \in Ops
    BY <1>1, <1>2, PositionsOf DEF Kept
  <2>2. r2.op # "list" => ~r2.wrote
    BY <1>1, <1>2 DEF Kept, HandlerOK
  <2>3. r2.op = "add" => r2.id \in Elements
    BY <1>1, <1>2 DEF HandlerOK, Kept
  <2> QED BY <1>2, <2>1, <2>2, <2>3, PositionsIn DEF HandlerOK
<1>4. r2.pc # "none" /\ r2.outcome # "ok"
  BY <1>2
<1> QED BY <1>2, <1>3, <1>4, QuietStep

\* ReadIdentity, DeleteIdentity, CollectAffiliations: the success of a request
\* that is answered in one piece.
LEMMA Succeeds ==
    ASSUME NEW r, NEW w, NEW k, NEW rc \in {200, 201}, ClientOK(r, w, k, rc),
           r.pc \in {"read", "remove", "collect"}, NEW r2,
           r2 = Returns(r, IF r.op \in {"list", "add"} THEN rc ELSE 200, "ok")
    PROVE  ClientOK(r2, w, k, rc)
<1>1. r \in Request /\ HandlerOK(r, rc)
  BY Parts
<1>2. r.op # "list" /\ r.op \in Ops
  BY <1>1, PositionsOf
<1> DEFINE status == IF r.op \in {"list", "add"} THEN rc ELSE 200
<1>3. status \in {200, 201} /\ (r.op = "add" => status = rc)
  OBVIOUS
<1>4. r2 = Returns(r, status, "ok")
  OBVIOUS
<1> HIDE DEF status
<1>5. /\ r2 \in Request /\ Kept(r, r2) /\ r2.status = Sent(r, status)
      /\ r2.outcome = "ok" /\ r2.pc = "answer"
  <2>1. status \in Statuses /\ "ok" \in Outcomes
    BY <1>3 DEF Statuses, Outcomes
  <2> QED BY <1>1, <1>4, <2>1, EndFields
<1>6. HandlerOK(r2, rc)
  <2>1. r.outcome = "none"
    BY <1>1 DEF HandlerOK
  <2>2. r.status = 0 /\ ~r.wrote /\ (r.op = "add" => rc = 201)
    BY <1>1, <1>2, <2>1, PositionsOf DEF HandlerOK
  <2>3. r2.op = r.op /\ ~r2.wrote /\ r2.status = status
    BY <1>5, <2>2 DEF Kept, Sent
  <2>4. r2.pc \in Positions(r2.op)
    BY <1>2, <1>5, <2>3, PositionsIn
  <2>5. r2.op = "add" => r2.id \in Elements
    BY <1>1, <1>5 DEF HandlerOK, Kept
  <2> QED BY <1>2, <1>3, <1>5, <2>2, <2>3, <2>4, <2>5 DEF HandlerOK
<1> QED BY <1>1, <1>2, <1>5, <1>6, QuietStep

-----------------------------------------------------------------------------
(* The handlers that are about rows *)

WithRows(r, rows) == [r EXCEPT !.rows = rows]
WithShown(r, shown) == [r EXCEPT !.shown = shown]
WithWrote(r) == [r EXCEPT !.wrote = TRUE]
WithBroken(r, broken) == [r EXCEPT !.broken = broken]
WithId(r) == [r EXCEPT !.id = "none"]

Places == {"none", "chunk", "rows", "close"}

LEMMA StillRequest ==
    ASSUME NEW r \in Request, NEW r2
    PROVE  /\ \A pc \in Places : r2 = Placed(r, pc) => r2 \in Request
           /\ \A rows \in Seq(Elements) : r2 = WithRows(r, rows) => r2 \in Request
           /\ \A shown \in Seq(Elements) : r2 = WithShown(r, shown) => r2 \in Request
           /\ r2 = WithWrote(r) => r2 \in Request
           /\ \A broken \in BOOLEAN : r2 = WithBroken(r, broken) => r2 \in Request
           /\ \A outcome \in Outcomes : r2 = WithOutcome(r, outcome) => r2 \in Request
           /\ r2 = WithId(r) => r2 \in Request
<1>1. ASSUME NEW pc \in Places, r2 = Placed(r, pc) PROVE r2 \in Request
  BY <1>1 DEF Request, Placed, Places
<1>2. ASSUME NEW rows \in Seq(Elements), r2 = WithRows(r, rows) PROVE r2 \in Request
  <2>1. r2 = [op |-> r.op, pc |-> r.pc, id |-> r.id, rows |-> rows, wrote |-> r.wrote,
              status |-> r.status, outcome |-> r.outcome, shown |-> r.shown, broken |-> r.broken]
    BY <1>2 DEF Request, WithRows
  <2> QED BY <1>2, <2>1 DEF Request
<1>3. ASSUME NEW shown \in Seq(Elements), r2 = WithShown(r, shown) PROVE r2 \in Request
  <2>1. r2 = [op |-> r.op, pc |-> r.pc, id |-> r.id, rows |-> r.rows, wrote |-> r.wrote,
              status |-> r.status, outcome |-> r.outcome, shown |-> shown, broken |-> r.broken]
    BY <1>3 DEF Request, WithShown
  <2> QED BY <1>3, <2>1 DEF Request
<1>4. ASSUME r2 = WithWrote(r) PROVE r2 \in Request
  <2>1. r2 = [op |-> r.op, pc |-> r.pc, id |-> r.id, rows |-> r.rows, wrote |-> TRUE,
              status |-> r.status, outcome |-> r.outcome, shown |-> r.shown, broken |-> r.broken]
    BY <1>4 DEF Request, WithWrote
  <2> QED BY <1>4, <2>1 DEF Request
<1>5. ASSUME NEW broken \in BOOLEAN, r2 = WithBroken(r, broken) PROVE r2 \in Request
  BY <1>5, SMTT(40) DEF Request, WithBroken
<1>6. ASSUME NEW outcome \in Outcomes, r2 = WithOutcome(r, outcome) PROVE r2 \in Request
  BY <1>6, OutcomeFields
<1>7. ASSUME r2 = WithId(r) PROVE r2 \in Request
  BY <1>7 DEF Request, WithId
<1> QED BY <1>1, <1>2, <1>3, <1>4, <1>5, <1>6, <1>7

\* The query has run.
Queried(r, t) == [r EXCEPT !.pc = "chunk", !.rows = t, !.shown = t]

LEMMA QueriedFields ==
    ASSUME NEW r \in Request, NEW t \in Seq(Elements), NEW r2, r2 = Queried(r, t)
    PROVE  /\ r2 \in Request
           /\ r2.op = r.op /\ r2.pc = "chunk" /\ r2.rows = t /\ r2.shown = t
           /\ r2.status = r.status /\ r2.outcome = r.outcome
           /\ r2.wrote = r.wrote /\ r2.broken = r.broken
<1> DEFINE h == Placed(r, "chunk")
           g == WithRows(h, t)
<1>1. r2 = WithShown(g, t)
  BY DEF Queried, Placed, WithRows, WithShown
<1>2. h \in Request
  BY StillRequest DEF Places
<1> HIDE DEF h
<1>3. g \in Request
  BY <1>2, StillRequest
<1> HIDE DEF g
<1>4. r2 \in Request
  BY <1>1, <1>3, StillRequest
<1> QED BY <1>4 DEF Request, Queried

\* The body begins.
Begins(r, status) == [Header(r, status) EXCEPT !.pc = "rows", !.wrote = TRUE]

LEMMA BeginsFields ==
    ASSUME NEW r \in Request, NEW status \in Statuses, NEW r2, r2 = Begins(r, status)
    PROVE  /\ r2 \in Request
           /\ r2.op = r.op /\ r2.pc = "rows" /\ r2.rows = r.rows /\ r2.shown = r.shown
           /\ r2.status = Sent(r, status) /\ r2.outcome = r.outcome
           /\ r2.wrote /\ r2.broken = r.broken
<1> DEFINE h == Header(r, status)
           g == Placed(h, "rows")
<1>1. r2 = WithWrote(g)
  BY DEF Begins, Placed, WithWrote
<1>2. h \in Request /\ Kept(r, h) /\ h.status = Sent(r, status) /\ h.outcome = r.outcome
  BY HeaderFields
<1> HIDE DEF h
<1>3. g \in Request
  BY <1>2, StillRequest DEF Places
<1>4. /\ g.op = h.op /\ g.pc = "rows" /\ g.rows = h.rows /\ g.shown = h.shown
      /\ g.status = h.status /\ g.outcome = h.outcome /\ g.broken = h.broken
  BY <1>2 DEF Request, Placed
<1> HIDE DEF g
<1>5. /\ r2.op = g.op /\ r2.pc = g.pc /\ r2.rows = g.rows /\ r2.shown = g.shown
      /\ r2.status = g.status /\ r2.outcome = g.outcome /\ r2.wrote /\ r2.broken = g.broken
  BY <1>1, <1>3 DEF Request, WithWrote
<1>6. r2 \in Request
  BY <1>1, <1>3, StillRequest
<1> QED BY <1>2, <1>4, <1>5, <1>6 DEF Kept

\* The cursor is at its end, or took itself for that.
Exhausted(r) == [r EXCEPT !.pc = "close", !.rows = <<>>, !.broken = (r.rows # <<>>)]

LEMMA ExhaustedFields ==
    ASSUME NEW r \in Request, NEW r2, r2 = Exhausted(r)
    PROVE  /\ r2 \in Request
           /\ r2.op = r.op /\ r2.pc = "close" /\ r2.rows = <<>> /\ r2.shown = r.shown
           /\ r2.status = r.status /\ r2.outcome = r.outcome
           /\ r2.wrote = r.wrote /\ (r2.broken <=> r.rows # <<>>)
<1> DEFINE h == Placed(r, "close")
           g == WithRows(h, <<>>)
           b == r.rows # <<>>
<1>1. r2 = WithBroken(g, b)
  BY DEF Exhausted, Placed, WithRows, WithBroken
<1>2. h \in Request
  BY StillRequest DEF Places
<1> HIDE DEF h
<1>3. g \in Request
  <2>1. <<>> \in Seq(Elements)
    OBVIOUS
  <2> QED BY <1>2, <2>1, StillRequest
<1> HIDE DEF g
<1>4. b \in BOOLEAN
  OBVIOUS
<1>5. (r2.broken <=> b)
  <2>1. "broken" \in DOMAIN g
    BY <1>3 DEF Request
  <2> HIDE DEF b
  <2> QED BY <1>1, <2>1, Zenon DEF WithBroken
<1> HIDE DEF b
<1>6. r2 \in Request
  BY <1>1, <1>3, <1>4, StillRequest
<1> QED BY <1>5, <1>6 DEF Request, Exhausted, b

\* What the connection holds after a write: nothing of it if the call is over.
Wire(w, k, tokens) == IF k.pc = "waiting" THEN w \o tokens ELSE w

\* Tokens that take what is expected before a step to what is expected after it,
\* whatever rows have been taken.
Carries(r, tokens, r2) ==
    \A got \in Seq(Elements) :
       (~r.broken => got \o r.rows = r.shown)
          => \E got2 \in Seq(Elements) :
                /\ Leads(Expected(r, got), tokens, Expected(r2, got2))
                /\ ~r2.broken => got2 \o r2.rows = r2.shown

\* The handler of a listing writes tokens that take the walk from what was
\* expected to what is.
LEMMA ListStep ==
    ASSUME NEW r, NEW w, NEW k, NEW rc, ClientOK(r, w, k, rc), r.op = "list", r.pc # "none",
           NEW tokens \in Seq(Plain), NEW r2 \in Request, r2.op = r.op, r2.pc # "none",
           Carries(r, tokens, r2), NEW rc2, HandlerOK(r2, rc2)
    PROVE  ClientOK(r2, Wire(w, k, tokens), k, rc2)
<1>1. /\ w \in Seq(Tokens) /\ k.op = "list"
      /\ k.pc = "waiting" => Expects(r, w, k)
  BY Parts
<1>2. CASE k.pc = "waiting"
  <2>1. Unfinished(r, w, k)
    BY <1>1, <1>2 DEF Expects
  <2>2. PICK got \in Seq(Elements) :
             Leads(k.walk, w, Expected(r, got)) /\ (~r.broken => got \o r.rows = r.shown)
    BY <2>1 DEF Unfinished
  <2>3. PICK got2 \in Seq(Elements) :
             /\ Leads(Expected(r, got), tokens, Expected(r2, got2))
             /\ ~r2.broken => got2 \o r2.rows = r2.shown
    BY <2>2 DEF Carries
  <2>4. w \in Seq(Plain)
    BY <2>1 DEF Unfinished
  <2>5. Unfinished(r2, w \o tokens, k)
    BY <2>2, <2>3, <2>4, FurtherOn
  <2>6. w \o tokens \in Seq(Tokens)
    BY <1>1, PlainTokens, Joined
  <2>7. Expects(r2, w \o tokens, k)
    BY <1>1, <2>5 DEF Expects
  <2>8. Wire(w, k, tokens) = w \o tokens
    BY <1>2 DEF Wire
  <2>9. k.pc # "idle"
    BY <1>2
  <2> HIDE <1>2
  <2> QED BY <2>6, <2>7, <2>8, <2>9, HandlerStep
<1>3. CASE k.pc # "waiting"
  <2>1. Wire(w, k, tokens) = w
    BY <1>3 DEF Wire
  <2> QED BY <1>1, <1>3, <2>1, HandlerStep
<1> QED BY <1>2, <1>3

LEMMA PlainWords ==
    /\ <<"{", "result">> \in Seq(Plain) /\ <<"{", "identities", "[">> \in Seq(Plain)
    /\ <<"]", "caname", "ca", "}">> \in Seq(Plain)
    /\ \A id \in Elements : <<id>> \in Seq(Plain)
<1>1. /\ "{" \in Plain /\ "}" \in Plain /\ "[" \in Plain /\ "]" \in Plain /\ "result" \in Plain
      /\ "identities" \in Plain /\ "caname" \in Plain /\ "ca" \in Plain
  BY DEF Plain, Tokens, Delimiters, Ends, Complete, Reset
<1>2. Elements \subseteq Plain
  BY ExchangeAssumption DEF Plain, Tokens
<1> DEFINE S == Plain
<1>3. /\ \A a, b \in S : <<a, b>> \in Seq(S) /\ <<a>> \in Seq(S)
      /\ \A a, b, c \in S : <<a, b, c>> \in Seq(S)
      /\ \A a, b, c, d \in S : <<a, b, c, d>> \in Seq(S)
  BY TuplesOf, Zenon
<1> QED BY <1>1, <1>2, <1>3, Zenon

\* OpenCursor, for a listing.
LEMMA OpensList ==
    ASSUME NEW r, NEW w, NEW k, NEW rc, ClientOK(r, w, k, rc), r.op = "list", r.pc = "query",
           NEW t \in Seq(Elements), NEW r2, r2 = Queried(r, t)
    PROVE  ClientOK(r2, w, k, rc)
<1>1. r \in Request /\ HandlerOK(r, rc) /\ w \in Seq(Tokens)
  BY Parts
<1>2. /\ r2 \in Request
      /\ r2.op = r.op /\ r2.pc = "chunk" /\ r2.rows = t /\ r2.shown = t
      /\ r2.status = r.status /\ r2.outcome = r.outcome
      /\ r2.wrote = r.wrote /\ r2.broken = r.broken
  BY <1>1, QueriedFields
<1>3. r.outcome = "none" /\ ~r.wrote /\ ~r.broken /\ r.status \in {0, 200, 201}
  BY <1>1 DEF HandlerOK
<1>4. HandlerOK(r2, rc)
  BY <1>2, <1>3 DEF HandlerOK, Positions
<1>5. ASSUME NEW got \in Seq(Elements)
      PROVE  \E got2 \in Seq(Elements) :
                /\ Leads(Expected(r, got), <<>>, Expected(r2, got2))
                /\ ~r2.broken => got2 \o r2.rows = r2.shown
  <2>1. <<>> \in Seq(Elements) /\ <<>> \o r2.rows = r2.shown
    BY <1>2, ConcatEmptySeq
  <2>2. Expected(r, got) = Start /\ Expected(r2, <<>>) = Start
    BY <1>2, <1>3 DEF Expected
  <2>3. Leads(Expected(r, got), <<>>, Expected(r2, <<>>))
    BY <2>2, LeadsNothing
  <2> QED BY <2>1, <2>3
<1>6. ClientOK(r2, Wire(w, k, <<>>), k, rc)
  <2>1. <<>> \in Seq(Plain)
    OBVIOUS
  <2>2. r.pc # "none" /\ r2.pc # "none"
    BY <1>2
  <2>3. Carries(r, <<>>, r2)
    BY <1>5 DEF Carries
  <2> QED BY <1>2, <1>4, <2>1, <2>2, <2>3, ListStep
<1>7. Wire(w, k, <<>>) = w
  BY <1>1, ConcatEmptySeq DEF Wire
<1> QED BY <1>6, <1>7

\* What ReadChunk and CloseListing write.
ListHead(r) == Opening(r) \o <<"{", "identities", "[">>
ListTail == <<"]", "caname", "ca", "}">>

\* ReadChunk, for a listing with its first rows before it.
LEMMA StartsRows ==
    ASSUME NEW r, NEW w, NEW k, NEW rc \in {200, 201}, ClientOK(r, w, k, rc), r.pc = "chunk",
           NEW r2, r2 = Begins(r, rc)
    PROVE  ClientOK(r2, Wire(w, k, ListHead(r)), k, rc)
<1> DEFINE tokens == ListHead(r)
<1>1. r \in Request /\ HandlerOK(r, rc) /\ w \in Seq(Tokens) /\ r.op = "list"
  BY Parts, PositionsOf
<1>2. /\ r2 \in Request
      /\ r2.op = r.op /\ r2.pc = "rows" /\ r2.rows = r.rows /\ r2.shown = r.shown
      /\ r2.status = Sent(r, rc) /\ r2.outcome = r.outcome
      /\ r2.wrote /\ r2.broken = r.broken
  BY <1>1, BeginsFields DEF Statuses
<1>3. /\ r.outcome = "none" /\ ~r.wrote /\ ~r.broken /\ r.rows = r.shown
      /\ r.status \in {0, 200, 201}
  BY <1>1 DEF HandlerOK
<1>4. HandlerOK(r2, rc)
  BY <1>1, <1>2, <1>3 DEF HandlerOK, Positions, Sent
<1>5. tokens = <<"{", "result">> \o <<"{", "identities", "[">>
  BY <1>3, Zenon DEF Opening, ListHead
<1>6. Leads(Start, tokens, InList(<<>>)) /\ tokens \in Seq(Plain)
  <2> DEFINE u == <<"{", "result">>
             v == <<"{", "identities", "[">>
  <2>1. u \in Seq(Plain) /\ v \in Seq(Plain)
    BY PlainWords, Zenon
  <2>2. Leads(Start, u, W("value", <<"result">>, <<>>))
        /\ Leads(W("value", <<"result">>, <<>>), v, InList(<<>>))
    BY Opens, ListOpens
  <2>3. tokens = u \o v
    BY <1>5
  <2> HIDE DEF u, v, tokens
  <2> QED BY <2>1, <2>2, <2>3, LeadsFurther, ConcatProperties
<1> HIDE DEF tokens
<1>7. ASSUME NEW got \in Seq(Elements)
      PROVE  \E got2 \in Seq(Elements) :
                /\ Leads(Expected(r, got), tokens, Expected(r2, got2))
                /\ ~r2.broken => got2 \o r2.rows = r2.shown
  <2>1. <<>> \in Seq(Elements) /\ <<>> \o r2.rows = r2.shown
    <3>1. r.rows \in Seq(Elements)
      BY <1>1 DEF Request
    <3> QED BY <1>2, <1>3, <3>1, ConcatEmptySeq
  <2>2. Expected(r, got) = Start /\ Expected(r2, <<>>) = InList(<<>>)
    BY <1>2, <1>3 DEF Expected
  <2>3. Leads(Expected(r, got), tokens, Expected(r2, <<>>))
    BY <1>6, <2>2
  <2> QED BY <2>1, <2>3
<1>8. ClientOK(r2, Wire(w, k, tokens), k, rc)
  <2>1. r.pc # "none" /\ r2.pc # "none"
    BY <1>2
  <2>2. Carries(r, tokens, r2)
    BY <1>7 DEF Carries
  <2> QED BY <1>1, <1>2, <1>4, <1>6, <2>1, <2>2, ListStep
<1> QED BY <1>8 DEF tokens

LEMMA RowMoves ==
    ASSUME NEW S, NEW got \in Seq(S), NEW rows \in Seq(S), rows # <<>>
    PROVE  /\ Head(rows) \in S /\ Tail(rows) \in Seq(S) /\ Append(got, Head(rows)) \in Seq(S)
           /\ Append(got, Head(rows)) \o Tail(rows) = got \o rows
<1> DEFINE h == Head(rows)
           t == Tail(rows)
<1>1. h \in S /\ t \in Seq(S) /\ <<h>> \in Seq(S)
  BY HeadTailProperties
<1>2. Append(got, h) = got \o <<h>> /\ Append(got, h) \in Seq(S)
  BY <1>1, AppendIsConcat, AppendProperties
<1>3. <<h>> \o t = rows
  <2>1. /\ Len(t) = Len(rows) - 1 /\ Len(rows) \in Nat \ {0}
        /\ \A i \in 1 .. Len(t) : t[i] = rows[i + 1]
    BY HeadTailProperties, EmptySeq
  <2>2. h = rows[1] /\ Len(<<h>>) = 1 /\ <<h>>[1] = h
    OBVIOUS
  <2> DEFINE u == <<h>>
             v == u \o t
  <2>3. u \in Seq(S) /\ Len(u) = 1 /\ u[1] = rows[1]
    BY <1>1, <2>2
  <2> HIDE DEF h, t, u
  <2>4. v \in Seq(S) /\ Len(v) = Len(rows)
        /\ \A i \in 1 .. Len(rows) : v[i] = IF i <= 1 THEN u[i] ELSE t[i - 1]
    <3>1. /\ v \in Seq(S) /\ Len(v) = Len(u) + Len(t)
          /\ \A i \in 1 .. Len(u) + Len(t) : v[i] = IF i <= Len(u) THEN u[i] ELSE t[i - Len(u)]
      BY <1>1, <2>3, ConcatProperties
    <3> HIDE DEF v
    <3> QED BY <2>1, <2>3, <3>1
  <2> HIDE DEF v
  <2>5. ASSUME NEW i \in 1 .. Len(v)
        PROVE  v[i] = rows[i]
    <3>1. i \in 1 .. Len(rows)
      BY <2>4
    <3>2. CASE i = 1
      <4>1. v[1] = u[1]
        BY <2>4, <3>1, <3>2
      <4> QED BY <2>3, <3>2, <4>1
    <3>3. CASE i # 1
      <4>1. i \in Int /\ i > 1 /\ i <= Len(rows) /\ Len(rows) \in Int
        BY <2>1, <3>1, <3>3
      <4>2. v[i] = t[i - 1]
        BY <2>4, <3>1, <4>1
      <4>3. i - 1 \in 1 .. Len(t) /\ (i - 1) + 1 = i
        BY <2>1, <4>1
      <4>4. t[i - 1] = rows[(i - 1) + 1]
        BY <2>1, <4>3
      <4> QED BY <4>2, <4>3, <4>4
    <3> QED BY <3>2, <3>3
  <2>6. v = rows
    BY <2>4, <2>5, SeqEqual
  <2> QED BY <2>6 DEF v, u
<1> HIDE DEF h, t
<1>4. (got \o <<h>>) \o t = got \o (<<h>> \o t)
  BY <1>1, ConcatAssociative
<1> QED BY <1>1, <1>2, <1>3, <1>4 DEF h, t

\* WriteRow.
LEMMA WritesRow ==
    ASSUME NEW r, NEW w, NEW k, NEW rc, ClientOK(r, w, k, rc), r.pc = "rows", r.rows # <<>>,
           NEW r2, r2 = WithRows(r, Tail(r.rows))
    PROVE  ClientOK(r2, Wire(w, k, <<Head(r.rows)>>), k, rc)
<1> DEFINE id == Head(r.rows)
           tokens == <<id>>
<1>1. r \in Request /\ HandlerOK(r, rc) /\ r.op = "list"
  BY Parts, PositionsOf
<1>2. r.rows \in Seq(Elements) /\ id \in Elements /\ Tail(r.rows) \in Seq(Elements)
  <2>1. r.rows \in Seq(Elements)
    BY <1>1 DEF Request
  <2> QED BY <2>1, HeadTailProperties
<1>3. /\ r2.op = r.op /\ r2.pc = "rows" /\ r2.rows = Tail(r.rows) /\ r2.shown = r.shown
      /\ r2.status = r.status /\ r2.outcome = r.outcome
      /\ r2.wrote = r.wrote /\ r2.broken = r.broken
  BY <1>1 DEF WithRows, Request
<1>4. r2 \in Request
  BY <1>1, <1>2, StillRequest
<1>5. HandlerOK(r2, rc)
  BY <1>1, <1>3 DEF HandlerOK, Positions
<1> HIDE DEF id
<1>6. ASSUME NEW got \in Seq(Elements), ~r.broken => got \o r.rows = r.shown
      PROVE  \E got2 \in Seq(Elements) :
                /\ Leads(Expected(r, got), tokens, Expected(r2, got2))
                /\ ~r2.broken => got2 \o r2.rows = r2.shown
  <2> DEFINE got2 == Append(got, id)
  <2>1. got2 \in Seq(Elements) /\ got2 \o Tail(r.rows) = got \o r.rows
    BY <1>2, RowMoves DEF id
  <2>2. Expected(r, got) = InList(got) /\ Expected(r2, got2) = InList(got2)
    <3>1. r.wrote /\ r2.wrote
      BY <1>1, <1>3 DEF HandlerOK
    <3> QED BY <1>3, <3>1 DEF Expected
  <2>3. Leads(Expected(r, got), tokens, Expected(r2, got2))
    BY <1>2, <2>2, ListTakes
  <2>4. ~r2.broken => got2 \o r2.rows = r2.shown
    BY <1>3, <1>6, <2>1
  <2> HIDE DEF got2
  <2> QED BY <2>1, <2>3, <2>4
<1>7. tokens \in Seq(Plain)
  BY <1>2, PlainWords
<1>8. ClientOK(r2, Wire(w, k, tokens), k, rc)
  <2>1. r.pc # "none" /\ r2.pc # "none"
    BY <1>3
  <2>2. Carries(r, tokens, r2)
    BY <1>6 DEF Carries
  <2> HIDE DEF tokens
  <2> QED BY <1>1, <1>3, <1>4, <1>5, <1>7, <2>1, <2>2, ListStep
<1> QED BY <1>8 DEF id

\* EndRows.
LEMMA RowsEnd ==
    ASSUME NEW r, NEW w, NEW k, NEW rc, ClientOK(r, w, k, rc), r.pc = "rows",
           NEW r2, r2 = Exhausted(r)
    PROVE  ClientOK(r2, w, k, rc)
<1>1. r \in Request /\ HandlerOK(r, rc) /\ w \in Seq(Tokens) /\ r.op = "list"
  BY Parts, PositionsOf
<1>2. /\ r2 \in Request
      /\ r2.op = r.op /\ r2.pc = "close" /\ r2.rows = <<>> /\ r2.shown = r.shown
      /\ r2.status = r.status /\ r2.outcome = r.outcome
      /\ r2.wrote = r.wrote /\ (r2.broken <=> r.rows # <<>>)
  BY <1>1, ExhaustedFields
<1>3. r.outcome = "none" /\ r.wrote /\ ~r.broken /\ r.status \in {0, 200, 201}
  BY <1>1 DEF HandlerOK
<1>4. HandlerOK(r2, rc)
  BY <1>1, <1>2, <1>3 DEF HandlerOK, Positions
<1>5. ASSUME NEW got \in Seq(Elements), ~r.broken => got \o r.rows = r.shown
      PROVE  \E got2 \in Seq(Elements) :
                /\ Leads(Expected(r, got), <<>>, Expected(r2, got2))
                /\ ~r2.broken => got2 \o r2.rows = r2.shown
  <2>1. Expected(r, got) = InList(got) /\ Expected(r2, got) = InList(got)
    BY <1>2, <1>3 DEF Expected
  <2>2. Leads(Expected(r, got), <<>>, Expected(r2, got))
    BY <2>1, LeadsNothing
  <2>3. ~r2.broken => got \o r2.rows = r2.shown
    BY <1>2, <1>3, <1>5
  <2> QED BY <2>2, <2>3
<1>6. ClientOK(r2, Wire(w, k, <<>>), k, rc)
  <2>1. <<>> \in Seq(Plain)
    OBVIOUS
  <2>2. r.pc # "none" /\ r2.pc # "none"
    BY <1>2
  <2>3. Carries(r, <<>>, r2)
    BY <1>5 DEF Carries
  <2> QED BY <1>1, <1>2, <1>4, <2>1, <2>2, <2>3, ListStep
<1>7. Wire(w, k, <<>>) = w
  BY <1>1, ConcatEmptySeq DEF Wire
<1> QED BY <1>6, <1>7

\* CloseListing.
LEMMA Closes ==
    ASSUME NEW r, NEW w, NEW k, NEW rc \in {200, 201}, ClientOK(r, w, k, rc), r.pc = "close",
           NEW r2, r2 = Returns(r, rc, "ok")
    PROVE  ClientOK(r2, Wire(w, k, ListTail), k, rc)
<1> DEFINE tokens == ListTail
<1>1. r \in Request /\ HandlerOK(r, rc) /\ r.op = "list"
  BY Parts, PositionsOf
<1>2. /\ r2 \in Request /\ Kept(r, r2) /\ r2.status = Sent(r, rc)
      /\ r2.outcome = "ok" /\ r2.pc = "answer"
  BY <1>1, EndFields DEF Statuses, Outcomes
<1>3. r.outcome = "none" /\ r.wrote /\ r.rows = <<>> /\ r.status \in {0, 200, 201}
  BY <1>1 DEF HandlerOK
<1>4. HandlerOK(r2, rc)
  <2>1. r2.op = "list" /\ r2.wrote /\ r2.rows = <<>>
    BY <1>1, <1>2, <1>3 DEF Kept
  <2>2. r2.status \in {200, 201}
    BY <1>2, <1>3 DEF Sent
  <2> QED BY <1>2, <2>1, <2>2 DEF HandlerOK, Positions
<1>5. ASSUME NEW got \in Seq(Elements), ~r.broken => got \o r.rows = r.shown
      PROVE  \E got2 \in Seq(Elements) :
                /\ Leads(Expected(r, got), tokens, Expected(r2, got2))
                /\ ~r2.broken => got2 \o r2.rows = r2.shown
  <2>1. Expected(r, got) = InList(got) /\ Expected(r2, got) = Closed(got)
    <3>1. r2.wrote
      BY <1>2, <1>3 DEF Kept
    <3> QED BY <1>2, <1>3, <3>1 DEF Expected
  <2>2. Leads(Expected(r, got), tokens, Expected(r2, got))
    BY <2>1, ListCloses DEF ListTail
  <2>3. ~r2.broken => got \o r2.rows = r2.shown
    BY <1>2, <1>5, Zenon DEF Kept
  <2> QED BY <2>2, <2>3
<1>6. tokens \in Seq(Plain)
  BY PlainWords, Zenon DEF ListTail
<1> HIDE DEF tokens
<1>7. ClientOK(r2, Wire(w, k, tokens), k, rc)
  <2>1. r.pc # "none" /\ r2.pc # "none" /\ r2.op = r.op
    BY <1>2 DEF Kept
  <2>2. Carries(r, tokens, r2)
    BY <1>5 DEF Carries
  <2> QED BY <1>1, <1>2, <1>4, <1>6, <2>1, <2>2, ListStep
<1> QED BY <1>7 DEF tokens

\* A handler that panics, or that dies with the server, wherever it is.
Dropped(r, outcome) == [r EXCEPT !.pc = "none", !.outcome = outcome]

LEMMA DroppedFields ==
    ASSUME NEW r \in Request, NEW outcome \in Outcomes, NEW r2, r2 = Dropped(r, outcome)
    PROVE  r2 \in Request /\ r2.op = r.op /\ r2.pc = "none" /\ r2.outcome = outcome
<1> DEFINE g == Placed(r, "none")
<1>1. r2 = WithOutcome(g, outcome)
  BY DEF Dropped, Placed, WithOutcome
<1>2. g \in Request /\ Kept(r, g) /\ g.pc = "none"
  BY PositionFields
<1> HIDE DEF g
<1>3. r2 \in Request /\ Kept(g, r2) /\ r2.outcome = outcome /\ r2.pc = g.pc
  BY <1>1, <1>2, OutcomeFields
<1> QED BY <1>2, <1>3 DEF Kept

LEMMA ResetRefused ==
    ASSUME NEW r, r.outcome # "ok"
    PROVE  Replied(r, <<Reset>>)
<1>1. <<Reset>> # <<>> /\ Last(<<Reset>>) = Reset /\ Reset # Complete
  BY DEF Last, Reset, Complete
<1>2. ~Accepts(<<Reset>>, r.status)
  BY <1>1, Zenon DEF Accepts
<1> QED BY <1>1, <1>2 DEF Replied

LEMMA Drops ==
    ASSUME NEW r, NEW w, NEW k, NEW rc, ClientOK(r, w, k, rc), r.pc # "none",
           NEW outcome \in {"panic", "crash"}, NEW r2, r2 = Dropped(r, outcome), NEW rc2
    PROVE  ClientOK(r2, Wire(w, k, <<Reset>>), k, rc2)
<1>1. /\ r \in Request /\ HandlerOK(r, rc) /\ w \in Seq(Tokens) /\ k.op = r.op
      /\ k.pc = "waiting" => Expects(r, w, k)
  BY Parts
<1>2. r2 \in Request /\ r2.op = r.op /\ r2.pc = "none" /\ r2.outcome = outcome
  BY <1>1, DroppedFields DEF Outcomes
<1>3. HandlerOK(r2, rc2)
  <2>1. r2.op \in Ops
    BY <1>1, <1>2, PositionsOf
  <2> QED BY <1>2, <2>1, PositionsIn DEF HandlerOK
<1>4. r2.outcome # "ok"
  BY <1>2
<1>5. CASE k.pc # "waiting"
  <2>1. Wire(w, k, <<Reset>>) = w
    BY <1>5 DEF Wire
  <2> QED BY <1>1, <1>2, <1>3, <1>5, <2>1, HandlerStep
<1>6. CASE k.pc = "waiting" /\ k.op = "list"
  <2>1. Unfinished(r, w, k)
    BY <1>1, <1>6 DEF Expects
  <2>2. Decided(r2, w \o <<Reset>>, k) /\ w \o <<Reset>> \in Seq(Tokens)
    BY <1>4, <2>1, Cut
  <2>3. Expects(r2, w \o <<Reset>>, k)
    BY <1>2, <1>6, <2>2 DEF Expects
  <2>4. Wire(w, k, <<Reset>>) = w \o <<Reset>> /\ k.pc # "idle"
    BY <1>6 DEF Wire
  <2> HIDE <1>6
  <2> QED BY <1>1, <1>2, <1>3, <2>2, <2>3, <2>4, HandlerStep
<1>7. CASE k.pc = "waiting" /\ k.op # "list"
  <2>1. w = <<>>
    BY <1>1, <1>7 DEF Expects
  <2>2. <<Reset>> \in Seq(Tokens) /\ <<>> \o <<Reset>> = <<Reset>>
    <3>1. <<Reset>> \in Seq(Tokens)
      BY Literals, TokensOf
    <3> QED BY <3>1, ConcatEmptySeq
  <2>3. Replied(r2, <<Reset>>)
    BY <1>4, ResetRefused
  <2>4. Expects(r2, <<Reset>>, k)
    BY <1>2, <1>7, <2>3 DEF Expects
  <2>5. Wire(w, k, <<Reset>>) = <<Reset>> /\ k.pc # "idle"
    BY <1>7, <2>1, <2>2 DEF Wire
  <2> HIDE <1>7
  <2> QED BY <1>1, <1>2, <1>3, <2>2, <2>4, <2>5, HandlerStep
<1> QED BY <1>5, <1>6, <1>7

\* Answer: what ServeHTTP writes after the handler.
Answered(r) == [r EXCEPT !.pc = "none", !.wrote = TRUE, !.id = "none"]

LEMMA AnsweredFields ==
    ASSUME NEW r \in Request, NEW r2, r2 = Answered(r)
    PROVE  /\ r2 \in Request
           /\ r2.op = r.op /\ r2.pc = "none" /\ r2.outcome = r.outcome /\ r2.status = r.status
           /\ r2.rows = r.rows /\ r2.shown = r.shown /\ r2.broken = r.broken
<1> DEFINE h == Placed(r, "none")
           g == WithWrote(h)
<1>1. r2 = WithId(g)
  BY DEF Answered, Placed, WithWrote, WithId
<1>2. h \in Request
  BY StillRequest DEF Places
<1> HIDE DEF h
<1>3. g \in Request
  BY <1>2, StillRequest
<1> HIDE DEF g
<1>4. r2 \in Request
  BY <1>1, <1>3, StillRequest
<1> QED BY <1>4 DEF Request, Answered

\* The tokens of Answer without the last.
Rest(r) == Opening(r) \o (IF r.wrote THEN <<>> ELSE <<"answer">>) \o Ending(r.outcome = "error")

LEMMA RestOf ==
    ASSUME NEW r \in Request, r.outcome \in {"ok", "error"}
    PROVE  /\ r.wrote /\ r.outcome = "ok" => Rest(r) = Ending(FALSE)
           /\ r.wrote /\ r.outcome = "error" => Rest(r) = Ending(TRUE)
           /\ ~r.wrote /\ r.outcome = "ok"
                 => Rest(r) = (<<"{", "result">> \o <<"answer">>) \o Ending(FALSE)
           /\ ~r.wrote /\ r.outcome = "error"
                 => Rest(r) = (<<"{", "result">> \o <<"answer">>) \o Ending(TRUE)
           /\ Rest(r) \in Seq(Tokens)
<1>1. /\ <<"{", "result">> \o <<"answer">> \in Seq(Tokens)
      /\ Ending(TRUE) \in Seq(Tokens) /\ Ending(FALSE) \in Seq(Tokens)
  <2>1. <<"{", "result">> \in Seq(Tokens) /\ <<"answer">> \in Seq(Tokens)
    BY Literals, TokensOf, Zenon
  <2> QED BY <2>1, Joined, EndingTokens, Zenon
<1>5. \A v \in Seq(Tokens) : (<<>> \o <<>>) \o v = v
  BY ConcatEmptySeq
<1>2. (r.outcome = "error") = TRUE \/ (r.outcome = "error") = FALSE
  OBVIOUS
<1>3. CASE r.wrote
  <2>1. Opening(r) = <<>>
    BY <1>3, Zenon DEF Opening
  <2>2. Rest(r) = (<<>> \o <<>>) \o Ending(r.outcome = "error")
    BY <1>3, <2>1, Zenon DEF Rest
  <2>3. CASE r.outcome = "ok"
    <3>1. (r.outcome = "error") = FALSE
      BY <2>3
    <3>2. Rest(r) = (<<>> \o <<>>) \o Ending(FALSE)
      BY <2>2, <3>1, Zenon
    <3>3. Rest(r) = Ending(FALSE)
      BY <1>1, <1>5, <3>2, Zenon
    <3>4. Rest(r) \in Seq(Tokens)
      BY <1>1, <3>3, Zenon
    <3>5. r.outcome # "error"
      BY <2>3
    <3> QED BY <1>3, <3>3, <3>4, <3>5, Zenon
  <2>4. CASE r.outcome = "error"
    <3>1. (r.outcome = "error") = TRUE
      BY <2>4
    <3>2. Rest(r) = (<<>> \o <<>>) \o Ending(TRUE)
      BY <2>2, <3>1, Zenon
    <3>3. Rest(r) = Ending(TRUE)
      BY <1>1, <1>5, <3>2, Zenon
    <3>4. Rest(r) \in Seq(Tokens)
      BY <1>1, <3>3, Zenon
    <3>5. r.outcome # "ok"
      BY <2>4
    <3> QED BY <1>3, <3>3, <3>4, <3>5, Zenon
  <2> QED BY <2>3, <2>4
<1>4. CASE ~r.wrote
  <2>1. Opening(r) = <<"{", "result">>
    BY <1>4, Zenon DEF Opening
  <2>2. Rest(r) = (<<"{", "result">> \o <<"answer">>) \o Ending(r.outcome = "error")
    BY <1>4, <2>1, Zenon DEF Rest
  <2>3. CASE r.outcome = "ok"
    <3>1. (r.outcome = "error") = FALSE
      BY <2>3
    <3>2. Rest(r) = (<<"{", "result">> \o <<"answer">>) \o Ending(FALSE)
      BY <2>2, <3>1, Zenon
    <3>3. Rest(r) \in Seq(Tokens)
      BY <1>1, <3>2, Joined, Zenon
    <3> QED BY <1>4, <2>3, <3>2, <3>3, Zenon
  <2>4. CASE r.outcome = "error"
    <3>1. (r.outcome = "error") = TRUE
      BY <2>4
    <3>2. Rest(r) = (<<"{", "result">> \o <<"answer">>) \o Ending(TRUE)
      BY <2>2, <3>1, Zenon
    <3>3. Rest(r) \in Seq(Tokens)
      BY <1>1, <3>2, Joined, Zenon
    <3> QED BY <1>4, <2>4, <3>2, <3>3, Zenon
  <2> QED BY <2>3, <2>4
<1> QED BY <1>3, <1>4

\* The end of a listing is what its handler decided.
LEMMA ListAnswered ==
    ASSUME NEW r, NEW w, NEW k, NEW rc, ClientOK(r, w, k, rc), r.op = "list", r.pc = "answer",
           k.pc = "waiting", NEW r2, r2 = Answered(r)
    PROVE  /\ Decided(r2, w \o (Rest(r) \o <<Complete>>), k)
           /\ w \o (Rest(r) \o <<Complete>>) \in Seq(Tokens)
<1>1. r \in Request /\ HandlerOK(r, rc) /\ k.op = r.op /\ Expects(r, w, k)
  BY Parts
<1>2. Unfinished(r, w, k)
  BY <1>1 DEF Expects
<1>3. PICK got \in Seq(Elements) :
           Leads(k.walk, w, Expected(r, got)) /\ (~r.broken => got \o r.rows = r.shown)
  BY <1>2 DEF Unfinished
<1>4. w \in Seq(Plain)
  BY <1>2 DEF Unfinished
<1>5. /\ r2.outcome = r.outcome /\ r2.shown = r.shown /\ r2.broken = r.broken
  BY <1>1, AnsweredFields
<1>6. r.outcome \in {"ok", "error"} /\ (r.outcome = "ok" => r.wrote /\ r.rows = <<>>)
  BY <1>1 DEF HandlerOK
<1>7. Rest(r) \in Seq(Tokens)
  BY <1>1, <1>6, RestOf
<1>8. \E t : /\ Leads(Expected(r, got), Rest(r), t)
             /\ t.at = "done" <=> r2.outcome = "ok"
             /\ t.at = "done" /\ ~r2.broken => t.got = r2.shown
  <2>1. CASE r.outcome = "ok"
    <3>1. Expected(r, got) = Closed(got) /\ Rest(r) = Ending(FALSE)
      BY <1>1, <1>6, <2>1, RestOf DEF Expected
    <3>2. Leads(Expected(r, got), Rest(r), W("done", <<>>, got))
      BY <3>1, EndsWell
    <3>3. ~r.broken => got = r.shown
      BY <1>3, <1>6, <2>1, ConcatEmptySeq
    <3>4. W("done", <<>>, got).at = "done" /\ W("done", <<>>, got).got = got
      BY DEF W
    <3> QED BY <1>5, <2>1, <3>2, <3>3, <3>4
  <2>2. CASE r.outcome = "error" /\ r.wrote
    <3>1. Expected(r, got) = InList(got) /\ Rest(r) = Ending(TRUE)
      BY <1>1, <1>6, <2>2, RestOf DEF Expected
    <3>2. PICK t : Leads(Expected(r, got), Rest(r), t) /\ t.at = "error"
      BY <3>1, EndsBadly
    <3> QED BY <1>5, <2>2, <3>2
  <2>3. CASE r.outcome = "error" /\ ~r.wrote
    <3>1. Expected(r, got) = Start
          /\ Rest(r) = (<<"{", "result">> \o <<"answer">>) \o Ending(TRUE)
      BY <1>1, <1>6, <2>3, RestOf DEF Expected
    <3>2. PICK t : Leads(Expected(r, got), Rest(r), t) /\ t.at = "error"
      BY <3>1, EndsAtOnce
    <3> QED BY <1>5, <2>3, <3>2
  <2> QED BY <1>6, <2>1, <2>2, <2>3
<1>9. PICK t : /\ Leads(Expected(r, got), Rest(r), t)
               /\ t.at = "done" <=> r2.outcome = "ok"
               /\ t.at = "done" /\ ~r2.broken => t.got = r2.shown
  BY <1>8
<1>10. Complete \in Ends
  BY DEF Ends
<1> DEFINE v == Rest(r)
           e == Expected(r, got)
<1>11. Leads(k.walk, w, e) /\ Leads(e, v, t) /\ v \in Seq(Tokens)
  BY <1>3, <1>7, <1>9
<1> QED
  <2>1. (t.at = "done" <=> r2.outcome = "ok") /\ (t.at = "done" /\ ~r2.broken => t.got = r2.shown)
    BY <1>9
  <2> QED BY <1>3, <1>4, <1>9, <1>10, <1>11, <2>1, DoneWith

LEMMA Answers ==
    ASSUME NEW r, NEW w, NEW k, NEW rc, ClientOK(r, w, k, rc), r.pc = "answer",
           NEW r2, r2 = Answered(r)
    PROVE  ClientOK(r2, Wire(w, k, Rest(r) \o <<Complete>>), k, rc)
<1> DEFINE tokens == Rest(r) \o <<Complete>>
<1>1. /\ r \in Request /\ HandlerOK(r, rc) /\ w \in Seq(Tokens) /\ k.op = r.op
      /\ k.pc = "waiting" => Expects(r, w, k)
  BY Parts
<1>2. /\ r2 \in Request
      /\ r2.op = r.op /\ r2.pc = "none" /\ r2.outcome = r.outcome /\ r2.status = r.status
      /\ r2.rows = r.rows /\ r2.shown = r.shown /\ r2.broken = r.broken
  BY <1>1, AnsweredFields
<1>3. r.outcome \in {"ok", "error"} /\ (r.op # "list" => ~r.wrote)
  BY <1>1 DEF HandlerOK
<1>4. HandlerOK(r2, rc)
  <2>1. r2.op \in Ops
    BY <1>1, <1>2, PositionsOf
  <2> QED BY <1>1, <1>2, <1>3, <2>1, PositionsIn DEF HandlerOK
<1>5. CASE k.pc # "waiting"
  <2>1. Wire(w, k, tokens) = w
    BY <1>5 DEF Wire
  <2> HIDE DEF tokens
  <2>2. ClientOK(r2, Wire(w, k, tokens), k, rc)
    BY <1>1, <1>2, <1>4, <1>5, <2>1, HandlerStep
  <2> QED BY <2>2 DEF tokens
<1>6. CASE k.pc = "waiting" /\ k.op = "list"
  <2>1. Decided(r2, w \o tokens, k) /\ w \o tokens \in Seq(Tokens)
    BY <1>1, <1>6, ListAnswered
  <2> HIDE DEF tokens
  <2>2. Expects(r2, w \o tokens, k)
    BY <1>2, <1>6, <2>1 DEF Expects
  <2>3. Wire(w, k, tokens) = w \o tokens /\ k.pc # "idle"
    BY <1>6 DEF Wire
  <2> HIDE <1>6
  <2>4. ClientOK(r2, Wire(w, k, tokens), k, rc)
    BY <1>1, <1>2, <1>4, <2>1, <2>2, <2>3, HandlerStep
  <2> QED BY <2>4 DEF tokens
<1>7. CASE k.pc = "waiting" /\ k.op # "list"
  <2> DEFINE failed == (r.outcome = "error")
  <2>1. w = <<>>
    BY <1>1, <1>7 DEF Expects
  <2>2. tokens = Reply(failed)
    <3>1. ~r.wrote
      BY <1>1, <1>3, <1>7
    <3>2. Opening(r) = <<"{", "result">>
      BY <3>1, Zenon DEF Opening
    <3> QED BY <3>1, <3>2, Zenon DEF Rest, Reply
  <2>3. /\ Reply(failed) \in Seq(Tokens) /\ Reply(failed) # <<>>
        /\ Last(Reply(failed)) = Complete
        /\ "message" \in Range(Reply(failed)) <=> failed
        /\ "true" \in Range(Reply(failed)) <=> ~failed
    <3>1. failed \in BOOLEAN
      OBVIOUS
    <3> HIDE DEF failed
    <3> QED BY <3>1, ReplyTokens
  <2>4. ~failed => r2.outcome = "ok" /\ r2.status \in {200, 201}
    BY <1>1, <1>2, <1>3 DEF HandlerOK
  <2>5. failed => r2.outcome # "ok"
    BY <1>2
  <2>6. Accepts(Reply(failed), r2.status) <=> ~failed
    <3> HIDE DEF failed
    <3>1. ~failed => r2.status < 400
      BY <2>4
    <3> QED BY <2>3, <3>1, Zenon DEF Accepts
  <2> HIDE DEF failed, tokens
  <2>7. Replied(r2, tokens)
    BY <2>2, <2>3, <2>4, <2>5, <2>6 DEF Replied
  <2>8. Expects(r2, tokens, k)
    BY <1>2, <1>7, <2>7 DEF Expects
  <2>9. Wire(w, k, tokens) = tokens /\ tokens \in Seq(Tokens) /\ k.pc # "idle"
    BY <1>7, <2>1, <2>2, <2>3, ConcatEmptySeq DEF Wire
  <2> HIDE <1>7
  <2>10. ClientOK(r2, Wire(w, k, tokens), k, rc)
    BY <1>1, <1>2, <1>4, <2>8, <2>9, HandlerStep
  <2> QED BY <2>10 DEF tokens
<1> QED BY <1>5, <1>6, <1>7

-----------------------------------------------------------------------------
(* Steps of the client *)

\* The walk stops with a verdict or goes on.
Told(k, result, walk, status) ==
    [k EXCEPT !.pc = "idle", !.id = "none", !.result = result, !.walk = walk, !.status = status]

LEMMA ToldFields ==
    ASSUME NEW k, IsCall(k), NEW result \in {"ok", "error"}, NEW walk, NEW status,
           NEW k2, k2 = Told(k, result, walk, status)
    PROVE  /\ IsCall(k2) /\ k2.op = k.op /\ k2.pc = "idle" /\ k2.result = result
           /\ k2.walk = walk /\ k2.status = status /\ k2.left = k.left
<1>1. k2 = [op |-> k.op, pc |-> "idle", id |-> "none", walk |-> walk,
            status |-> status, left |-> k.left, result |-> result]
  BY DEF IsCall, Told
<1>2. k.left \in BOOLEAN
  BY DEF IsCall
<1> QED BY <1>1, <1>2 DEF IsCall

\* A call that has returned, next to a request that is over.
LEMMA Over ==
    ASSUME NEW r, NEW w, NEW k, NEW rc, ClientOK(r, w, k, rc), r.pc = "none", k.pc = "waiting",
           NEW walk, NEW result \in {"ok", "error"}, result = "ok" <=> r.outcome = "ok",
           k.op = "list" /\ result = "ok" /\ ~r.broken => walk.got = r.shown,
           NEW k2, k2 = Told(k, result, walk, r.status)
    PROVE  ClientOK(r, <<>>, k2, rc)
<1>1. IsCall(k) /\ r \in Request /\ HandlerOK(r, rc) /\ k.op = r.op /\ ~k.left
  BY DEF ClientOK, CallOK
<1>2. /\ IsCall(k2) /\ k2.op = k.op /\ k2.pc = "idle" /\ k2.result = result
      /\ k2.walk = walk /\ k2.status = r.status /\ k2.left = k.left
  BY <1>1, ToldFields
<1>3. CallOK(r, <<>>, k2)
  BY <1>1, <1>2 DEF CallOK
<1>4. <<>> \in Seq(Tokens)
  OBVIOUS
<1> QED BY <1>1, <1>2, <1>3, <1>4 DEF ClientOK

\* SendReq: the whole body is there.
LEMMA Replies ==
    ASSUME NEW r, NEW w, NEW k, NEW rc, ClientOK(r, w, k, rc), k.pc = "waiting", k.op # "list",
           w # <<>>,
           NEW k2, k2 = Told(k, IF Accepts(w, r.status) THEN "ok" ELSE "error", Start, r.status)
    PROVE  ClientOK(r, <<>>, k2, rc)
<1> DEFINE result == IF Accepts(w, r.status) THEN "ok" ELSE "error"
<1>1. Expects(r, w, k)
  BY Parts
<1>2. r.pc = "none" /\ Replied(r, w)
  BY <1>1 DEF Expects
<1>3. result \in {"ok", "error"} /\ (result = "ok" <=> r.outcome = "ok")
  BY <1>2 DEF Replied
<1> HIDE DEF result
<1>4. k2 = Told(k, result, Start, r.status)
  BY DEF result
<1> QED BY <1>2, <1>3, <1>4, Over

\* StreamResponse: the walk over what has come.
LEMMA Streams ==
    ASSUME NEW r, NEW w, NEW k, NEW rc, ClientOK(r, w, k, rc), k.pc = "waiting", k.op = "list",
           w # <<>>, NEW walk, walk = Streamed(k.walk, Body(w)),
           NEW k2, k2 = IF Verdict(walk, Last(w)) = "none" THEN [k EXCEPT !.walk = walk]
                        ELSE Told(k, Verdict(walk, Last(w)), walk, r.status)
    PROVE  ClientOK(r, <<>>, k2, rc)
<1>1. Expects(r, w, k) /\ r \in Request /\ HandlerOK(r, rc) /\ k.op = r.op /\ w \in Seq(Tokens)
  BY Parts
<1>2. CASE r.pc # "none"
  <2>1. Unfinished(r, w, k)
    BY <1>1, <1>2 DEF Expects
  <2>2. PICK got \in Seq(Elements) :
             Leads(k.walk, w, Expected(r, got)) /\ (~r.broken => got \o r.rows = r.shown)
    BY <2>1 DEF Unfinished
  <2>3. w \in Seq(Plain)
    BY <2>1 DEF Unfinished
  <2>4. Last(w) \in Plain /\ Len(w) \in Nat
    BY <2>3, EmptySeq DEF Last
  <2>5. Last(w) \notin Ends
    BY <2>4 DEF Plain
  <2>6. walk = Expected(r, got)
    BY <2>2, <2>4, <2>5, StreamedLeads DEF Body
  <2>7. walk.at \notin {"done", "error"}
    BY <2>6 DEF Expected, Start, Closed, InList, W
  <2>8. k2 = [k EXCEPT !.walk = walk]
    BY <2>5, <2>7 DEF Verdict
  <2>9. IsCall(k) /\ k.result = "none" /\ ~k.left
    BY DEF ClientOK, CallOK
  <2>10. /\ IsCall(k2) /\ k2.op = k.op /\ k2.pc = k.pc /\ k2.result = k.result
         /\ k2.walk = walk /\ k2.status = k.status /\ k2.left = k.left
    <3>1. k2 = [op |-> k.op, pc |-> k.pc, id |-> k.id, walk |-> walk,
                status |-> k.status, left |-> k.left, result |-> k.result]
      BY <2>8, <2>9 DEF IsCall
    <3>2. k.left \in BOOLEAN /\ k.result \in {"none", "ok", "error"}
      BY <2>9 DEF IsCall
    <3> QED BY <3>1, <3>2 DEF IsCall
  <2>11. Unfinished(r, <<>>, k2)
    <3>1. <<>> \in Seq(Plain) /\ Leads(k2.walk, <<>>, Expected(r, got))
      BY <2>6, <2>10, LeadsNothing
    <3> QED BY <2>2, <3>1 DEF Unfinished
  <2>12. CallOK(r, <<>>, k2)
    BY <1>2, <2>9, <2>10, <2>11 DEF CallOK
  <2>13. <<>> \in Seq(Tokens)
    OBVIOUS
  <2> QED BY <1>1, <2>10, <2>12, <2>13 DEF ClientOK
<1>3. CASE r.pc = "none"
  <2>1. Decided(r, w, k)
    BY <1>1, <1>3 DEF Expects
  <2>2. PICK t : /\ Leads(k.walk, Front(w), t)
                 /\ t.at = "done" <=> r.outcome = "ok"
                 /\ t.at = "done" /\ ~r.broken => t.got = r.shown
    BY <2>1 DEF Decided
  <2>3. Last(w) \in Ends
    BY <2>1 DEF Decided
  <2>4. Len(Front(w)) \in Nat
    <3>1. Len(w) \in Nat \ {0} /\ \A i \in 1 .. Len(w) - 1 : w[i] \in Tokens
      BY <1>1, EmptySeq
    <3>2. Front(w) \in Seq(Tokens)
      BY <3>1, SubSeqProperties DEF Front
    <3> QED BY <3>2
  <2>5. walk = t
    BY <2>2, <2>3, <2>4, StreamedLeads DEF Body
  <2> DEFINE result == Verdict(walk, Last(w))
  <2>6. result \in {"ok", "error"} /\ (result = "ok" <=> walk.at = "done")
    BY <2>3 DEF Verdict
  <2>7. (result = "ok" <=> r.outcome = "ok") /\ (result = "ok" /\ ~r.broken => walk.got = r.shown)
    BY <2>2, <2>5, <2>6
  <2>8. k2 = Told(k, result, walk, r.status)
    BY <2>6
  <2> HIDE DEF result
  <2> QED BY <1>3, <2>6, <2>7, <2>8, Over
<1> QED BY <1>2, <1>3

\* Break.
Left(k) == [k EXCEPT !.pc = "idle", !.result = "error", !.left = TRUE]

LEMMA Leaves ==
    ASSUME NEW r, NEW w, NEW k, NEW rc, ClientOK(r, w, k, rc), NEW k2, k2 = Left(k)
    PROVE  ClientOK(r, <<>>, k2, rc)
<1>1. IsCall(k) /\ r \in Request /\ HandlerOK(r, rc) /\ k.op = r.op
  BY DEF ClientOK
<1>2. k2 = [op |-> k.op, pc |-> "idle", id |-> k.id, walk |-> k.walk,
            status |-> k.status, left |-> TRUE, result |-> "error"]
  BY <1>1 DEF IsCall, Left
<1>3. IsCall(k2) /\ k2.op = k.op /\ k2.pc = "idle" /\ k2.result = "error" /\ k2.left
  BY <1>2 DEF IsCall
<1>4. CallOK(r, <<>>, k2)
  BY <1>3 DEF CallOK
<1>5. <<>> \in Seq(Tokens)
  OBVIOUS
<1> QED BY <1>1, <1>3, <1>4, <1>5 DEF ClientOK

\* Send.
Called(op, id) == [NoCall EXCEPT !.op = op, !.pc = "waiting", !.id = id]
Requested(op, id) == [NoRequest EXCEPT !.op = op, !.pc = "authenticate", !.id = id]

LEMMA Sends ==
    ASSUME NEW op \in Ops, NEW id \in Elements \cup {"none"}, op = "add" => id \in Elements,
           NEW rc, NEW r, r = Requested(op, id), NEW k, k = Called(op, id)
    PROVE  ClientOK(r, <<>>, k, rc)
<1>1. r = [op |-> op, pc |-> "authenticate", id |-> id, rows |-> <<>>, wrote |-> FALSE,
           status |-> 0, outcome |-> "none", shown |-> <<>>, broken |-> FALSE]
  BY DEF Requested, NoRequest
<1>2. k = [op |-> op, pc |-> "waiting", id |-> id, walk |-> Start,
           status |-> 0, left |-> FALSE, result |-> "none"]
  BY DEF Called, NoCall
<1>3. <<>> \in Seq(Elements) /\ <<>> \in Seq(Tokens)
  OBVIOUS
<1>4. /\ r.op = op /\ r.pc = "authenticate" /\ r.rows = <<>> /\ r.shown = <<>>
      /\ ~r.wrote /\ ~r.broken /\ r.status = 0 /\ r.outcome = "none" /\ r.id = id
  BY <1>1
<1>5. r \in Request
  BY <1>1, <1>3 DEF Request
<1>6. HandlerOK(r, rc)
  BY <1>4, PositionsIn DEF HandlerOK
<1>7. IsCall(k) /\ k.op = op /\ k.pc = "waiting" /\ k.walk = Start /\ k.result = "none" /\ ~k.left
  BY <1>2 DEF IsCall
<1>8. Unfinished(r, <<>>, k)
  BY <1>3, <1>4, <1>7, EmptyWalk
<1>9. CallOK(r, <<>>, k)
  BY <1>4, <1>7, <1>8 DEF CallOK
<1> QED BY <1>3, <1>4, <1>5, <1>6, <1>7, <1>9 DEF ClientOK

\* Nothing has been asked yet.
LEMMA Begun ==
    ASSUME NEW rc
    PROVE  ClientOK(NoRequest, <<>>, NoCall, rc)
<1> DEFINE r == NoRequest
           k == NoCall
<1>1. <<>> \in Seq(Elements) /\ <<>> \in Seq(Tokens)
  OBVIOUS
<1>2. r.op = "none" /\ r.pc = "none" /\ r.outcome = "none" /\ r.status = 0
  BY DEF NoRequest
<1>3. r \in Request
  BY <1>1 DEF NoRequest, Request
<1>4. IsCall(k) /\ k.op = "none" /\ k.pc = "idle" /\ k.result = "none" /\ ~k.left
  BY DEF NoCall, IsCall
<1> HIDE DEF r, k
<1>5. HandlerOK(r, rc)
  BY <1>2 DEF HandlerOK, Positions
<1>6. CallOK(r, <<>>, k)
  BY <1>2, <1>4 DEF CallOK
<1>7. ClientOK(r, <<>>, k, rc)
  BY <1>1, <1>2, <1>3, <1>4, <1>5, <1>6 DEF ClientOK
<1> QED BY <1>7 DEF r, k

\* The status of the endpoint may be set by another request meanwhile.
LEMMA AnyStatus ==
    ASSUME NEW r, NEW w, NEW k, NEW rc, ClientOK(r, w, k, rc), NEW rc2 \in {rc, 201}
    PROVE  ClientOK(r, w, k, rc2)
<1>1. HandlerOK(r, rc)
  BY DEF ClientOK
<1>2. HandlerOK(r, rc2)
  BY <1>1 DEF HandlerOK
<1> QED BY <1>2, Zenon DEF ClientOK

\* Crash, for one client.
Died(r) == [r EXCEPT !.pc = "none", !.outcome = IF r.pc = "none" THEN @ ELSE "crash"]

LEMMA Dies ==
    ASSUME NEW r, NEW w, NEW k, NEW rc, ClientOK(r, w, k, rc), NEW rc2,
           NEW w2, w2 = IF k.pc = "waiting" /\ r.pc # "none" THEN Append(w, Reset) ELSE w,
           NEW r2, r2 = Died(r)
    PROVE  ClientOK(r2, w2, k, rc2)
<1>1. r \in Request /\ HandlerOK(r, rc) /\ w \in Seq(Tokens)
  BY Parts
<1>2. CASE r.pc # "none"
  <2>1. r2 = Dropped(r, "crash")
    BY <1>2 DEF Died, Dropped
  <2>2. Append(w, Reset) = w \o <<Reset>>
    BY <1>1, Literals, AppendIsConcat
  <2>3. w2 = Wire(w, k, <<Reset>>)
    BY <1>2, <2>2 DEF Wire
  <2> QED BY <1>2, <2>1, <2>3, Drops
<1>3. CASE r.pc = "none"
  <2>1. r2 = r
    <3>1. r = [op |-> r.op, pc |-> r.pc, id |-> r.id, rows |-> r.rows, wrote |-> r.wrote,
               status |-> r.status, outcome |-> r.outcome, shown |-> r.shown, broken |-> r.broken]
      BY <1>1 DEF Request
    <3>2. r2 = [r EXCEPT !.pc = "none", !.outcome = r.outcome]
      BY <1>3 DEF Died
    <3> QED BY <1>3, <3>1, <3>2
  <2>2. w2 = w
    BY <1>3
  <2>3. HandlerOK(r, rc2)
    BY <1>1, <1>3 DEF HandlerOK
  <2> QED BY <2>1, <2>2, <2>3, Zenon DEF ClientOK
<1> QED BY <1>2, <1>3

-----------------------------------------------------------------------------
(* From one client to all of them *)

\* The other clients do not see a step, but for the status of the endpoint.
LEMMA OneClient ==
    ASSUME Inv, NEW c \in Clients, NEW r, NEW w, NEW k,
           srv' = [srv EXCEPT ![c] = r], wire' = [wire EXCEPT ![c] = w],
           cli' = [cli EXCEPT ![c] = k], TablesOK', successRC' \in {successRC, 201},
           ClientOK(r, w, k, successRC')
    PROVE  Inv'
<1>1. srv = [x \in Clients |-> srv[x]] /\ wire = [x \in Clients |-> wire[x]]
      /\ cli = [x \in Clients |-> cli[x]]
  BY DEF Inv
<1>2. /\ srv' = [x \in Clients |-> IF x = c THEN r ELSE srv[x]]
      /\ wire' = [x \in Clients |-> IF x = c THEN w ELSE wire[x]]
      /\ cli' = [x \in Clients |-> IF x = c THEN k ELSE cli[x]]
  BY <1>1
<1>3. ASSUME NEW x \in Clients
      PROVE  ClientOK(srv'[x], wire'[x], cli'[x], successRC')
  <2>1. CASE x = c
    BY <1>2, <2>1
  <2>2. CASE x # c
    <3>1. ClientOK(srv[x], wire[x], cli[x], successRC)
      BY DEF Inv
    <3>2. ClientOK(srv[x], wire[x], cli[x], successRC')
      BY <3>1, AnyStatus
    <3> QED BY <1>2, <2>2, <3>2
  <2> QED BY <2>1, <2>2
<1>4. srv' = [x \in Clients |-> srv'[x]] /\ wire' = [x \in Clients |-> wire'[x]]
      /\ cli' = [x \in Clients |-> cli'[x]]
  BY <1>2
<1> QED BY <1>3, <1>4 DEF Inv

\* A step of a handler.
LEMMA OneHandler ==
    ASSUME Inv, NEW c \in Clients, NEW r, NEW w,
           srv' = [srv EXCEPT ![c] = r], wire' = [wire EXCEPT ![c] = w],
           UNCHANGED cli, TablesOK', successRC' \in {successRC, 201},
           ClientOK(r, w, cli[c], successRC')
    PROVE  Inv'
<1> DEFINE k == cli[c]
<1>1. cli = [x \in Clients |-> cli[x]]
  BY DEF Inv
<1>2. cli' = [cli EXCEPT ![c] = k]
  BY <1>1
<1>3. ClientOK(r, w, k, successRC')
  OBVIOUS
<1> HIDE DEF k
<1> QED BY <1>2, <1>3, OneClient, Zenon

\* A step of a handler that writes nothing.
LEMMA OneSilent ==
    ASSUME Inv, NEW c \in Clients, NEW r, srv' = [srv EXCEPT ![c] = r],
           UNCHANGED <<wire, cli>>, TablesOK', successRC' \in {successRC, 201},
           ClientOK(r, wire[c], cli[c], successRC')
    PROVE  Inv'
<1> DEFINE w == wire[c]
<1>1. wire = [x \in Clients |-> wire[x]]
  BY DEF Inv
<1>2. wire' = [wire EXCEPT ![c] = w] /\ UNCHANGED cli
  BY <1>1
<1>3. ClientOK(r, w, cli[c], successRC')
  OBVIOUS
<1> HIDE DEF w
<1> QED BY <1>2, <1>3, OneHandler, Zenon

LEMMA WireOf ==
    ASSUME Inv, NEW c \in Clients, NEW tokens, Written(c, tokens)
    PROVE  wire' = [wire EXCEPT ![c] = Wire(wire[c], cli[c], tokens)]
<1>1. wire = [x \in Clients |-> wire[x]]
  BY DEF Inv
<1>2. CASE Listening(c)
  BY <1>1, <1>2 DEF Written, Wire, Listening
<1>3. CASE ~Listening(c)
  BY <1>1, <1>3 DEF Written, Wire, Listening
<1> QED BY <1>2, <1>3

LEMMA Client ==
    ASSUME Inv, NEW c \in Clients
    PROVE  /\ ClientOK(srv[c], wire[c], cli[c], successRC) /\ TablesOK /\ successRC \in {200, 201}
           /\ srv[c] \in Request /\ HandlerOK(srv[c], successRC)
<1>1. ClientOK(srv[c], wire[c], cli[c], successRC) /\ TablesOK
  BY DEF Inv
<1> QED BY <1>1, Parts DEF TablesOK

-----------------------------------------------------------------------------
(* The actions of the handlers *)

LEMMA InvFail ==
    ASSUME Inv, NEW c \in Clients, NEW kind \in {"auth", "request", "query", "read"},
           Fail(c, kind), srv[c].pc \notin {"none", "answer"},
           UNCHANGED <<wire, cli, successRC>>, TablesOK'
    PROVE  Inv'
<1> DEFINE r == Returns(srv[c], ErrorStatus[kind], "error")
<1>1. srv' = [srv EXCEPT ![c] = r]
  BY DEF Fail, Update, Returns
<1>2. ErrorStatus[kind] \in {400, 401, 500}
  BY DEF ErrorStatus
<1>3. ClientOK(r, wire[c], cli[c], successRC)
  BY <1>2, Client, Fails
<1> HIDE DEF r
<1> QED BY <1>1, <1>3, OneSilent

LEMMA InvRefuse == ASSUME Inv, NEW c \in Clients, Refuse(c) PROVE Inv'
<1>1. TablesOK' /\ UNCHANGED <<wire, cli, successRC>> /\ srv[c].pc = "authenticate"
  BY Client DEF Refuse, TablesOK, Connected, At
<1>2. PICK kind \in {"auth", "request"} : Fail(c, kind)
  BY DEF Refuse
<1> QED BY <1>1, <1>2, InvFail

LEMMA InvAdmit == ASSUME Inv, NEW c \in Clients, Admit(c) PROVE Inv'
<1> DEFINE pc == Route[srv[c].op]
           r == Placed(srv[c], pc)
<1>1. srv[c].pc = "authenticate" /\ UNCHANGED <<wire, cli>> /\ successRC' = Posted(c)
  BY DEF Admit, Connected, At
<1>2. srv[c].op \in Ops
  BY <1>1, Client, PositionsOf
<1>3. srv' = [srv EXCEPT ![c] = r]
  BY DEF Admit, Goto, Update, Placed
<1>4. pc \in Positions(srv[c].op) /\ pc \in {"query", "collect", "read", "insert", "remove"}
  BY <1>2 DEF Route, Positions, Ops
<1>5. successRC' \in {successRC, 201} /\ (srv[c].op = "add" => successRC' = 201)
  BY <1>1 DEF Posted
<1> HIDE DEF pc
<1>6. ClientOK(r, wire[c], cli[c], successRC')
  BY <1>1, <1>4, <1>5, Client, GoesOn
<1>7. TablesOK'
  BY <1>5, Client DEF TablesOK, Admit
<1> HIDE DEF r
<1> QED BY <1>1, <1>3, <1>5, <1>6, <1>7, OneSilent

LEMMA InvAnswer == ASSUME Inv, NEW c \in Clients, Answer(c) PROVE Inv'
<1> DEFINE r == Answered(srv[c])
           tokens == Rest(srv[c]) \o <<Complete>>
<1>1. /\ srv[c].pc = "answer" /\ UNCHANGED <<table, conn, successRC, cli, calls, crashes>>
      /\ srv' = [srv EXCEPT ![c] = r] /\ Written(c, tokens)
  BY DEF Answer, At, Update, Answered, Rest
<1>2. ClientOK(r, Wire(wire[c], cli[c], tokens), cli[c], successRC)
  BY <1>1, Client, Answers
<1> HIDE DEF r, tokens
<1>3. wire' = [wire EXCEPT ![c] = Wire(wire[c], cli[c], tokens)]
  BY <1>1, WireOf
<1>4. TablesOK'
  BY <1>1, Client DEF TablesOK
<1> QED BY <1>1, <1>2, <1>3, <1>4, OneHandler

LEMMA InvSucceed ==
    ASSUME Inv, NEW c \in Clients, Succeed(c), srv[c].pc \in {"read", "remove", "collect"},
           UNCHANGED <<wire, cli, successRC>>, TablesOK'
    PROVE  Inv'
<1> DEFINE r == Returns(srv[c], IF srv[c].op \in {"list", "add"} THEN successRC ELSE 200, "ok")
<1>1. srv' = [srv EXCEPT ![c] = r]
  BY DEF Succeed, Update, Returns
<1>2. ClientOK(r, wire[c], cli[c], successRC)
  BY Client, Succeeds
<1> HIDE DEF r
<1> QED BY <1>1, <1>2, OneSilent

LEMMA InvReadIdentity == ASSUME Inv, NEW c \in Clients, ReadIdentity(c) PROVE Inv'
<1>1. TablesOK' /\ UNCHANGED <<wire, cli, successRC>> /\ srv[c].pc = "read"
  BY Client DEF ReadIdentity, TablesOK, Connected, At
<1>2. Succeed(c) \/ Fail(c, "request") \/ Fail(c, "read")
  BY DEF ReadIdentity
<1> QED BY <1>1, <1>2, InvSucceed, InvFail

LEMMA InvInsertIdentity == ASSUME Inv, NEW c \in Clients, InsertIdentity(c) PROVE Inv'
<1>1. UNCHANGED <<conn, calls, crashes>> /\ srv[c].pc = "insert"
  BY DEF InsertIdentity, Connected, At
<1>0. UNCHANGED <<wire, cli, successRC>> /\ UNCHANGED <<wire, cli>> /\ successRC' = successRC
  BY DEF InsertIdentity
<1>2. CASE srv[c].id \in Range(table)
  <2>1. Fail(c, "request") /\ UNCHANGED table
    BY <1>2 DEF InsertIdentity
  <2>2. TablesOK'
    BY <1>0, <1>1, <2>1, Client DEF TablesOK
  <2> QED BY <1>0, <1>1, <2>1, <2>2, InvFail
<1>3. CASE srv[c].id \notin Range(table)
  <2> DEFINE r == Placed(srv[c], "read")
  <2>1. srv' = [srv EXCEPT ![c] = r] /\ table' = Append(table, srv[c].id)
    BY <1>3 DEF InsertIdentity, Goto, Update, Placed
  <2>2. srv[c].op = "add" /\ srv[c].id \in Elements /\ successRC = 201
    <3>1. srv[c].op = "add"
      BY <1>1, Client, PositionsOf
    <3> QED BY <1>1, <3>1, Client DEF HandlerOK
  <2>3. ClientOK(r, wire[c], cli[c], successRC)
    BY <1>1, <2>2, Client, GoesOn DEF Positions
  <2>4. TablesOK'
    BY <1>0, <1>1, <2>1, <2>2, Client, AppendProperties DEF TablesOK
  <2>5. ClientOK(r, wire[c], cli[c], successRC')
    BY <1>0, <2>3
  <2> HIDE DEF r
  <2> QED BY <1>0, <2>1, <2>4, <2>5, OneSilent
<1> QED BY <1>2, <1>3

\* The rows that are left when the rows of an identity are deleted, up to row n.
Keeps(rows, id, n, f) ==
    f = [m \in 0 .. n |-> IF m = 0 THEN <<>>
                          ELSE IF rows[m] = id THEN f[m - 1] ELSE Append(f[m - 1], rows[m])]

LEMMA KeepsOn ==
    ASSUME NEW rows, NEW id, NEW n \in Nat \ {0}, NEW f, Keeps(rows, id, n - 1, f)
    PROVE  \E g : Keeps(rows, id, n, g)
<1> DEFINE g == [m \in 0 .. n |-> IF m < n THEN f[m]
                                  ELSE IF rows[n] = id THEN f[n - 1] ELSE Append(f[n - 1], rows[n])]
<1>1. \A m \in 0 .. n - 1 : f[m] = IF m = 0 THEN <<>>
                                   ELSE IF rows[m] = id THEN f[m - 1] ELSE Append(f[m - 1], rows[m])
  BY Zenon DEF Keeps
<1>2. ASSUME NEW m \in 0 .. n
      PROVE  g[m] = IF m = 0 THEN <<>>
                    ELSE IF rows[m] = id THEN g[m - 1] ELSE Append(g[m - 1], rows[m])
  <2>1. CASE m = 0
    <3>1. f[0] = <<>>
      BY <1>1
    <3> QED BY <2>1, <3>1
  <2>2. CASE m \in 1 .. n - 1
    <3>1. m \in 0 .. n - 1 /\ m # 0 /\ g[m] = f[m] /\ g[m - 1] = f[m - 1]
      BY <2>2
    <3> HIDE DEF g
    <3> QED BY <1>1, <3>1
  <2>3. CASE m = n
    <3>1. m # 0 /\ g[m - 1] = f[n - 1]
      BY <2>3
    <3>2. g[m] = IF rows[n] = id THEN f[n - 1] ELSE Append(f[n - 1], rows[n])
      BY <2>3
    <3> HIDE DEF g
    <3> QED BY <2>3, <3>1, <3>2
  <2> QED BY <2>1, <2>2, <2>3
<1>3. Keeps(rows, id, n, g)
  <2> DEFINE h == [m \in 0 .. n |-> IF m = 0 THEN <<>>
                   ELSE IF rows[m] = id THEN g[m - 1] ELSE Append(g[m - 1], rows[m])]
  <2>1. \A m \in 0 .. n : g[m] = h[m]
    <3> HIDE DEF g
    <3> QED BY <1>2, Zenon
  <2>2. g = [m \in 0 .. n |-> g[m]] /\ h = [m \in 0 .. n |-> h[m]]
    OBVIOUS
  <2> HIDE DEF g, h
  <2>3. g = h
    BY <2>1, <2>2
  <2> QED BY <2>3 DEF Keeps, h
<1> QED BY <1>3

\* DELETE leaves a table of identities.
LEMMA WithoutRows ==
    ASSUME NEW rows \in Seq(Elements), NEW id
    PROVE  Without(rows, id) \in Seq(Elements)
<1> DEFINE Missing == {n \in Nat : ~\E f : Keeps(rows, id, n, f)}
           kept == CHOOSE f : Keeps(rows, id, Len(rows), f)
           Wrong == {n \in 0 .. Len(rows) : kept[n] \notin Seq(Elements)}
<1>1. Len(rows) \in Nat /\ \A n \in 1 .. Len(rows) : rows[n] \in Elements
  BY LenProperties
<1>2. Missing = {}
  <2>1. SUFFICES ASSUME Missing # {} PROVE FALSE
    OBVIOUS
  <2>2. PICK n \in Missing : \A m \in Missing : n <= m
    <3>1. Missing \subseteq Nat
      OBVIOUS
    <3> HIDE DEF Missing
    <3> QED BY <2>1, <3>1, LeastNumber
  <2>3. CASE n = 0
    <3> DEFINE f == [m \in 0 .. 0 |-> <<>>]
    <3>1. Keeps(rows, id, 0, f)
      <4>1. \A m \in 0 .. 0 : m = 0
        OBVIOUS
      <4> QED BY <4>1 DEF Keeps
    <3> QED BY <2>3, <3>1
  <2>4. CASE n # 0
    <3>1. n \in Nat \ {0} /\ n - 1 \in Nat /\ n - 1 \notin Missing
      BY <2>2, <2>4
    <3>2. \E f : Keeps(rows, id, n - 1, f)
      BY <3>1
    <3> QED BY <3>1, <3>2, KeepsOn
  <2> QED BY <2>3, <2>4
<1>3. Keeps(rows, id, Len(rows), kept)
  BY <1>1, <1>2
<1>4. Without(rows, id) = kept[Len(rows)]
  BY DEF Without, Keeps
<1> HIDE DEF kept
<1>5. \A m \in 0 .. Len(rows) :
         kept[m] = IF m = 0 THEN <<>>
                   ELSE IF rows[m] = id THEN kept[m - 1] ELSE Append(kept[m - 1], rows[m])
  BY <1>3, Zenon DEF Keeps
<1>6. Wrong = {}
  <2>1. SUFFICES ASSUME Wrong # {} PROVE FALSE
    OBVIOUS
  <2>2. PICK n \in Wrong : \A m \in Wrong : n <= m
    <3>1. Wrong \subseteq Nat
      BY <1>1
    <3> HIDE DEF Wrong
    <3> QED BY <2>1, <3>1, LeastNumber
  <2>3. n # 0
    <3>1. kept[0] = <<>>
      BY <1>1, <1>5
    <3>2. <<>> \in Seq(Elements)
      OBVIOUS
    <3> QED BY <3>1, <3>2
  <2>4. n \in 0 .. Len(rows) /\ n \in 1 .. Len(rows) /\ n - 1 \in 0 .. Len(rows) /\ n - 1 \notin Wrong
    BY <1>1, <2>2, <2>3
  <2>5. kept[n - 1] \in Seq(Elements) /\ rows[n] \in Elements
    BY <1>1, <2>4
  <2>6. kept[n] = kept[n - 1] \/ kept[n] = Append(kept[n - 1], rows[n])
    <3>1. kept[n] = IF n = 0 THEN <<>>
                    ELSE IF rows[n] = id THEN kept[n - 1] ELSE Append(kept[n - 1], rows[n])
      BY <1>5, <2>4, Zenon
    <3> QED BY <2>3, <3>1
  <2>7. kept[n] \in Seq(Elements)
    <3>1. Append(kept[n - 1], rows[n]) \in Seq(Elements)
      BY <2>5, AppendProperties, Zenon
    <3> QED BY <2>5, <2>6, <3>1, Zenon
  <2> QED BY <2>2, <2>7
<1> QED BY <1>1, <1>4, <1>6

LEMMA InvDeleteIdentity == ASSUME Inv, NEW c \in Clients, DeleteIdentity(c) PROVE Inv'
<1>1. UNCHANGED <<conn, calls, crashes>> /\ srv[c].pc = "remove"
  BY DEF DeleteIdentity, Connected, At
<1>2. UNCHANGED <<wire, cli, successRC>> /\ successRC' = successRC
  BY DEF DeleteIdentity
<1>3. CASE srv[c].id \in Range(table)
  <2>1. Succeed(c) /\ table' = Without(table, srv[c].id)
    BY <1>3 DEF DeleteIdentity
  <2>2. TablesOK'
    BY <1>1, <1>2, <2>1, Client, WithoutRows DEF TablesOK
  <2> QED BY <1>1, <1>2, <2>1, <2>2, InvSucceed
<1>4. CASE srv[c].id \notin Range(table)
  <2>1. Fail(c, "request") /\ UNCHANGED table
    BY <1>4 DEF DeleteIdentity
  <2>2. TablesOK'
    BY <1>1, <1>2, <2>1, Client DEF TablesOK
  <2> QED BY <1>1, <1>2, <2>1, <2>2, InvFail
<1> QED BY <1>3, <1>4

-----------------------------------------------------------------------------
(* The actions on a cursor *)

LEMMA InvOpenCursor == ASSUME Inv, NEW c \in Clients, OpenCursor(c) PROVE Inv'
<1>1. UNCHANGED <<table, calls, crashes>> /\ srv[c].pc = "query"
  BY DEF OpenCursor, Connected, At
<1>2. UNCHANGED <<wire, cli, successRC>> /\ UNCHANGED <<wire, cli>> /\ successRC' = successRC
  BY DEF OpenCursor
<1>3. conn' \in {c, conn}
  BY DEF OpenCursor
<1>4. TablesOK'
  BY <1>1, <1>2, <1>3, Client DEF TablesOK
<1>5. CASE Fail(c, "query")
  BY <1>1, <1>2, <1>4, <1>5, InvFail
<1>6. CASE ~Fail(c, "query")
  <2>1. srv[c].op \in {"list", "affiliations"}
    BY <1>1, Client, PositionsOf
  <2>2. CASE srv[c].op = "list"
    <3> DEFINE r == Queried(srv[c], table)
    <3>1. srv' = [srv EXCEPT ![c] = r]
      BY <1>6, <2>2 DEF OpenCursor, Update, Queried
    <3>2. table \in Seq(Elements)
      BY Client DEF TablesOK
    <3>3. ClientOK(r, wire[c], cli[c], successRC')
      BY <1>1, <1>2, <2>2, <3>2, Client, OpensList
    <3> HIDE DEF r
    <3> QED BY <1>2, <1>4, <3>1, <3>3, OneSilent
  <2>3. CASE srv[c].op = "affiliations"
    <3> DEFINE r == Placed(srv[c], "collect")
    <3>1. srv' = [srv EXCEPT ![c] = r]
      BY <1>6, <2>3 DEF OpenCursor, Update, Placed
    <3>2. "collect" \in Positions(srv[c].op)
      BY <2>3 DEF Positions
    <3>3. ClientOK(r, wire[c], cli[c], successRC')
      BY <1>1, <1>2, <2>3, <3>2, Client, GoesOn
    <3> HIDE DEF r
    <3> QED BY <1>2, <1>4, <3>1, <3>3, OneSilent
  <2> QED BY <2>1, <2>2, <2>3
<1> QED BY <1>5, <1>6

\* A handler that panics leaves the rest of its state alone.
LEMMA InvPanic ==
    ASSUME Inv, NEW c \in Clients, Panic(c), srv[c].pc # "none",
           UNCHANGED <<cli, successRC>>, TablesOK'
    PROVE  Inv'
<1> DEFINE r == Dropped(srv[c], "panic")
           w == Wire(wire[c], cli[c], <<Reset>>)
<1>1. srv' = [srv EXCEPT ![c] = r] /\ Written(c, <<Reset>>)
  BY DEF Panic, Update, Dropped
<1>2. wire' = [wire EXCEPT ![c] = w]
  BY <1>1, WireOf
<1>3. ClientOK(r, w, cli[c], successRC')
  BY Client, Drops
<1> HIDE DEF r, w
<1> QED BY <1>1, <1>2, <1>3, OneHandler

LEMMA InvReadChunk == ASSUME Inv, NEW c \in Clients, ReadChunk(c) PROVE Inv'
<1>1. UNCHANGED <<table, calls, crashes>> /\ srv[c].pc = "chunk"
  BY DEF ReadChunk, At
<1>2. UNCHANGED cli /\ successRC' = successRC
  BY DEF ReadChunk
<1>3. TablesOK'
  <2>1. conn' \in {Lost, conn}
    BY DEF ReadChunk
  <2> QED BY <1>1, <1>2, <2>1, Client DEF TablesOK
<1>4. CASE chunk = "text"
  <2>1. Fail(c, "query") /\ UNCHANGED <<wire, cli, successRC>>
    BY <1>2, <1>4 DEF ReadChunk
  <2> QED BY <1>1, <1>3, <2>1, InvFail
<1>5. CASE chunk # "text"
  <2> DEFINE r == Begins(srv[c], successRC)
             tokens == ListHead(srv[c])
             w == Wire(wire[c], cli[c], tokens)
  <2>1. srv' = [srv EXCEPT ![c] = r] /\ Written(c, tokens)
    BY <1>5 DEF ReadChunk, Update, Begins, ListHead
  <2>2. wire' = [wire EXCEPT ![c] = w]
    <3> HIDE DEF tokens
    <3> QED BY <2>1, WireOf
  <2>3. ClientOK(r, w, cli[c], successRC')
    <3>1. ClientOK(srv[c], wire[c], cli[c], successRC) /\ successRC \in {200, 201}
      BY Client
    <3>2. r = Begins(srv[c], successRC)
      OBVIOUS
    <3>3. srv[c].pc = "chunk"
      BY <1>1
    <3> HIDE DEF r
    <3>4. ClientOK(r, w, cli[c], successRC)
      BY <3>1, <3>2, <3>3, StartsRows
    <3> HIDE DEF w
    <3> QED BY <1>2, <3>4
  <2> HIDE DEF r, w, tokens
  <2> QED BY <1>2, <1>3, <2>1, <2>2, <2>3, OneHandler
<1> QED BY <1>4, <1>5

LEMMA InvWriteRow == ASSUME Inv, NEW c \in Clients, WriteRow(c) PROVE Inv'
<1>1. UNCHANGED <<table, calls, crashes>> /\ srv[c].pc = "rows" /\ srv[c].rows # <<>>
  BY DEF WriteRow, At
<1>2. UNCHANGED <<cli, successRC>> /\ UNCHANGED cli /\ successRC' = successRC
  BY DEF WriteRow
<1>3. TablesOK'
  <2>1. conn' \in {Lost, conn}
    BY DEF WriteRow
  <2> QED BY <1>1, <1>2, <2>1, Client DEF TablesOK
<1>4. CASE chunk = "zero"
  <2>1. Panic(c)
    BY <1>4 DEF WriteRow
  <2> QED BY <1>1, <1>2, <1>3, <2>1, InvPanic
<1>5. CASE chunk # "zero"
  <2> DEFINE r == WithRows(srv[c], Tail(srv[c].rows))
             tokens == <<Head(srv[c].rows)>>
             w == Wire(wire[c], cli[c], tokens)
  <2>1. srv' = [srv EXCEPT ![c] = r] /\ Written(c, tokens)
    BY <1>5 DEF WriteRow, Update, WithRows
  <2>2. wire' = [wire EXCEPT ![c] = w]
    <3> HIDE DEF tokens
    <3> QED BY <2>1, WireOf
  <2>3. ClientOK(r, w, cli[c], successRC')
    BY <1>1, <1>2, Client, WritesRow
  <2> HIDE DEF r, w, tokens
  <2> QED BY <1>2, <1>3, <2>1, <2>2, <2>3, OneHandler
<1> QED BY <1>4, <1>5

LEMMA InvScanFails == ASSUME Inv, NEW c \in Clients, ScanFails(c) PROVE Inv'
<1>1. /\ UNCHANGED <<table, calls, crashes>> /\ srv[c].pc \in {"rows", "collect"}
      /\ conn' = Lost /\ Fail(c, "read") /\ UNCHANGED <<wire, cli, successRC>>
  BY DEF ScanFails, At
<1>2. TablesOK'
  BY <1>1, Client DEF TablesOK
<1> QED BY <1>1, <1>2, InvFail

LEMMA InvEndRows == ASSUME Inv, NEW c \in Clients, EndRows(c) PROVE Inv'
<1> DEFINE r == Exhausted(srv[c])
<1>1. /\ UNCHANGED <<table, calls, crashes>> /\ srv[c].pc = "rows" /\ conn' = Free
      /\ UNCHANGED <<wire, cli>> /\ successRC' = successRC
  BY DEF EndRows, At, AfterRows
<1>2. srv' = [srv EXCEPT ![c] = r]
  BY DEF EndRows, Update, Exhausted
<1>3. TablesOK'
  BY <1>1, Client DEF TablesOK
<1>4. ClientOK(r, wire[c], cli[c], successRC')
  BY <1>1, Client, RowsEnd
<1> HIDE DEF r
<1> QED BY <1>1, <1>2, <1>3, <1>4, OneSilent

LEMMA InvCloseListing == ASSUME Inv, NEW c \in Clients, CloseListing(c) PROVE Inv'
<1> DEFINE r == Returns(srv[c], successRC, "ok")
           tokens == ListTail
           w == Wire(wire[c], cli[c], tokens)
<1>1. /\ UNCHANGED <<table, conn, calls, crashes>> /\ srv[c].pc = "close"
      /\ UNCHANGED cli /\ successRC' = successRC /\ Written(c, tokens)
  BY DEF CloseListing, At, ListTail
<1>2. srv[c].op = "list"
  BY <1>1, Client, PositionsOf
<1>3. srv' = [srv EXCEPT ![c] = r]
  BY <1>2 DEF CloseListing, Succeed, Update, Returns
<1>4. TablesOK'
  BY <1>1, Client DEF TablesOK
<1>5. wire' = [wire EXCEPT ![c] = w]
  <2> HIDE DEF tokens
  <2> QED BY <1>1, WireOf
<1>6. ClientOK(r, w, cli[c], successRC')
  <2>1. ClientOK(srv[c], wire[c], cli[c], successRC) /\ successRC \in {200, 201}
    BY Client
  <2>2. r = Returns(srv[c], successRC, "ok")
    OBVIOUS
  <2>3. srv[c].pc = "close"
    BY <1>1
  <2> HIDE DEF r
  <2>4. ClientOK(r, w, cli[c], successRC)
    BY <2>1, <2>2, <2>3, Closes
  <2> HIDE DEF w
  <2> QED BY <1>1, <2>4
<1> HIDE DEF r, w, tokens
<1> QED BY <1>1, <1>3, <1>4, <1>5, <1>6, OneHandler

LEMMA InvCollectAffiliations == ASSUME Inv, NEW c \in Clients, CollectAffiliations(c) PROVE Inv'
<1>1. /\ UNCHANGED <<table, calls, crashes>> /\ srv[c].pc = "collect" /\ conn' = Free
      /\ UNCHANGED <<cli, successRC>>
  BY DEF CollectAffiliations, At, AfterRows
<1>2. TablesOK'
  BY <1>1, Client DEF TablesOK
<1>3. Panic(c) \/ (Succeed(c) /\ UNCHANGED wire)
  BY DEF CollectAffiliations
<1>4. CASE Panic(c)
  BY <1>1, <1>2, <1>4, InvPanic
<1>5. CASE Succeed(c) /\ UNCHANGED wire
  <2>1. UNCHANGED <<wire, cli, successRC>>
    BY <1>1, <1>5
  <2> QED BY <1>1, <1>2, <1>5, <2>1, InvSucceed
<1> QED BY <1>3, <1>4, <1>5

-----------------------------------------------------------------------------
(* The actions of the clients, and the server's death *)

LEMMA InvSend ==
    ASSUME Inv, NEW c \in Clients, NEW op \in Ops, NEW id \in Elements \cup {"none"},
           op = "add" => id \in Elements, Send(c, op, id)
    PROVE  Inv'
<1> DEFINE r == Requested(op, id)
           k == Called(op, id)
<1>1. /\ UNCHANGED <<table, conn>> /\ successRC' = successRC /\ UNCHANGED crashes
      /\ UNCHANGED wire /\ wire[c] = <<>> /\ calls < MaxCalls /\ calls' = calls + 1
  BY DEF Send
<1>2. srv' = [srv EXCEPT ![c] = r] /\ cli' = [cli EXCEPT ![c] = k]
  BY DEF Send, Update, Requested, Called
<1>3. wire' = [wire EXCEPT ![c] = <<>>]
  <2>1. wire = [x \in Clients |-> wire[x]]
    BY DEF Inv
  <2> QED BY <1>1, <2>1
<1>4. ClientOK(r, <<>>, k, successRC')
  BY Sends
<1>5. TablesOK'
  BY <1>1, Client, ExchangeAssumption DEF TablesOK
<1> HIDE DEF r, k
<1> QED BY <1>1, <1>2, <1>3, <1>4, <1>5, OneClient

LEMMA InvCall == ASSUME Inv, NEW c \in Clients, Call(c) PROVE Inv'
<1>1. Named \subseteq Elements
  BY ExchangeAssumption
<1>2. CASE GetAllIdentities(c)
  BY <1>2, InvSend DEF GetAllIdentities, Ops
<1>3. CASE GetAffiliations(c)
  BY <1>3, InvSend DEF GetAffiliations, Ops
<1>4. CASE GetIdentity(c)
  BY <1>1, <1>4, InvSend DEF GetIdentity, Ops
<1>5. CASE AddIdentity(c)
  BY <1>1, <1>5, InvSend DEF AddIdentity, Ops
<1>6. CASE RemoveIdentity(c)
  BY <1>1, <1>6, InvSend DEF RemoveIdentity, Ops
<1> QED BY <1>2, <1>3, <1>4, <1>5, <1>6 DEF Call

LEMMA InvReceive == ASSUME Inv, NEW c \in Clients, Receive(c) PROVE Inv'
<1>1. /\ cli[c].pc = "waiting" /\ wire[c] # <<>> /\ wire' = [wire EXCEPT ![c] = <<>>]
      /\ UNCHANGED <<table, conn, calls, crashes>> /\ successRC' = successRC /\ UNCHANGED srv
  BY DEF Receive, Listening
<1>2. TablesOK'
  BY <1>1, Client DEF TablesOK
<1> DEFINE r == srv[c]
<1>3. srv' = [srv EXCEPT ![c] = r]
  <2>1. srv = [x \in Clients |-> srv[x]]
    BY DEF Inv
  <2> QED BY <1>1, <2>1
<1>4. ASSUME NEW k, cli' = [cli EXCEPT ![c] = k], ClientOK(r, <<>>, k, successRC)
      PROVE  Inv'
  <2>1. ClientOK(r, <<>>, k, successRC')
    BY <1>1, <1>4
  <2> HIDE DEF r
  <2> QED BY <1>1, <1>2, <1>3, <1>4, <2>1, OneClient
<1>5. CASE cli[c].op = "list"
  <2> DEFINE walk == Streamed(cli[c].walk, Body(wire[c]))
             verdict == Verdict(walk, Last(wire[c]))
             k == IF verdict = "none" THEN [cli[c] EXCEPT !.walk = walk]
                  ELSE Told(cli[c], verdict, walk, srv[c].status)
  <2>1. ReadStream(c)
    BY <1>5 DEF Receive, Streaming
  <2>2. cli' = [cli EXCEPT ![c] = k]
    <3>1. IF verdict = "none" THEN cli' = [cli EXCEPT ![c].walk = walk] ELSE Result(c, verdict, walk)
      BY <2>1, Zenon DEF ReadStream
    <3> HIDE DEF walk, verdict
    <3>2. CASE verdict = "none"
      <4>1. cli' = [cli EXCEPT ![c] = [cli[c] EXCEPT !.walk = walk]]
        BY <3>1, <3>2
      <4> QED BY <3>2, <4>1
    <3>3. CASE verdict # "none"
      <4>1. cli' = [cli EXCEPT ![c] = Told(cli[c], verdict, walk, srv[c].status)]
        BY <3>1, <3>3 DEF Result, Told
      <4> QED BY <3>3, <4>1
    <3> QED BY <3>2, <3>3
  <2>3. ClientOK(r, <<>>, k, successRC)
    <3>1. ClientOK(srv[c], wire[c], cli[c], successRC)
      BY Client
    <3> QED BY <1>1, <1>5, <3>1, Streams, Zenon
  <2> HIDE DEF r, k
  <2> QED BY <1>4, <2>2, <2>3
<1>6. CASE cli[c].op # "list"
  <2> DEFINE result == IF Accepts(wire[c], srv[c].status) THEN "ok" ELSE "error"
             k == Told(cli[c], result, Start, srv[c].status)
  <2>1. ReadReply(c)
    BY <1>6 DEF Receive, Streaming
  <2>2. cli' = [cli EXCEPT ![c] = k]
    BY <2>1 DEF ReadReply, Result, Told
  <2>3. ClientOK(r, <<>>, k, successRC)
    <3>1. ClientOK(srv[c], wire[c], cli[c], successRC)
      BY Client
    <3> QED BY <1>1, <1>6, <3>1, Replies, Zenon
  <2> HIDE DEF r, k
  <2> QED BY <1>4, <2>2, <2>3
<1> QED BY <1>5, <1>6

LEMMA InvBreak == ASSUME Inv, NEW c \in Clients, Break(c) PROVE Inv'
<1> DEFINE r == srv[c]
           k == Left(cli[c])
<1>1. /\ wire' = [wire EXCEPT ![c] = <<>>] /\ UNCHANGED srv
      /\ UNCHANGED <<table, conn, calls, crashes>> /\ successRC' = successRC
  BY DEF Break
<1>2. cli' = [cli EXCEPT ![c] = k]
  BY DEF Break, Left
<1>3. TablesOK'
  BY <1>1, Client DEF TablesOK
<1>4. srv' = [srv EXCEPT ![c] = r]
  <2>1. srv = [x \in Clients |-> srv[x]]
    BY DEF Inv
  <2> QED BY <1>1, <2>1
<1>5. ClientOK(r, <<>>, k, successRC')
  BY <1>1, Client, Leaves
<1> HIDE DEF r, k
<1> QED BY <1>1, <1>2, <1>3, <1>4, <1>5, OneClient

LEMMA InvCrash == ASSUME Inv, Crash PROVE Inv'
<1>1. /\ UNCHANGED <<table, calls>> /\ UNCHANGED cli /\ conn' = Free /\ successRC' = 200
      /\ crashes < MaxCrashes /\ crashes' = crashes + 1
  BY DEF Crash
<1>2. TablesOK /\ cli = [x \in Clients |-> cli[x]]
  BY DEF Inv
<1>3. TablesOK'
  BY <1>1, <1>2, ExchangeAssumption DEF TablesOK
<1>4. /\ srv' = [c \in Clients |-> Died(srv[c])]
      /\ wire' = [c \in Clients |-> IF cli[c].pc = "waiting" /\ srv[c].pc # "none"
                                    THEN Append(wire[c], Reset) ELSE wire[c]]
  BY DEF Crash, Died, Listening
<1>5. ASSUME NEW c \in Clients
      PROVE  ClientOK(srv'[c], wire'[c], cli'[c], successRC')
  <2>1. srv'[c] = Died(srv[c]) /\ cli'[c] = cli[c]
        /\ wire'[c] = IF cli[c].pc = "waiting" /\ srv[c].pc # "none"
                      THEN Append(wire[c], Reset) ELSE wire[c]
    BY <1>1, <1>4
  <2>2. ClientOK(srv[c], wire[c], cli[c], successRC)
    BY DEF Inv
  <2> QED BY <2>1, <2>2, Dies
<1>6. srv' = [c \in Clients |-> srv'[c]] /\ wire' = [c \in Clients |-> wire'[c]]
      /\ cli' = [c \in Clients |-> cli'[c]]
  BY <1>1, <1>2, <1>4
<1> QED BY <1>3, <1>5, <1>6 DEF Inv

LEMMA InvInit == Init => Inv
<1> SUFFICES ASSUME Init PROVE Inv
  OBVIOUS
<1>1. TablesOK
  BY ExchangeAssumption DEF Init, TablesOK
<1>2. srv = [c \in Clients |-> NoRequest] /\ wire = [c \in Clients |-> <<>>]
      /\ cli = [c \in Clients |-> NoCall]
  BY DEF Init
<1>3. ASSUME NEW c \in Clients
      PROVE  ClientOK(srv[c], wire[c], cli[c], successRC)
  <2>1. srv[c] = NoRequest /\ wire[c] = <<>> /\ cli[c] = NoCall
    BY <1>2
  <2> QED BY <2>1, Begun
<1>4. srv = [c \in Clients |-> srv[c]] /\ wire = [c \in Clients |-> wire[c]]
      /\ cli = [c \in Clients |-> cli[c]]
  BY <1>2
<1> QED BY <1>1, <1>3, <1>4 DEF Inv

LEMMA InvHandle == ASSUME Inv, NEW c \in Clients, Handle(c) PROVE Inv'
BY InvRefuse, InvAdmit, InvAnswer, InvReadIdentity, InvInsertIdentity, InvDeleteIdentity,
   InvOpenCursor, InvReadChunk, InvWriteRow, InvScanFails, InvEndRows, InvCloseListing,
   InvCollectAffiliations DEF Handle

LEMMA InvStutters == ASSUME Inv, UNCHANGED vars PROVE Inv'
BY DEF Inv, TablesOK, vars

LEMMA InvNext == Inv /\ [Next]_vars => Inv'
BY InvCrash, InvCall, InvHandle, InvReceive, InvBreak, InvStutters DEF Next

LEMMA InvAlways == Spec => []Inv
<1>1. Init => Inv
  BY InvInit
<1>2. Inv /\ [Next]_vars => Inv'
  BY InvNext
<1> QED BY <1>1, <1>2, PTL DEF Spec

-----------------------------------------------------------------------------
(* Sequences of tokens that are joined *)

\* The pieces of seqs up to k, joined.
JoinedTo(seqs, k, f) ==
    f = [i \in 1 .. k |-> IF i = 1 THEN seqs[i] ELSE f[i - 1] \o seqs[i]]

LEMMA JoinsExist ==
    ASSUME NEW seqs, Len(seqs) \in Nat
    PROVE  \A k \in 1 .. Len(seqs) : \E f : JoinedTo(seqs, k, f)
<1> DEFINE Bad == {k \in 1 .. Len(seqs) : ~ \E f : JoinedTo(seqs, k, f)}
<1>1. SUFFICES ASSUME Bad # {} PROVE FALSE
  OBVIOUS
<1>2. PICK k \in Bad : \A m \in Bad : k <= m
  BY <1>1, LeastNumber, Bad \subseteq Nat
<1>3. CASE k = 1
  <2> DEFINE f == [i \in 1 .. 1 |-> seqs[i]]
  <2>1. JoinedTo(seqs, 1, f)
    BY DEF JoinedTo
  <2> QED BY <1>2, <1>3, <2>1
<1>4. CASE k # 1
  <2>1. k - 1 \in 1 .. Len(seqs) /\ k - 1 \notin Bad
    BY <1>2, <1>4
  <2>2. PICK f : JoinedTo(seqs, k - 1, f)
    BY <2>1
  <2> DEFINE g == [i \in 1 .. k |-> IF i < k THEN f[i] ELSE f[k - 1] \o seqs[k]]
  <2>3. \A i \in 1 .. k - 1 : f[i] = IF i = 1 THEN seqs[i] ELSE f[i - 1] \o seqs[i]
    BY <2>1, <2>2 DEF JoinedTo
  <2>4. ASSUME NEW i \in 1 .. k
        PROVE  g[i] = IF i = 1 THEN seqs[i] ELSE g[i - 1] \o seqs[i]
    <3>1. CASE i < k
      BY <3>1, <2>1, <2>3
    <3>2. CASE i = k
      <4>0. k \in 1 .. k /\ k - 1 \in 1 .. k /\ k - 1 < k /\ ~(k < k)
        BY <2>1
      <4>1. g[k] = f[k - 1] \o seqs[k] /\ g[k - 1] = f[k - 1]
        BY <4>0
      <4> QED BY <3>2, <4>1, <1>4
    <3> QED BY <2>1, <3>1, <3>2
  <2>5. JoinedTo(seqs, k, g)
    BY <2>4 DEF JoinedTo
  <2> QED BY <1>2, <2>5
<1> QED BY <1>3, <1>4

LEMMA Flattened ==
    ASSUME NEW S, NEW seqs \in Seq(Seq(S)), seqs # <<>>
    PROVE  \E f : FlattenSeq(seqs) = f[Len(seqs)] /\ f[1] = seqs[1]
                    /\ \A i \in 2 .. Len(seqs) : f[i] = f[i - 1] \o seqs[i]
<1> DEFINE f == CHOOSE g : JoinedTo(seqs, Len(seqs), g)
<1>1. Len(seqs) \in Nat /\ Len(seqs) # 0
  BY EmptySeq
<1>2. JoinedTo(seqs, Len(seqs), f)
  BY <1>1, JoinsExist
<1>3. FlattenSeq(seqs) = f[Len(seqs)]
  BY <1>1 DEF FlattenSeq, JoinedTo
<1>4. \A i \in 1 .. Len(seqs) : f[i] = IF i = 1 THEN seqs[i] ELSE f[i - 1] \o seqs[i]
  <2> HIDE DEF f
  <2> QED BY <1>2 DEF JoinedTo
<1>5. f[1] = seqs[1] /\ \A i \in 2 .. Len(seqs) : f[i] = f[i - 1] \o seqs[i]
  <2> HIDE DEF f
  <2>1. 1 \in 1 .. Len(seqs)
    BY <1>1
  <2>2. \A i \in 2 .. Len(seqs) : i \in 1 .. Len(seqs) /\ i # 1
    BY <1>1
  <2>3. f[1] = seqs[1]
    BY <1>4, <2>1
  <2>4. \A i \in 2 .. Len(seqs) : f[i] = f[i - 1] \o seqs[i]
    BY <1>4, <2>2
  <2> QED BY <2>3, <2>4
<1> QED BY <1>3, <1>5

\* A walk over the pieces, one after the other.
LEMMA FlattenLeads ==
    ASSUME NEW S, NEW seqs \in Seq(Seq(S)), NEW at,
           \A i \in 1 .. Len(seqs) : Leads(at[i - 1], seqs[i], at[i])
    PROVE  FlattenSeq(seqs) \in Seq(S) /\ Leads(at[0], FlattenSeq(seqs), at[Len(seqs)])
<1>1. CASE seqs = <<>>
  <2>1. FlattenSeq(seqs) = <<>> /\ Len(seqs) = 0
    BY <1>1 DEF FlattenSeq
  <2> QED BY <2>1, LeadsNothing
<1>2. CASE seqs # <<>>
  <2>1. PICK f : FlattenSeq(seqs) = f[Len(seqs)] /\ f[1] = seqs[1]
                   /\ \A i \in 2 .. Len(seqs) : f[i] = f[i - 1] \o seqs[i]
    BY <1>2, Flattened
  <2>2. Len(seqs) \in Nat /\ Len(seqs) # 0 /\ \A i \in 1 .. Len(seqs) : seqs[i] \in Seq(S)
    BY <1>2, EmptySeq
  <2> DEFINE Bad == {i \in 1 .. Len(seqs) : ~(f[i] \in Seq(S) /\ Leads(at[0], f[i], at[i]))}
  <2>3. ASSUME Bad # {} PROVE FALSE
    <3>1. PICK k \in Bad : \A m \in Bad : k <= m
      BY <2>3, LeastNumber, Bad \subseteq Nat
    <3>2. CASE k = 1
      BY <3>1, <3>2, <2>1, <2>2
    <3>3. CASE k # 1
      <4>1. k - 1 \in 1 .. Len(seqs) /\ k - 1 \notin Bad
            /\ k \in 2 .. Len(seqs) /\ k \in 1 .. Len(seqs)
        BY <3>1, <3>3, <2>2
      <4>2. f[k - 1] \in Seq(S) /\ Leads(at[0], f[k - 1], at[k - 1])
        BY <4>1
      <4>3. seqs[k] \in Seq(S) /\ Leads(at[k - 1], seqs[k], at[k])
        BY <4>1, <2>2
      <4>4. f[k] = f[k - 1] \o seqs[k]
        BY <4>1, <2>1
      <4>5. f[k] \in Seq(S)
        BY <4>2, <4>3, <4>4, ConcatProperties
      <4>6. Leads(at[0], f[k], at[k])
        BY <4>2, <4>3, <4>4, LeadsFurther
      <4> QED BY <3>1, <4>5, <4>6
    <3> QED BY <3>2, <3>3
  <2>4. Len(seqs) \in 1 .. Len(seqs) /\ Len(seqs) \notin Bad
    BY <2>2, <2>3
  <2> QED BY <2>1, <2>4
<1> QED BY <1>1, <1>2

-----------------------------------------------------------------------------
(* Values that are skipped *)

Closers == {"}", "]"}
Words == Tokens \cup {"other"}

Stacks == Seq(Closers) \ {<<>>}

\* Inside of a value that is skipped, with the delimiters that are waited for.
Skipping(path, stack, got) == [at |-> "skip", path |-> path, skip |-> stack, got |-> got]

\* The value v is skipped, however deep it is.
Skips(v) ==
    /\ v \in Seq(Words)
    /\ \A path, got : \A stack \in Stacks :
          Leads(Skipping(path, stack, got), v, Skipping(path, stack, got))

LEMMA StackFacts ==
    ASSUME NEW stack \in Stacks
    PROVE  Len(stack) \in Nat /\ Len(stack) > 0 /\ Last(stack) \in Closers
<1>1. Len(stack) \in Nat /\ Len(stack) # 0
  BY EmptySeq DEF Stacks
<1> QED BY <1>1 DEF Stacks, Last

LEMMA SkippingFields ==
    ASSUME NEW path, NEW got, NEW stack
    PROVE  Skipping(path, stack, got).at = "skip" /\ Skipping(path, stack, got).skip = stack
BY DEF Skipping

LEMMA SkipTo ==
    ASSUME NEW path, NEW got, NEW stack, NEW more
    PROVE  [Skipping(path, stack, got) EXCEPT !.skip = more] = Skipping(path, more, got)
BY DEF Skipping

LEMMA FeedSkipped == ASSUME NEW s, s.at = "skip", NEW token PROVE Feed(s, token) = AtSkipped(s, token)
BY DEF Feed

LEMMA ClosersClose ==
    /\ \A c \in Closers : c \in Delimiters /\ c # "{" /\ c # "["
    /\ "{" \in Delimiters /\ "[" \in Delimiters
    /\ \A open \in {"{", "["} : Closer(open) \in Closers
BY Zenon DEF Closers, Delimiters, Closer

LEMMA SkipScalar ==
    ASSUME NEW path, NEW got, NEW stack \in Stacks, NEW token, token \notin Delimiters
    PROVE  Feed(Skipping(path, stack, got), token) = Skipping(path, stack, got)
<1> DEFINE s == Skipping(path, stack, got)
<1>1. s.at = "skip" /\ s.skip = stack
  BY SkippingFields
<1> HIDE DEF s
<1>2. token # Last(s.skip) /\ token \notin {"{", "["}
  BY <1>1, StackFacts, ClosersClose, Zenon
<1>3. AtSkipped(s, token) = s
  BY <1>2, Zenon DEF AtSkipped
<1> QED BY <1>1, <1>3, FeedSkipped, Zenon DEF s

LEMMA SkipOpens ==
    ASSUME NEW path, NEW got, NEW stack \in Stacks, NEW open \in {"{", "["}
    PROVE  Feed(Skipping(path, stack, got), open) = Skipping(path, Append(stack, Closer(open)), got)
<1> DEFINE s == Skipping(path, stack, got)
           more == Append(stack, Closer(open))
<1>1. s.at = "skip" /\ s.skip = stack /\ [s EXCEPT !.skip = more] = Skipping(path, more, got)
  <2> HIDE DEF more
  <2>1. [s EXCEPT !.skip = more] = Skipping(path, more, got)
    BY SkipTo, Zenon
  <2>2. s.at = "skip" /\ s.skip = stack
    BY Zenon DEF Skipping
  <2> HIDE DEF s
  <2> QED BY <2>1, <2>2
<1> HIDE DEF s
<1>2. open # Last(s.skip) /\ open \in Delimiters
  BY <1>1, StackFacts, ClosersClose, Zenon
<1>3. AtSkipped(s, open) = [s EXCEPT !.skip = Append(@, Closer(open))]
  BY <1>2, Zenon DEF AtSkipped
<1> QED BY <1>1, <1>3, FeedSkipped, Zenon DEF s, more

LEMMA FrontOfAppend ==
    ASSUME NEW S, NEW stack \in Seq(S), NEW c \in S
    PROVE  /\ Front(Append(stack, c)) = stack /\ Last(Append(stack, c)) = c
           /\ Len(Append(stack, c)) = Len(stack) + 1
<1>1. Append(stack, c) = stack \o <<c>> /\ Len(Append(stack, c)) = Len(stack) + 1
  BY AppendIsConcat, AppendProperties
<1>2. Front(stack \o <<c>>) = stack /\ Last(stack \o <<c>>) = c
  BY EndFacts
<1> QED BY <1>1, <1>2

LEMMA SkipCloses ==
    ASSUME NEW path, NEW got, NEW stack \in Stacks, NEW c \in Closers
    PROVE  Feed(Skipping(path, Append(stack, c), got), c) = Skipping(path, stack, got)
<1> DEFINE more == Append(stack, c)
           s == Skipping(path, more, got)
<1>1. stack \in Seq(Closers) /\ Len(stack) \in Nat /\ Len(stack) > 0
  BY StackFacts DEF Stacks
<1>2. Front(more) = stack /\ Last(more) = c /\ Len(more) = Len(stack) + 1
  BY <1>1, FrontOfAppend
<1> HIDE DEF more
<1>3. s.at = "skip" /\ s.skip = more /\ [s EXCEPT !.skip = stack] = Skipping(path, stack, got)
  BY SkippingFields, SkipTo
<1> HIDE DEF s
<1>4. Len(s.skip) > 1 /\ Len(s.skip) # 1
  <2>1. Len(more) > 1 /\ Len(more) # 1
    BY <1>1, <1>2
  <2> QED BY <1>3, <2>1, Zenon
<1>5. AtSkipped(s, c) = [s EXCEPT !.skip = Front(@)]
  BY <1>2, <1>3, <1>4, ClosersClose, Zenon DEF AtSkipped
<1> QED BY <1>2, <1>3, <1>5, FeedSkipped, Zenon DEF s, more

\* Values that are skipped, one after the other.
LEMMA SkipsAll ==
    ASSUME NEW seqs \in Seq(Seq(Words)), \A i \in 1 .. Len(seqs) : Skips(seqs[i])
    PROVE  Skips(FlattenSeq(seqs))
<1>1. ASSUME NEW path, NEW got, NEW stack \in Stacks
      PROVE  FlattenSeq(seqs) \in Seq(Words)
             /\ Leads(Skipping(path, stack, got), FlattenSeq(seqs), Skipping(path, stack, got))
  <2> DEFINE s == Skipping(path, stack, got)
             at == [i \in 0 .. Len(seqs) |-> s]
  <2>1. Len(seqs) \in Nat
    OBVIOUS
  <2>2. ASSUME NEW i \in 1 .. Len(seqs) PROVE Leads(at[i - 1], seqs[i], at[i])
    <3>1. at[i - 1] = s /\ at[i] = s
      BY <2>1
    <3>2. Leads(s, seqs[i], s)
      BY DEF Skips
    <3> QED BY <3>1, <3>2
  <2>3. at[0] = s /\ at[Len(seqs)] = s
    BY <2>1
  <2> HIDE DEF at, s
  <2>4. FlattenSeq(seqs) \in Seq(Words) /\ Leads(at[0], FlattenSeq(seqs), at[Len(seqs)])
    BY <2>2, FlattenLeads
  <2> QED BY <2>3, <2>4 DEF s
<1>2. <<"]">> \in Stacks
  BY EmptySeq DEF Stacks, Closers
<1> QED BY <1>1, <1>2 DEF Skips

LEMMA WordFacts ==
    /\ "{" \in Words /\ "}" \in Words /\ "[" \in Words /\ "]" \in Words
    /\ "other" \in Words /\ "result" \in Words /\ "identities" \in Words /\ "errors" \in Words
    /\ Elements \subseteq Words
    /\ \A a \in Words : <<a>> \in Seq(Words)
    /\ \A v, w \in Seq(Words) : v \o w \in Seq(Words)
    /\ "other" \notin Delimiters /\ "result" \notin Delimiters /\ "identities" \notin Delimiters
    /\ "errors" \notin Delimiters
<1>1. /\ "{" \in Words /\ "}" \in Words /\ "[" \in Words /\ "]" \in Words
      /\ "other" \in Words /\ "result" \in Words /\ "identities" \in Words /\ "errors" \in Words
  BY Literals DEF Words
<1>2. Elements \subseteq Words
  BY DEF Words, Tokens
<1>3. \A a \in Words : <<a>> \in Seq(Words)
  OBVIOUS
<1>4. \A v, w \in Seq(Words) : v \o w \in Seq(Words)
  BY ConcatProperties
<1>5. "other" \notin Delimiters /\ "result" \notin Delimiters /\ "identities" \notin Delimiters
      /\ "errors" \notin Delimiters
  BY DEF Delimiters
<1> QED BY <1>1, <1>2, <1>3, <1>4, <1>5

\* A value with its delimiters around it.
LEMMA SkipsAround ==
    ASSUME NEW v, Skips(v), NEW open \in {"{", "["}
    PROVE  Skips(<<open>> \o v \o <<Closer(open)>>)
<1>1. v \in Seq(Words) /\ <<open>> \in Seq(Words) /\ <<Closer(open)>> \in Seq(Words)
      /\ Closer(open) \in Closers
  BY WordFacts DEF Skips, Closer, Closers
<1>2. <<open>> \o v \in Seq(Words) /\ <<open>> \o v \o <<Closer(open)>> \in Seq(Words)
  BY <1>1, WordFacts
<1>3. ASSUME NEW path, NEW got, NEW stack \in Stacks
      PROVE  Leads(Skipping(path, stack, got), <<open>> \o v \o <<Closer(open)>>, Skipping(path, stack, got))
  <2> DEFINE s == Skipping(path, stack, got)
             t == Skipping(path, Append(stack, Closer(open)), got)
  <2>1. Append(stack, Closer(open)) \in Stacks
    <3> DEFINE c == Closer(open)
    <3>1. stack \in Seq(Closers) /\ c \in Closers
      BY <1>1 DEF Stacks
    <3> HIDE DEF c
    <3>2. Append(stack, c) \in Seq(Closers) /\ Append(stack, c) # <<>>
      BY <3>1, AppendProperties
    <3> QED BY <3>2 DEF Stacks, c
  <2>2. Leads(s, <<open>>, t)
    <3>1. Feed(s, open) = t
      BY SkipOpens, Zenon
    <3> QED BY <3>1, Leads1, Zenon
  <2>3. Leads(t, v, t)
    BY <2>1 DEF Skips
  <2>4. Leads(t, <<Closer(open)>>, s)
    <3>1. Feed(t, Closer(open)) = s
      BY <1>1, SkipCloses, Zenon
    <3> QED BY <3>1, Leads1, Zenon
  <2> HIDE DEF s, t
  <2>5. Leads(s, <<open>> \o v, t)
    BY <1>1, <2>2, <2>3, LeadsFurther
  <2>6. Leads(s, <<open>> \o v \o <<Closer(open)>>, s)
    BY <1>1, <1>2, <2>4, <2>5, LeadsFurther
  <2> QED BY <2>6 DEF s
<1> QED BY <1>2, <1>3 DEF Skips

LEMMA SkipsToken == ASSUME NEW token \in Words, token \notin Delimiters PROVE Skips(<<token>>)
BY SkipScalar, Leads1, WordFacts DEF Skips

LEMMA SkipsArr ==
    ASSUME NEW seqs \in Seq(Seq(Words)), \A i \in 1 .. Len(seqs) : Skips(seqs[i])
    PROVE  Skips(Arr(seqs)) /\ Skips(Obj(seqs))
<1>1. Skips(FlattenSeq(seqs))
  BY SkipsAll
<1>2. Closer("[") = "]" /\ Closer("{") = "}"
  BY DEF Closer
<1> QED BY <1>1, <1>2, SkipsAround DEF Arr, Obj

-----------------------------------------------------------------------------
(* Members that are passed over *)

\* The walk passes over v, the value of the member at the path.
PassesAt(path, v) ==
    v \in Seq(Words) /\ \A got : Leads(W("value", path, got), v, After(path, got))

LEMMA PassToken ==
    ASSUME NEW path, NEW token \in Words, token \notin Delimiters
    PROVE  PassesAt(path, <<token>>)
<1>1. ASSUME NEW got PROVE Leads(W("value", path, got), <<token>>, After(path, got))
  BY FeedScalar, Leads1, Zenon
<1>2. <<token>> \in Seq(Words)
  BY WordFacts, Zenon
<1> QED BY <1>1, <1>2 DEF PassesAt

LEMMA ToSkipping ==
    ASSUME NEW path, NEW got, NEW stack
    PROVE  [W("value", path, got) EXCEPT !.at = "skip", !.skip = stack] = Skipping(path, stack, got)
<1> DEFINE w == [at |-> "value", path |-> path, skip |-> <<>>, got |-> got]
           s == [w EXCEPT !.at = "skip"]
<1>1. s = [at |-> "skip", path |-> path, skip |-> <<>>, got |-> got]
  OBVIOUS
<1> HIDE DEF s
<1>2. [s EXCEPT !.skip = stack] = [at |-> "skip", path |-> path, skip |-> stack, got |-> got]
  BY <1>1
<1>3. [w EXCEPT !.at = "skip", !.skip = stack] = [s EXCEPT !.skip = stack]
  BY DEF s
<1> QED BY <1>2, <1>3 DEF W, Skipping

LEMMA SkippedOver ==
    ASSUME NEW path, NEW got, NEW stack, path # <<>>
    PROVE  AfterValue(Skipping(path, stack, got)) = After(path, got)
<1>1. AfterValue(Skipping(path, stack, got)) = W("name", Front(path), got)
  BY DEF AfterValue, W, Skipping
<1> QED BY <1>1 DEF After

LEMMA WFields == ASSUME NEW at, NEW path, NEW got
                 PROVE  W(at, path, got).at = at /\ W(at, path, got).path = path
BY DEF W

LEMMA Brackets ==
    /\ "[" # "{" /\ "[" # "]" /\ "]" # "{" /\ "[" \in Delimiters /\ "]" \in Delimiters
    /\ Len(<<"]">>) = 1 /\ Last(<<"]">>) = "]"
<1>1. "[" # "{" /\ "[" # "]" /\ "]" # "{" /\ "[" \in Delimiters /\ "]" \in Delimiters
  BY Zenon DEF Delimiters
<1>2. Len(<<"]">>) = 1 /\ Last(<<"]">>) = "]"
  BY DEF Last
<1> QED BY <1>1, <1>2

LEMMA SkipBegins ==
    ASSUME NEW path, path \notin Searched, NEW got
    PROVE  Feed(W("value", path, got), "[") = Skipping(path, <<"]">>, got)
<1> DEFINE s == W("value", path, got)
<1>1. s.at = "value" /\ s.path = path
  BY WFields
<1>2. [s EXCEPT !.at = "skip", !.skip = <<"]">>] = Skipping(path, <<"]">>, got)
  BY ToSkipping, Zenon
<1> HIDE DEF s
<1>3. Feed(s, "[") = AtValue(s, "[")
  BY <1>1, Zenon DEF Feed
<1>4. AtValue(s, "[") = [s EXCEPT !.at = "skip", !.skip = <<"]">>]
  BY <1>1, Brackets, Zenon DEF AtValue, Searched
<1> QED BY <1>2, <1>3, <1>4, Zenon DEF s

LEMMA SkipEnds ==
    ASSUME NEW path, path # <<>>, NEW got
    PROVE  Feed(Skipping(path, <<"]">>, got), "]") = After(path, got)
<1> DEFINE s == Skipping(path, <<"]">>, got)
<1>1. s.at = "skip" /\ s.skip = <<"]">>
  BY Zenon DEF Skipping
<1>2. AfterValue(s) = After(path, got)
  BY SkippedOver, Zenon
<1> HIDE DEF s
<1>3. "]" = Last(s.skip) /\ Len(s.skip) = 1
  BY <1>1, Brackets, Zenon
<1>4. \A n : n = 1 => ~(n > 1)
  OBVIOUS
<1>5. ~(Len(s.skip) > 1)
  BY <1>3, <1>4, Zenon
<1>6. AtSkipped(s, "]") = AfterValue(s)
  BY <1>3, <1>5, Brackets, Zenon DEF AtSkipped
<1> QED BY <1>1, <1>2, <1>6, FeedSkipped, Zenon DEF s

\* An array that nobody asks for, whatever is in it.
LEMMA PassArr ==
    ASSUME NEW path, path \notin Searched, path # <<>>,
           NEW seqs \in Seq(Seq(Words)), \A i \in 1 .. Len(seqs) : Skips(seqs[i])
    PROVE  PassesAt(path, Arr(seqs))
<1> DEFINE v == FlattenSeq(seqs)
<1>1. Skips(v)
  BY SkipsAll
<1>2. <<"]">> \in Stacks
  BY EmptySeq DEF Stacks, Closers
<1> HIDE DEF v
<1>3. <<"[">> \in Seq(Words) /\ v \in Seq(Words) /\ <<"]">> \in Seq(Words)
      /\ <<"[">> \o v \in Seq(Words) /\ <<"[">> \o v \o <<"]">> \in Seq(Words)
  <2>1. v \in Seq(Words)
    BY <1>1 DEF Skips
  <2> QED BY <2>1, WordFacts, Zenon
<1>4. ASSUME NEW got
      PROVE  Leads(W("value", path, got), <<"[">> \o v \o <<"]">>, After(path, got))
  <2> DEFINE s == Skipping(path, <<"]">>, got)
             b == W("value", path, got)
             e == After(path, got)
  <2>1. Leads(b, <<"[">>, s)
    BY SkipBegins, Leads1, Zenon
  <2>2. Leads(s, v, s)
    BY <1>1, <1>2, Zenon DEF Skips
  <2>3. Leads(s, <<"]">>, e)
    BY SkipEnds, Leads1, Zenon
  <2> HIDE DEF s, b, e
  <2>4. Leads(b, <<"[">> \o v, s)
    BY <1>3, <2>1, <2>2, LeadsFurther, Zenon
  <2>5. Leads(b, <<"[">> \o v \o <<"]">>, e)
    BY <1>3, <2>3, <2>4, LeadsFurther, Zenon
  <2> QED BY <2>5 DEF b, e
<1> QED BY <1>3, <1>4, Zenon DEF PassesAt, Arr, v

\* The members of an object: got[i] is what has been handed over after the
\* first i of them.
LEMMA MembersLead ==
    ASSUME NEW path, path \notin Searched, NEW seqs \in Seq(Seq(Words)), NEW got,
           \A i \in 1 .. Len(seqs) :
              Leads(W("name", path, got[i - 1]), seqs[i], W("name", path, got[i]))
    PROVE  /\ Obj(seqs) \in Seq(Words)
           /\ Leads(W("value", path, got[0]), Obj(seqs), After(path, got[Len(seqs)]))
<1> DEFINE at == [i \in 0 .. Len(seqs) |-> W("name", path, got[i])]
           v == FlattenSeq(seqs)
<1>1. Len(seqs) \in Nat
  OBVIOUS
<1>2. ASSUME NEW i \in 1 .. Len(seqs) PROVE Leads(at[i - 1], seqs[i], at[i])
  BY <1>1
<1>3. at[0] = W("name", path, got[0]) /\ at[Len(seqs)] = W("name", path, got[Len(seqs)])
  BY <1>1
<1> HIDE DEF at
<1>4. v \in Seq(Words) /\ Leads(at[0], v, at[Len(seqs)])
  BY <1>2, FlattenLeads
<1> HIDE DEF v
<1>5. <<"{">> \in Seq(Words) /\ <<"}">> \in Seq(Words)
      /\ <<"{">> \o v \in Seq(Words) /\ <<"{">> \o v \o <<"}">> \in Seq(Words)
  BY <1>4, WordFacts, Zenon
<1> DEFINE b == W("value", path, got[0])
           e == After(path, got[Len(seqs)])
<1>6. Leads(b, <<"{">>, at[0])
  BY <1>3, FeedObject, Leads1, Zenon
<1>7. Leads(at[Len(seqs)], <<"}">>, e)
  BY <1>3, FeedObjectEnd, Leads1, Zenon
<1> HIDE DEF b, e
<1>8. Leads(b, <<"{">> \o v, at[Len(seqs)])
  BY <1>4, <1>5, <1>6, LeadsFurther, Zenon
<1>9. Leads(b, <<"{">> \o v \o <<"}">>, e)
  BY <1>5, <1>7, <1>8, LeadsFurther, Zenon
<1> QED BY <1>5, <1>9, Zenon DEF b, e, v, Obj

\* One member: its name and its value.
LEMMA MemberLeads ==
    ASSUME NEW S, NEW path \in Seq(S), NEW name \in Words, name \in S, name \notin Delimiters,
           NEW v \in Seq(Words), NEW got, NEW more,
           Leads(W("value", Append(path, name), got), v, After(Append(path, name), more))
    PROVE  /\ <<name>> \o v \in Seq(Words)
           /\ Leads(W("name", path, got), <<name>> \o v, W("name", path, more))
<1>1. Append(path, name) # <<>> /\ Front(Append(path, name)) = path
  BY AppendProperties, FrontOfAppend
<1>2. After(Append(path, name), more) = W("name", path, more)
  BY <1>1 DEF After
<1>3. Leads(W("name", path, got), <<name>>, W("value", Append(path, name), got))
  BY FeedMember, Leads1, Zenon
<1>4. <<name>> \in Seq(Words) /\ <<name>> \o v \in Seq(Words)
  BY WordFacts, Zenon
<1> DEFINE s == W("name", path, got)
           t == W("value", Append(path, name), got)
           u == W("name", path, more)
<1>5. Leads(s, <<name>>, t) /\ Leads(t, v, u)
  BY <1>2, <1>3
<1> HIDE DEF s, t, u
<1>6. Leads(s, <<name>> \o v, u)
  BY <1>4, <1>5, LeadsFurther, Zenon
<1> QED BY <1>4, <1>6 DEF s, u

LEMMA LastOfPair == ASSUME NEW a, NEW b PROVE Last(<<a, b>>) = b /\ Last(<<a>>) = a
BY DEF Last

\* Only the two arrays are searched.
LEMMA Unsearched ==
    ASSUME NEW path \in Seq(Words)
    PROVE  /\ Append(path, "other") \in Seq(Words)
           /\ Append(path, "other") # <<>> /\ Append(path, "other") \notin Searched
<1> DEFINE more == Append(path, "other")
<1>1. "other" \in Words
  BY WordFacts
<1>2. more \in Seq(Words) /\ more # <<>> /\ Last(more) = "other"
  BY <1>1, AppendProperties, FrontOfAppend
<1>3. Last(Listed) = "identities" /\ Last(Errors) = "errors"
  BY Paths, LastOfPair, Zenon
<1>4. "other" # "identities" /\ "other" # "errors"
  OBVIOUS
<1> HIDE DEF more
<1>5. more \notin Searched
  BY <1>2, <1>3, <1>4, Zenon DEF Searched
<1> QED BY <1>2, <1>5 DEF more

\* The walk passes over v, the value of a member that nobody asks for.
PassedOver(v) == \A path \in Seq(Words) : PassesAt(Append(path, "other"), v)

LEMMA OverToken == PassedOver(<<"other">>)
BY PassToken, WordFacts, Zenon DEF PassedOver

LEMMA OverArr ==
    ASSUME NEW seqs \in Seq(Seq(Words)), \A i \in 1 .. Len(seqs) : Skips(seqs[i])
    PROVE  PassedOver(Arr(seqs))
<1>1. ASSUME NEW path \in Seq(Words) PROVE PassesAt(Append(path, "other"), Arr(seqs))
  <2> DEFINE more == Append(path, "other")
  <2>1. more \notin Searched /\ more # <<>>
    BY Unsearched, Zenon
  <2> HIDE DEF more
  <2>2. PassesAt(more, Arr(seqs))
    BY <2>1, PassArr, Zenon
  <2> QED BY <2>2 DEF more
<1> QED BY <1>1, Zenon DEF PassedOver

LEMMA OverWords == ASSUME NEW v, PassedOver(v) PROVE v \in Seq(Words)
<1>1. <<>> \in Seq(Words)
  OBVIOUS
<1> QED BY <1>1, Zenon DEF PassedOver, PassesAt

\* A member whose value is passed over, in an object that is searched or not.
LEMMA OverMember ==
    ASSUME NEW path \in Seq(Words), NEW v, PassedOver(v), NEW got
    PROVE  /\ <<"other">> \o v \in Seq(Words)
           /\ Leads(W("name", path, got), <<"other">> \o v, W("name", path, got))
<1>1. v \in Seq(Words)
  BY OverWords
<1>2. Leads(W("value", Append(path, "other"), got), v, After(Append(path, "other"), got))
  BY Zenon DEF PassedOver, PassesAt
<1>3. "other" \in Words /\ "other" \notin Delimiters
  BY WordFacts, Zenon
<1> QED BY <1>1, <1>2, <1>3, MemberLeads, Zenon

LEMMA Singles == ASSUME NEW S PROVE
    /\ \A a \in Seq(S) : <<a>> \in Seq(Seq(S)) /\ Len(<<a>>) = 1 /\ <<a>>[1] = a
    /\ \A a, b \in Seq(S) : <<a, b>> \in Seq(Seq(S)) /\ Len(<<a, b>>) = 2
                              /\ <<a, b>>[1] = a /\ <<a, b>>[2] = b
    /\ <<>> \in Seq(Seq(S)) /\ Len(<<>>) = 0
    /\ \A i \in 1 .. 1 : i = 1
    /\ \A i \in 1 .. 2 : i = 1 \/ i = 2
OBVIOUS

\* An object with one member that is passed over.
LEMMA OverObj == ASSUME NEW v, PassedOver(v) PROVE PassedOver(Obj(<<<<"other">> \o v>>))
<1>1. ASSUME NEW path \in Seq(Words), NEW got
      PROVE  /\ Obj(<<<<"other">> \o v>>) \in Seq(Words)
             /\ Leads(W("value", Append(path, "other"), got), Obj(<<<<"other">> \o v>>),
                      After(Append(path, "other"), got))
  <2> DEFINE more == Append(path, "other")
             w == <<"other">> \o v
             seqs == <<w>>
             gots == [i \in 0 .. 1 |-> got]
  <2>1. more \in Seq(Words) /\ more \notin Searched
    BY Unsearched, Zenon
  <2> HIDE DEF more
  <2>2. w \in Seq(Words) /\ Leads(W("name", more, got), w, W("name", more, got))
    BY <2>1, OverMember, Zenon
  <2> HIDE DEF w
  <2>3. seqs \in Seq(Seq(Words)) /\ Len(seqs) = 1 /\ seqs[1] = w
    BY <2>2
  <2>4. gots[0] = got /\ gots[1] = got
    OBVIOUS
  <2> HIDE DEF gots, seqs
  <2>5. \A i \in 1 .. Len(seqs) :
           Leads(W("name", more, gots[i - 1]), seqs[i], W("name", more, gots[i]))
    <3>1. \A i \in 1 .. 1 : i = 1 /\ i - 1 = 0
      OBVIOUS
    <3> QED BY <2>2, <2>3, <2>4, <3>1
  <2>6. /\ Obj(seqs) \in Seq(Words)
        /\ Leads(W("value", more, gots[0]), Obj(seqs), After(more, gots[Len(seqs)]))
    BY <2>1, <2>3, <2>5, MembersLead
  <2> QED BY <2>3, <2>4, <2>6 DEF more, seqs, w
<1> QED BY <1>1, Zenon DEF PassedOver, PassesAt

LEMMA SkipsOne == ASSUME NEW v, Skips(v) PROVE Skips(Arr(<<v>>)) /\ Skips(Obj(<<v>>)) /\ PassedOver(Arr(<<v>>))
<1> DEFINE seqs == <<v>>
<1>1. v \in Seq(Words)
  BY DEF Skips
<1>2. seqs \in Seq(Seq(Words)) /\ \A i \in 1 .. Len(seqs) : seqs[i] = v
  BY <1>1, Singles
<1> HIDE DEF seqs
<1>3. Skips(Arr(seqs)) /\ Skips(Obj(seqs)) /\ PassedOver(Arr(seqs))
  BY <1>2, SkipsArr, OverArr
<1> QED BY <1>3 DEF seqs

LEMMA OverTwo == ASSUME NEW v, Skips(v), NEW w, Skips(w) PROVE PassedOver(Arr(<<v, w>>))
<1> DEFINE seqs == <<v, w>>
<1>1. v \in Seq(Words) /\ w \in Seq(Words)
  BY DEF Skips
<1>2. seqs \in Seq(Seq(Words)) /\ \A i \in 1 .. Len(seqs) : seqs[i] = v \/ seqs[i] = w
  BY <1>1, Singles
<1> HIDE DEF seqs
<1>3. PassedOver(Arr(seqs))
  BY <1>2, OverArr
<1> QED BY <1>3 DEF seqs

LEMMA SkipsPair ==
    ASSUME NEW a \in Words, a \notin Delimiters, NEW b \in Words, b \notin Delimiters
    PROVE  Skips(<<a, b>>)
<1>1. Skips(<<a>>) /\ Skips(<<b>>)
  BY SkipsToken, Zenon
<1>2. <<a, b>> \in Seq(Words)
  OBVIOUS
<1>3. ASSUME NEW path, NEW got, NEW stack \in Stacks
      PROVE  Leads(Skipping(path, stack, got), <<a, b>>, Skipping(path, stack, got))
  <2> DEFINE s == Skipping(path, stack, got)
  <2>1. Feed(s, a) = s /\ Feed(s, b) = s
    BY SkipScalar, Zenon
  <2> HIDE DEF s
  <2>2. Leads(s, <<a, b>>, Feed(Feed(s, a), b))
    BY Leads2, Zenon
  <2> QED BY <2>1, <2>2, Zenon DEF s
<1> QED BY <1>2, <1>3, Zenon DEF Skips

LEMMA OthersPassed == ASSUME NEW v \in Other PROVE PassedOver(v)
<1>1. Skips(<<"other">>) /\ Skips(<<"errors", "other">>)
  BY SkipsToken, SkipsPair, WordFacts, Zenon
<1>2. Skips(Arr(<<<<"other">>>>)) /\ PassedOver(Arr(<<<<"other">>>>))
  BY <1>1, SkipsOne, Zenon
<1>3. Skips(Obj(<<<<"errors", "other">>>>))
  BY <1>1, SkipsOne, Zenon
<1>4. PassedOver(Arr(<<Arr(<<<<"other">>>>), <<"other">>>>))
      /\ PassedOver(Arr(<<Obj(<<<<"errors", "other">>>>), <<"other">>>>))
  BY <1>1, <1>2, <1>3, OverTwo, Zenon
<1>5. PassedOver(Arr(<<>>))
  <2> DEFINE none == <<>>
  <2>1. none \in Seq(Seq(Words)) /\ \A i \in 1 .. Len(none) : Skips(none[i])
    OBVIOUS
  <2> HIDE DEF none
  <2>2. PassedOver(Arr(none))
    BY <2>1, OverArr, Zenon
  <2> QED BY <2>2 DEF none
<1>6. PassedOver(Obj(<<<<"other">> \o Arr(<<>>)>>))
  BY <1>5, OverObj, Zenon
<1> QED BY <1>2, <1>4, <1>5, <1>6, OverToken, Zenon DEF Other

-----------------------------------------------------------------------------
(* The walk over a response *)

\* The elements of the listing, as the response holds them.
LEMMA TakesElements ==
    ASSUME NEW elems \in Seq(Elements)
    PROVE  LET v == Arr([i \in DOMAIN elems |-> <<elems[i]>>])
           IN  v \in Seq(Words) /\ Leads(W("value", Listed, <<>>), v, After(Listed, elems))
<1> DEFINE seqs == [i \in DOMAIN elems |-> <<elems[i]>>]
           at == [i \in 0 .. Len(elems) |-> InList(SubSeq(elems, 1, i))]
           v == FlattenSeq(seqs)
<1>1. Len(elems) \in Nat /\ DOMAIN elems = 1 .. Len(elems) /\ \A i \in 1 .. Len(elems) : elems[i] \in Elements
  OBVIOUS
<1>2. seqs \in Seq(Seq(Words)) /\ Len(seqs) = Len(elems)
      /\ \A i \in 1 .. Len(elems) : seqs[i] = <<elems[i]>>
  <2>1. \A i \in 1 .. Len(elems) : <<elems[i]>> \in Seq(Words)
    BY <1>1, WordFacts
  <2>2. seqs = [i \in 1 .. Len(elems) |-> <<elems[i]>>]
    BY <1>1
  <2> QED BY <1>1, <2>1, <2>2
<1>3. at[0] = InList(<<>>) /\ at[Len(elems)] = InList(elems)
  <2>1. SubSeq(elems, 1, 0) = <<>>
    BY SubSeqEmpty
  <2>2. SubSeq(elems, 1, Len(elems)) = elems
    OBVIOUS
  <2>3. 0 \in 0 .. Len(elems) /\ Len(elems) \in 0 .. Len(elems)
    BY <1>1
  <2> QED BY <2>1, <2>2, <2>3
<1>4. ASSUME NEW i \in 1 .. Len(elems) PROVE Leads(at[i - 1], seqs[i], at[i])
  <2> DEFINE before == SubSeq(elems, 1, i - 1)
  <2>1. i - 1 \in 0 .. Len(elems) /\ i \in 0 .. Len(elems)
    BY <1>1
  <2>2. SubSeq(elems, 1, i) = Append(before, elems[i])
    <3> DEFINE x == SubSeq(elems, 1, i)
               y == Append(before, elems[i])
    <3>1. \A j \in 1 .. i : elems[j] \in Elements
      BY <1>1
    <3>2. x \in Seq(Elements) /\ Len(x) = i /\ \A j \in 1 .. i : x[j] = elems[j]
      BY <1>1, <3>1, SubSeqProperties
    <3>3. before \in Seq(Elements) /\ Len(before) = i - 1 /\ \A j \in 1 .. i - 1 : before[j] = elems[j]
      BY <1>1, <3>1, SubSeqProperties
    <3> HIDE DEF before
    <3>4. y \in Seq(Elements) /\ Len(y) = i /\ \A j \in 1 .. i : y[j] = elems[j]
      <4>1. elems[i] \in Elements
        BY <1>1
      <4>2. /\ y \in Seq(Elements) /\ Len(y) = Len(before) + 1
            /\ \A j \in 1 .. Len(before) : y[j] = before[j]
            /\ y[Len(before) + 1] = elems[i]
        BY <3>3, <4>1, AppendProperties
      <4> HIDE DEF y
      <4>3. Len(y) = i /\ y[i] = elems[i]
        BY <3>3, <4>2
      <4>4. \A j \in 1 .. i : j = i \/ j \in 1 .. i - 1
        OBVIOUS
      <4> QED BY <3>3, <4>2, <4>3, <4>4
    <3> HIDE DEF x, y
    <3>5. x = y
      BY <3>2, <3>4, SeqEqual
    <3> QED BY <3>5 DEF x, y
  <2>3. Leads(InList(before), <<elems[i]>>, InList(Append(before, elems[i])))
    BY <1>1, ListTakes
  <2> HIDE DEF before
  <2>4. at[i - 1] = InList(before) /\ at[i] = InList(Append(before, elems[i]))
    BY <2>1, <2>2 DEF before
  <2> QED BY <1>2, <2>3, <2>4
<1> HIDE DEF at, seqs
<1>5. v \in Seq(Words) /\ Leads(at[0], v, at[Len(elems)])
  BY <1>2, <1>4, FlattenLeads
<1> HIDE DEF v
<1>6. <<"[">> \in Seq(Words) /\ <<"]">> \in Seq(Words)
      /\ <<"[">> \o v \in Seq(Words) /\ <<"[">> \o v \o <<"]">> \in Seq(Words)
  BY <1>5, WordFacts, Zenon
<1> DEFINE b == W("value", Listed, <<>>)
           e == After(Listed, elems)
<1>7. Leads(b, <<"[">>, at[0])
  BY <1>3, FeedList, Paths, Leads1, Zenon DEF InList
<1>8. Leads(at[Len(elems)], <<"]">>, e)
  BY <1>3, FeedListEnd, Leads1, Zenon DEF InList
<1> HIDE DEF b, e
<1>9. Leads(b, <<"[">> \o v, at[Len(elems)])
  BY <1>5, <1>6, <1>7, LeadsFurther, Zenon
<1>10. Leads(b, <<"[">> \o v \o <<"]">>, e)
  BY <1>6, <1>8, <1>9, LeadsFurther, Zenon
<1> QED BY <1>6, <1>10, Zenon DEF b, e, v, Arr, seqs

LEMMA ThreeMembers ==
    ASSUME NEW S, NEW a \in Seq(S), NEW b \in Seq(S), NEW c \in Seq(S)
    PROVE  /\ <<a, b, c>> \in Seq(Seq(S)) /\ Len(<<a, b, c>>) = 3
           /\ <<a, b, c>>[1] = a /\ <<a, b, c>>[2] = b /\ <<a, b, c>>[3] = c
           /\ \A i \in 1 .. 3 : (i = 1 /\ i - 1 = 0) \/ (i = 2 /\ i - 1 = 1) \/ (i = 3 /\ i - 1 = 2)
OBVIOUS

LEMMA FourMembers ==
    ASSUME NEW S, NEW a \in Seq(S), NEW b \in Seq(S), NEW c \in Seq(S), NEW d \in Seq(S)
    PROVE  /\ <<a, b, c, d>> \in Seq(Seq(S)) /\ Len(<<a, b, c, d>>) = 4
           /\ <<a, b, c, d>>[1] = a /\ <<a, b, c, d>>[2] = b
           /\ <<a, b, c, d>>[3] = c /\ <<a, b, c, d>>[4] = d
           /\ \A i \in 1 .. 4 : \/ (i = 1 /\ i - 1 = 0) \/ (i = 2 /\ i - 1 = 1)
                                \/ (i = 3 /\ i - 1 = 2) \/ (i = 4 /\ i - 1 = 3)
OBVIOUS

\* The member of the result, in which the listing is one member of three.
ListingOf(elems, before, after) ==
    Obj(<<<<"other">> \o before,
          <<"identities">> \o Arr([i \in DOMAIN elems |-> <<elems[i]>>]),
          <<"other">> \o after>>)

LEMMA ResultLeads ==
    ASSUME NEW elems \in Seq(Elements), NEW before, PassedOver(before), NEW after, PassedOver(after)
    PROVE  /\ <<"result">> \o ListingOf(elems, before, after) \in Seq(Words)
           /\ Leads(W("name", <<>>, <<>>), <<"result">> \o ListingOf(elems, before, after),
                    W("name", <<>>, elems))
<1> DEFINE path == <<"result">>
           list == Arr([i \in DOMAIN elems |-> <<elems[i]>>])
           a == <<"other">> \o before
           b == <<"identities">> \o list
           c == <<"other">> \o after
           seqs == <<a, b, c>>
           got == [i \in 0 .. 3 |-> IF i < 2 THEN <<>> ELSE elems]
<1>1. path \in Seq(Words) /\ path \notin Searched /\ Append(path, "identities") = Listed
      /\ Append(<<>>, "result") = path /\ <<>> \in Seq(Words)
  <2>1. path \in Seq(Words)
    BY WordFacts, Zenon
  <2>2. Append(path, "identities") = Listed /\ Append(<<>>, "result") = path /\ path \notin Searched
    BY PathFacts, Paths, Zenon
  <2> QED BY <2>1, <2>2
<1>2. list \in Seq(Words) /\ Leads(W("value", Listed, <<>>), list, After(Listed, elems))
  BY TakesElements, Zenon
<1> HIDE DEF path, list
<1>3. a \in Seq(Words) /\ Leads(W("name", path, <<>>), a, W("name", path, <<>>))
  BY <1>1, OverMember, Zenon
<1>4. c \in Seq(Words) /\ Leads(W("name", path, elems), c, W("name", path, elems))
  BY <1>1, OverMember, Zenon
<1>5. b \in Seq(Words) /\ Leads(W("name", path, <<>>), b, W("name", path, elems))
  BY <1>1, <1>2, WordFacts, MemberLeads, Zenon
<1> HIDE DEF a, b, c
<1>6. seqs \in Seq(Seq(Words)) /\ Len(seqs) = 3 /\ seqs[1] = a /\ seqs[2] = b /\ seqs[3] = c
  BY <1>3, <1>4, <1>5, ThreeMembers
<1>7. got[0] = <<>> /\ got[1] = <<>> /\ got[2] = elems /\ got[3] = elems
  OBVIOUS
<1> HIDE DEF seqs, got
<1>8. ASSUME NEW i \in 1 .. Len(seqs)
      PROVE  Leads(W("name", path, got[i - 1]), seqs[i], W("name", path, got[i]))
  <2>1. (i = 1 /\ i - 1 = 0) \/ (i = 2 /\ i - 1 = 1) \/ (i = 3 /\ i - 1 = 2)
    BY <1>6
  <2> QED BY <1>3, <1>4, <1>5, <1>6, <1>7, <2>1, Zenon
<1>9. /\ Obj(seqs) \in Seq(Words)
      /\ Leads(W("value", path, got[0]), Obj(seqs), After(path, got[Len(seqs)]))
  BY <1>1, <1>6, <1>8, MembersLead
<1>10. /\ Obj(seqs) \in Seq(Words)
       /\ Leads(W("value", Append(<<>>, "result"), <<>>), Obj(seqs), After(Append(<<>>, "result"), elems))
  BY <1>1, <1>6, <1>7, <1>9
<1>11. /\ <<"result">> \o Obj(seqs) \in Seq(Words)
       /\ Leads(W("name", <<>>, <<>>), <<"result">> \o Obj(seqs), W("name", <<>>, elems))
  BY <1>1, <1>10, WordFacts, MemberLeads, Zenon
<1> QED BY <1>11, Zenon DEF ListingOf, seqs, a, b, c, list

\* What can be in the array of errors: no value is empty, none begins with the
\* end of the array.
Errored(errors) ==
    errors \in Seq(Seq(Words)) /\ \A i \in 1 .. Len(errors) : errors[i] # <<>> /\ errors[i][1] # "]"

LEMMA FailedFrom ==
    ASSUME NEW v \in Seq(Words), v # <<>>, NEW s, NEW t, t.at = "error",
           s = t \/ Feed(s, v[1]) = t
    PROVE  Leads(s, v, t)
<1> DEFINE f == [n \in Nat |-> IF n = 0 THEN s ELSE t]
<1>1. Len(v) \in Nat /\ Len(v) # 0
  BY EmptySeq
<1>2. f[0] = s /\ f[Len(v)] = t
  BY <1>1
<1>3. ASSUME NEW n \in 1 .. Len(v) PROVE f[n] = Feed(f[n - 1], v[n])
  <2>1. Feed(t, v[n]) = t
    BY FeedFailed
  <2>2. CASE n = 1
    <3>1. f[n] = t /\ f[n - 1] = s
      BY <2>2
    <3>2. Feed(s, v[n]) = t
      BY <2>1, <2>2
    <3> QED BY <3>1, <3>2
  <2>3. CASE n # 1
    <3>1. f[n] = t /\ f[n - 1] = t
      BY <2>3
    <3> QED BY <2>1, <3>1
  <2> QED BY <2>2, <2>3
<1> HIDE DEF f
<1>4. Leads(s, v, f[Len(v)])
  BY <1>1, <1>2, <1>3, LeadsBy
<1> QED BY <1>2, <1>4

\* Where the walk is once it has read the array of errors.
Seen(errors, got) ==
    IF errors = <<>> THEN W("name", <<>>, got) ELSE Failed(W("elements", Errors, got))

LEMMA SeenFields == ASSUME NEW errors, errors # <<>>, NEW got
                    PROVE  Seen(errors, got).at = "error" /\ Seen(errors, got).got = got
BY DEF Seen, Failed, W

LEMMA FeedSearched ==
    ASSUME NEW s, s.at = "elements", NEW token PROVE Feed(s, token) = AtElements(s, token)
BY DEF Feed

LEMMA ReadsErrors ==
    ASSUME NEW errors, Errored(errors), NEW got
    PROVE  /\ <<"errors">> \o Arr(errors) \in Seq(Words)
           /\ Leads(W("name", <<>>, got), <<"errors">> \o Arr(errors), Seen(errors, got))
<1> DEFINE s == W("name", <<>>, got)
           u == W("value", Errors, got)
           w == W("elements", Errors, got)
           t == Seen(errors, got)
           x == IF errors = <<>> THEN w ELSE t
           at == [i \in 0 .. Len(errors) |-> IF i = 0 THEN w ELSE t]
           v == FlattenSeq(errors)
<1>1. Append(<<>>, "errors") = Errors /\ Front(Errors) = <<>> /\ Errors # <<>>
  BY PathFacts, Paths
<1>2. Leads(s, <<"errors">>, u)
  <2>1. Feed(s, "errors") = u
    BY <1>1, FeedMember, WordFacts, Zenon
  <2> QED BY <2>1, Leads1, Zenon
<1>3. Leads(u, <<"[">>, w)
  BY FeedList, Paths, Leads1, Zenon
<1>4. errors # <<>> => t = Failed(w) /\ t.at = "error"
  BY SeenFields DEF Seen
<1>5. errors = <<>> => Leads(w, <<"]">>, t)
  <2>1. After(Errors, got) = W("name", <<>>, got)
    BY <1>1 DEF After
  <2> QED BY <2>1, FeedListEnd, Leads1, Zenon DEF Seen
<1>6. ASSUME NEW token, token # "]" PROVE Feed(w, token) = Failed(w)
  <2>1. w.at = "elements" /\ w.path = Errors
    BY Zenon DEF W
  <2> HIDE DEF w
  <2>2. Feed(w, token) = AtElements(w, token)
    BY <2>1, FeedSearched, Zenon
  <2>3. AtElements(w, token) = Failed(w)
    BY <1>6, <2>1, Paths, Zenon DEF AtElements
  <2> QED BY <2>2, <2>3
<1> HIDE DEF s, u, w, t
<1>7. Len(errors) \in Nat /\ errors \in Seq(Seq(Words)) /\ (Len(errors) = 0 <=> errors = <<>>)
      /\ \A i \in 1 .. Len(errors) : errors[i] \in Seq(Words)
  BY EmptySeq DEF Errored
<1>8. ASSUME NEW i \in 1 .. Len(errors) PROVE Leads(at[i - 1], errors[i], at[i])
  <2>1. errors # <<>> /\ errors[i] \in Seq(Words) /\ errors[i] # <<>> /\ errors[i][1] # "]"
    BY <1>7 DEF Errored
  <2>2. at[i] = t /\ (at[i - 1] = t \/ at[i - 1] = w)
    BY <1>7
  <2>3. at[i - 1] = t \/ Feed(at[i - 1], errors[i][1]) = t
    BY <1>4, <1>6, <2>1, <2>2
  <2> HIDE DEF at
  <2>4. Leads(at[i - 1], errors[i], t)
    BY <1>4, <2>1, <2>3, FailedFrom
  <2> QED BY <2>2, <2>4
<1>9. at[0] = w /\ at[Len(errors)] = x
  BY <1>7
<1> HIDE DEF at, x
<1>10. v \in Seq(Words) /\ Leads(w, v, x)
  <2>1. v \in Seq(Words) /\ Leads(at[0], v, at[Len(errors)])
    BY <1>7, <1>8, FlattenLeads
  <2> QED BY <1>9, <2>1
<1> HIDE DEF v
<1>11. <<"[">> \in Seq(Words) /\ <<"]">> \in Seq(Words) /\ <<"errors">> \in Seq(Words)
       /\ <<"[">> \o v \in Seq(Words) /\ <<"[">> \o v \o <<"]">> \in Seq(Words)
       /\ <<"errors">> \o (<<"[">> \o v \o <<"]">>) \in Seq(Words)
  BY <1>10, WordFacts, Zenon
<1>12. Leads(x, <<"]">>, t)
  <2>1. CASE errors = <<>>
    BY <1>5, <2>1 DEF x
  <2>2. CASE errors # <<>>
    <3>1. x = t /\ Feed(t, "]") = t
      BY <1>4, <2>2, FeedFailed, Zenon DEF x
    <3> QED BY <3>1, Leads1, Zenon
  <2> QED BY <2>1, <2>2
<1>13. Leads(u, <<"[">> \o v, x)
  BY <1>3, <1>10, <1>11, LeadsFurther, Zenon
<1>14. Leads(u, <<"[">> \o v \o <<"]">>, t)
  BY <1>11, <1>12, <1>13, LeadsFurther, Zenon
<1>15. Leads(s, <<"errors">> \o (<<"[">> \o v \o <<"]">>), t)
  BY <1>2, <1>11, <1>14, LeadsFurther, Zenon
<1> QED BY <1>11, <1>15, Zenon DEF Arr, v, s, t

\* Where the walk over a response ends.
FinalWalk(errors, got) ==
    IF errors = <<>> THEN W("done", <<>>, got) ELSE Failed(W("elements", Errors, got))

LEMMA ResponseLeads ==
    ASSUME NEW elems \in Seq(Elements), NEW before, PassedOver(before),
           NEW after, PassedOver(after), NEW errors, Errored(errors)
    PROVE  /\ Response(elems, before, after, errors) \in Seq(Words)
           /\ Leads(Start, Response(elems, before, after, errors), FinalWalk(errors, elems))
<1> DEFINE a == <<"other">> \o before
           b == <<"result">> \o ListingOf(elems, before, after)
           c == <<"other">> \o after
           d == <<"errors">> \o Arr(errors)
           seqs == <<a, b, c, d>>
           p == W("name", <<>>, <<>>)
           q == W("name", <<>>, elems)
           t == Seen(errors, elems)
           e == FinalWalk(errors, elems)
           at == [i \in 0 .. 4 |-> IF i < 2 THEN p ELSE IF i < 4 THEN q ELSE t]
           v == FlattenSeq(seqs)
<1>1. a \in Seq(Words) /\ Leads(p, a, p)
  <2>1. <<>> \in Seq(Words)
    OBVIOUS
  <2> QED BY <2>1, OverMember, Zenon
<1>2. c \in Seq(Words) /\ Leads(q, c, q)
  <2>1. <<>> \in Seq(Words)
    OBVIOUS
  <2> QED BY <2>1, OverMember, Zenon
<1>3. b \in Seq(Words) /\ Leads(p, b, q)
  BY ResultLeads, Zenon
<1>4. d \in Seq(Words) /\ Leads(q, d, t)
  BY ReadsErrors, Zenon
<1>5. Leads(Start, <<"{">>, p)
  <2>1. Start = W("value", <<>>, <<>>)
    BY DEF Start, W
  <2> QED BY <2>1, FeedObject, Paths, Leads1, Zenon
<1>6. Leads(t, <<"}">>, e)
  <2>1. CASE errors = <<>>
    <3>1. t = q /\ e = After(<<>>, elems)
      BY <2>1, Zenon DEF Seen, FinalWalk, After
    <3> QED BY <3>1, FeedObjectEnd, Leads1, Zenon
  <2>2. CASE errors # <<>>
    <3>1. t = e /\ t.at = "error"
      BY <2>2, SeenFields, Zenon DEF Seen, FinalWalk
    <3>2. Feed(t, "}") = t
      BY <3>1, FeedFailed, Zenon
    <3> QED BY <3>1, <3>2, Leads1, Zenon
  <2> QED BY <2>1, <2>2
<1> HIDE DEF a, b, c, d, p, q, t, e
<1>7. seqs \in Seq(Seq(Words)) /\ Len(seqs) = 4
      /\ seqs[1] = a /\ seqs[2] = b /\ seqs[3] = c /\ seqs[4] = d
  BY <1>1, <1>2, <1>3, <1>4, FourMembers
<1>8. at[0] = p /\ at[1] = p /\ at[2] = q /\ at[3] = q /\ at[4] = t
  OBVIOUS
<1> HIDE DEF seqs, at
<1>9. ASSUME NEW i \in 1 .. Len(seqs) PROVE Leads(at[i - 1], seqs[i], at[i])
  <2>1. \/ (i = 1 /\ i - 1 = 0) \/ (i = 2 /\ i - 1 = 1)
        \/ (i = 3 /\ i - 1 = 2) \/ (i = 4 /\ i - 1 = 3)
    BY <1>7
  <2> QED BY <1>1, <1>2, <1>3, <1>4, <1>7, <1>8, <2>1, Zenon
<1>10. v \in Seq(Words) /\ Leads(p, v, t)
  <2>1. v \in Seq(Words) /\ Leads(at[0], v, at[Len(seqs)])
    BY <1>7, <1>9, FlattenLeads
  <2> QED BY <1>7, <1>8, <2>1
<1> HIDE DEF v
<1>11. <<"{">> \in Seq(Words) /\ <<"}">> \in Seq(Words)
       /\ <<"{">> \o v \in Seq(Words) /\ <<"{">> \o v \o <<"}">> \in Seq(Words)
  BY <1>10, WordFacts, Zenon
<1>12. Leads(Start, <<"{">> \o v, t)
  BY <1>5, <1>10, <1>11, LeadsFurther, Zenon
<1>13. Leads(Start, <<"{">> \o v \o <<"}">>, e)
  BY <1>6, <1>11, <1>12, LeadsFurther, Zenon
<1>14. Response(elems, before, after, errors) = <<"{">> \o v \o <<"}">>
  BY DEF Response, ListingOf, Obj, v, seqs, a, b, c, d
<1> QED BY <1>11, <1>13, <1>14, Zenon DEF e

LEMMA FinalWalkFields ==
    ASSUME NEW errors, NEW got
    PROVE  FinalWalk(errors, got).got = got
           /\ FinalWalk(errors, got).at = IF errors = <<>> THEN "done" ELSE "error"
<1>1. CASE errors = <<>>
  BY <1>1 DEF FinalWalk, W
<1>2. CASE errors # <<>>
  BY <1>2 DEF FinalWalk, Failed, W
<1> QED BY <1>1, <1>2

-----------------------------------------------------------------------------
(* The theorems *)

\* Requests, calls and the pool keep their shape, whatever the clients ask for
\* and whichever faults there are.
THEOREM TypeCorrect == Spec => []TypeOK
<1>1. ASSUME Inv PROVE TypeOK
  <2>1. ASSUME NEW c \in Clients PROVE srv[c] \in Request /\ cli[c].result \in {"none", "ok", "error"}
    BY <1>1 DEF Inv, ClientOK, IsCall
  <2>2. srv = [c \in Clients |-> srv[c]] /\ TablesOK
    BY <1>1 DEF Inv
  <2>3. srv \in [Clients -> Request]
    BY <2>1, <2>2
  <2> QED BY <2>1, <2>2, <2>3 DEF TypeOK, TablesOK
<1>2. Inv => TypeOK
  BY <1>1
<1> QED BY <1>2, InvAlways, PTL

LEMMA CallsOf ==
    ASSUME Inv, NEW c \in Clients
    PROVE  CallOK(srv[c], wire[c], cli[c]) /\ HandlerOK(srv[c], successRC) /\ cli[c].op = srv[c].op
BY DEF Inv, ClientOK

\* A listing that the client reports as successful is all that the query
\* returned, in order, unless the cursor ended early (getIDs, StreamResponse):
\* for every number of rows and of clients, and every size of the buffer.
THEOREM Listing == Spec => []ListingComplete
<1>1. ASSUME Inv, NEW c \in Clients, Returned(c, "list"), ~srv[c].broken
      PROVE  cli[c].walk.got = srv[c].shown
  BY <1>1, CallsOf DEF Returned, CallOK
<1>2. Inv => ListingComplete
  BY <1>1 DEF ListingComplete
<1> QED BY <1>2, InvAlways, PTL

\* A call that the client reports as successful is one whose handler had no
\* error (ServeHTTP, SendReq, StreamResponse).
THEOREM Agreement == Spec => []SuccessAgrees
<1>1. ASSUME Inv, NEW c \in Clients, NEW op \in Ops, Returned(c, op)
      PROVE  srv[c].outcome = "ok"
  BY <1>1, CallsOf DEF Returned, CallOK
<1>2. Inv => SuccessAgrees
  BY <1>1 DEF SuccessAgrees
<1> QED BY <1>2, InvAlways, PTL

\* An error that the client did not cause by going away is one of the handler
\* or of the server (ServeHTTP, SendReq, StreamResponse).
THEOREM ErrorsCaused == Spec => []ErrorHasCause
<1>1. ASSUME Inv, NEW c \in Clients, cli[c].result = "error", ~cli[c].left
      PROVE  srv[c].outcome # "ok"
  BY <1>1, CallsOf DEF CallOK
<1>2. Inv => ErrorHasCause
  BY <1>1 DEF ErrorHasCause
<1> QED BY <1>2, InvAlways, PTL

\* An identity that was added is answered with 201, however many requests share
\* the status of the endpoint (processPostRequest, ServeHTTP).
THEOREM Added == Spec => []AddedIsCreated
<1>1. ASSUME Inv, NEW c \in Clients, Returned(c, "add")
      PROVE  cli[c].status = 201
  <2>1. cli[c].pc = "idle" /\ cli[c].op = "add" /\ cli[c].result = "ok"
    BY <1>1 DEF Returned
  <2>2. CallOK(srv[c], wire[c], cli[c]) /\ HandlerOK(srv[c], successRC) /\ srv[c].op = "add"
    BY <1>1, <2>1, CallsOf
  <2>3. ~cli[c].left /\ cli[c].status = srv[c].status /\ srv[c].outcome = "ok"
    BY <2>1, <2>2 DEF CallOK
  <2> QED BY <2>2, <2>3 DEF HandlerOK
<1>2. Inv => AddedIsCreated
  BY <1>1 DEF AddedIsCreated
<1> QED BY <1>2, InvAlways, PTL

\* StreamJSONArray hands over the listing of a response, whatever its length,
\* whatever members there are before and after it that the walk passes over and
\* however deep they are, and reports whether there are errors (stream,
\* skipToDelim, errCB).
THEOREM AnyResponse ==
    ASSUME NEW elems \in Seq(Elements), NEW before, PassedOver(before),
           NEW after, PassedOver(after), NEW errors, Errored(errors)
    PROVE  LET s == Streamed(Start, Response(elems, before, after, errors))
           IN  s.got = elems /\ s.at = IF errors = <<>> THEN "done" ELSE "error"
<1> DEFINE v == Response(elems, before, after, errors)
<1>1. v \in Seq(Words) /\ Leads(Start, v, FinalWalk(errors, elems))
  BY ResponseLeads, Zenon
<1> HIDE DEF v
<1>2. Len(v) \in Nat
  BY <1>1
<1>3. Streamed(Start, v) = FinalWalk(errors, elems)
  BY <1>1, <1>2, StreamedLeads, Zenon
<1> QED BY <1>3, FinalWalkFields DEF v

\* The streamer takes the listings of all the responses that the run looks at,
\* whatever the identities are called and whoever has called (StreamJSONArray).
THEOREM ListingStreamed == Spec => []StreamsTheListing
<1>1. ASSUME NEW n \in 0 .. 2, NEW elems \in [1 .. n -> Elements], NEW before \in Other,
             NEW after \in Other, NEW errors \in {<<>>, <<<<"other">>>>}
      PROVE  LET s == Streamed(Start, Response(elems, before, after, errors))
             IN  s.got = elems /\ s.at = IF errors = <<>> THEN "done" ELSE "error"
  <2>1. elems \in Seq(Elements)
    OBVIOUS
  <2>2. PassedOver(before) /\ PassedOver(after)
    BY OthersPassed
  <2>3. Errored(errors)
    <3> DEFINE w == <<"other">>
    <3>1. w \in Seq(Words) /\ w # <<>> /\ w[1] # "]"
      BY WordFacts
    <3> HIDE DEF w
    <3>2. Errored(<<>>) /\ Errored(<<w>>)
      BY <3>1, Singles DEF Errored
    <3> QED BY <3>2 DEF w
  <2>4. LET s == Streamed(Start, Response(elems, before, after, errors))
        IN  s.got = elems /\ s.at = IF errors = <<>> THEN "done" ELSE "error"
    BY <2>1, <2>2, <2>3, AnyResponse
  <2> QED BY <2>4
<1>2. TakesListings
  BY <1>1, Zenon DEF TakesListings
<1>3. StreamsTheListing
  BY <1>2 DEF StreamsTheListing
<1> QED BY <1>3, PTL
================================================================================
