--------------------------- MODULE LLMJudgeProofs ---------------------------
(***************************************************************************)
(* Proofs about the hybrid pass: the values it sends are clean, every item *)
(* is accounted for, edges lead where the index of their build says, and   *)
(* a build repeats the result of a clean one before it.                    *)
(***************************************************************************)
EXTENDS LLMJudge, FiniteSetTheorems, WellFoundedInduction, TLAPS

-----------------------------------------------------------------------------
(***************************************************************************)
(* Redaction.                                                              *)
(***************************************************************************)
\* A set of numbers has a least element: the intervals up to its members are
\* finite, and strict inclusion is well founded on them.
LEMMA Least ==
  ASSUME NEW T, T \subseteq Nat, T # {}
  PROVE  \E x \in T : \A y \in T : x <= y
<1> DEFINE F == {1 .. i : i \in T}
<1>1. F \subseteq FiniteSubsetsOf(Nat)
  <2>1. \A i \in T : IsFiniteSet(1 .. i) /\ 1 .. i \in SUBSET Nat
    BY FS_Interval
  <2>2. QED
    BY <2>1 DEF FiniteSubsetsOf
<1>2. F # {}
  OBVIOUS
<1>3. \E X \in F : \A Y \in F : ~ (<<Y, X>> \in StrictSubsetOrdering(Nat))
  <2> HIDE DEF F
  <2> QED
    BY <1>1, <1>2, FS_StrictSubsetOrderingWellFounded, WFMin, Zenon
<1>4. PICK x \in T : \A y \in T : ~ (<<1 .. y, 1 .. x>> \in StrictSubsetOrdering(Nat))
  BY <1>3
<1>5. ASSUME NEW y \in T, y < x PROVE FALSE
  <2>1. 1 .. y \in SUBSET Nat /\ 1 .. x \in SUBSET Nat
    OBVIOUS
  <2>2. 1 .. y \subseteq 1 .. x
    BY <1>5
  <2>3. x \in 1 .. x /\ x \notin 1 .. y
    BY <1>5
  <2>4. QED
    BY <1>4, <2>1, <2>2, <2>3 DEF StrictSubsetOrdering
<1>6. QED
  BY <1>5

\* What is left of a value, secret by secret.
Course(f, n, value, secrets) ==
  f = [k \in 0 .. n |-> IF k = 0 THEN value ELSE Without(f[k - 1], secrets[k])]

\* There is such a course, by induction on the number of secrets, and its end
\* is the value that is sent.
LEMMA Replacing ==
  ASSUME NEW value, NEW secrets, Len(secrets) \in Nat
  PROVE  \E f : Course(f, Len(secrets), value, secrets) /\ Replaced(value, secrets) = f[Len(secrets)]
<1> DEFINE Has(n) == \E f : Course(f, n, value, secrets)
           None == {n \in Nat : ~Has(n)}
<1>1. None = {}
  <2> SUFFICES ASSUME None # {} PROVE FALSE
    OBVIOUS
  <2>1. PICK n \in None : \A m \in None : n <= m
    <3> HIDE DEF Has
    <3> QED BY Least
  <2>2. CASE n = 0
    <3>1. Course([k \in 0 .. 0 |-> value], 0, value, secrets)
      BY DEF Course
    <3> QED BY <2>2, <3>1
  <2>3. CASE n # 0
    <3>1. n - 1 \in Nat /\ ~(n <= n - 1) /\ n \in Nat
      BY <2>3
    <3>2. Has(n - 1)
      <4> HIDE DEF Has
      <4> QED BY <2>1, <3>1
    <3>3. PICK g : Course(g, n - 1, value, secrets)
      BY <3>2
    <3> DEFINE f == [k \in 0 .. n |-> IF k = n THEN Without(g[n - 1], secrets[n]) ELSE g[k]]
    <3>4. \A k \in 0 .. n - 1 : f[k] = g[k]
      BY <3>1
    <3>5. \A k \in 0 .. n : f[k] = IF k = 0 THEN value ELSE Without(f[k - 1], secrets[k])
      <4> TAKE k \in 0 .. n
      <4>1. CASE k = n
        BY <2>3, <3>1, <3>4, <4>1
      <4>2. CASE k # n
        <5>1. k \in 0 .. n - 1 /\ (k # 0 => k - 1 \in 0 .. n - 1)
          BY <3>1, <4>2
        <5>2. g[k] = IF k = 0 THEN value ELSE Without(g[k - 1], secrets[k])
          BY <3>3, <5>1 DEF Course
        <5> HIDE DEF f
        <5> QED BY <3>4, <5>1, <5>2
      <4> QED BY <4>1, <4>2
    <3>6. f = [k \in 0 .. n |-> f[k]]
      OBVIOUS
    <3> HIDE DEF f
    <3>7. Course(f, n, value, secrets)
      BY <3>5, <3>6 DEF Course
    <3> QED BY <3>7
  <2> QED BY <2>2, <2>3
<1>2. Has(Len(secrets))
  <2> HIDE DEF Has
  <2> QED BY <1>1
<1> DEFINE after == CHOOSE f : Course(f, Len(secrets), value, secrets)
<1>3. Course(after, Len(secrets), value, secrets)
  BY <1>2
<1>4. Replaced(value, secrets) = after[Len(secrets)]
  BY DEF Replaced, Course
<1> QED BY <1>3, <1>4

\* A word that is gone, and is not the placeholder, does not come back.
LEMMA StaysGone ==
  ASSUME NEW f, NEW n \in Nat, NEW value, NEW secrets, Course(f, n, value, secrets),
         NEW k \in 0 .. n, NEW x, x # Redacted, x \notin f[k]
  PROVE  x \notin f[n]
<1> DEFINE Back == {j \in k .. n : x \in f[j]}
<1>1. Back = {}
  <2> SUFFICES ASSUME Back # {} PROVE FALSE
    OBVIOUS
  <2>1. PICK j \in Back : \A i \in Back : j <= i
    <3>1. Back \subseteq Nat
      OBVIOUS
    <3> HIDE DEF Back
    <3> QED BY <3>1, Least
  <2>2. j \in k + 1 .. n
    OBVIOUS
  <2>3. j - 1 \in k .. n /\ ~(j <= j - 1) /\ j # 0 /\ j \in 0 .. n
    BY <2>2
  <2>4. x \notin f[j - 1]
    BY <2>1, <2>3
  <2>5. f[j] = Without(f[j - 1], secrets[j])
    BY <2>3 DEF Course
  <2> QED BY <2>4, <2>5 DEF Without
<1> QED BY <1>1

\* At the end no secret is left, unless the placeholder is part of it; and the
\* placeholder stays as it is.
LEMMA Cleared ==
  ASSUME NEW value, NEW secrets, Len(secrets) \in Nat
  PROVE  /\ \A k \in 1 .. Len(secrets) : Redacted \notin secrets[k] /\ secrets[k] # {} =>
              ~(secrets[k] \subseteq Replaced(value, secrets))
         /\ value = {Redacted} => Replaced(value, secrets) = {Redacted}
<1> DEFINE n == Len(secrets)
<1>1. PICK f : Course(f, n, value, secrets) /\ Replaced(value, secrets) = f[n]
  BY Replacing
<1>2. \A k \in 1 .. n : f[k] = Without(f[k - 1], secrets[k])
  BY <1>1 DEF Course
<1>3. f[0] = value
  BY <1>1 DEF Course
<1> HIDE DEF n
<1>4. ASSUME NEW k \in 1 .. n, Redacted \notin secrets[k], secrets[k] # {}
      PROVE  ~(secrets[k] \subseteq f[n])
  <2>1. PICK x \in secrets[k] : x \notin f[k]
    BY <1>2, <1>4 DEF Without
  <2>2. n \in Nat /\ k \in 0 .. n
    BY DEF n
  <2>3. x \notin f[n]
    BY <1>1, <1>4, <2>1, <2>2, StaysGone
  <2> QED BY <2>1, <2>3
<1>5. ASSUME value = {Redacted} PROVE f[n] = {Redacted}
  <2> DEFINE Other == {j \in 0 .. n : f[j] # {Redacted}}
  <2>1. Other = {}
    <3> SUFFICES ASSUME Other # {} PROVE FALSE
      OBVIOUS
    <3>1. PICK j \in Other : \A i \in Other : j <= i
      <4>1. Other \subseteq Nat
        OBVIOUS
      <4> HIDE DEF Other
      <4> QED BY <4>1, Least
    <3>2. j \in 1 .. n /\ j - 1 \in 0 .. n /\ ~(j <= j - 1)
      <4>1. n \in Nat /\ j # 0 /\ j \in 0 .. n
        BY <1>3, <1>5 DEF n
      <4> QED BY <4>1
    <3>3. f[j - 1] = {Redacted}
      BY <3>1, <3>2
    <3> QED BY <1>2, <3>2, <3>3 DEF Without
  <2> QED BY <2>1 DEF n
<1> QED BY <1>1, <1>4, <1>5 DEF n

\* The secrets of a list of evidence are finitely many.
LEMMA FewSecrets ==
  ASSUME NEW evidence \in Seq(Evidence)
  PROVE  IsFiniteSet(KnownSecrets(evidence))
<1> DEFINE D == {j \in DOMAIN evidence : evidence[j].is_secret}
           T == {evidence[i].value : i \in D}
           f == [i \in D |-> evidence[i].value]
<1>1. IsFiniteSet(D)
  <2>1. IsFiniteSet(1 .. Len(evidence)) /\ D \in SUBSET (1 .. Len(evidence))
    BY FS_Interval
  <2> HIDE DEF D
  <2> QED BY <2>1, FS_Subset
<1>2. f \in Surjection(D, T)
  BY DEF Surjection
<1>3. IsFiniteSet(T)
  <2> HIDE DEF D, T, f
  <2> QED BY <1>1, <1>2, FS_Surjection
<1>4. KnownSecrets(evidence) \in SUBSET T
  BY DEF KnownSecrets
<1> HIDE DEF T
<1> QED BY <1>3, <1>4, FS_Subset

\* An order of a finite set has each of its members in some place.
LEMMA Ordered ==
  ASSUME NEW S, IsFiniteSet(S), NEW order \in SetToSeqs(S)
  PROVE  Len(order) \in Nat /\ \A s \in S : \E k \in 1 .. Len(order) : order[k] = s
<1> DEFINE n == Cardinality(S)
<1>1. n \in Nat
  BY FS_CardinalityType
<1>2. order \in [1 .. n -> S] /\ \A i, j \in 1 .. n : i # j => order[i] # order[j]
  BY DEF SetToSeqs
<1>3. IsFiniteSet(1 .. n) /\ Cardinality(1 .. n) = n
  BY <1>1, FS_Interval
<1> HIDE DEF n
<1>4. order \in Injection(1 .. n, S)
  BY <1>2 DEF Injection, IsInjective
<1>5. order \in Surjection(1 .. n, S)
  <2>1. Cardinality(1 .. n) = Cardinality(S)
    BY <1>3 DEF n
  <2> QED BY <1>4, <2>1, FS_Injection, Zenon
<1>6. Len(order) = n
  BY <1>1, <1>2
<1> QED BY <1>1, <1>5, <1>6 DEF Surjection

\* What passes the residency gate after redaction may be sent, whatever the
\* order in which the secrets were replaced.
LEMMA Passing ==
  ASSUME NEW item, item.evidence \in Seq(Evidence),
         \A s \in KnownSecrets(item.evidence) : Redacted \notin s,
         NEW order \in SetToSeqs(KnownSecrets(item.evidence)), NEW ref,
         Allowed(Redact(item.evidence, order), ref)
  PROVE  Sendable(item, Redact(item.evidence, order))
<1> DEFINE evidence == item.evidence
           sent == Redact(evidence, order)
<1>1. Len(order) \in Nat /\ \A s \in KnownSecrets(evidence) : \E k \in 1 .. Len(order) : order[k] = s
  BY FewSecrets, Ordered
<1>2. \A s \in KnownSecrets(evidence) : Redacted \notin s /\ s # {}
  BY DEF KnownSecrets
<1>3. \A i \in DOMAIN evidence : evidence[i] \in Evidence
  OBVIOUS
<1>4. DOMAIN sent = DOMAIN evidence
  BY DEF Redact
<1> SUFFICES ASSUME NEW i \in DOMAIN evidence
             PROVE  /\ sent[i].value \cap Personal = {}
                    /\ \A s \in KnownSecrets(evidence) : ~(s \subseteq sent[i].value)
                    /\ sent[i].key = "secret" => sent[i].value = {Redacted}
  BY <1>4 DEF Sendable
<1> DEFINE e == ByKey(evidence[i])
<1>5. /\ DOMAIN e = {"locator", "key", "is_secret", "value"}
      /\ e.key = "secret" => e.value = {Redacted}
  BY <1>3 DEF Evidence, ByKey
<1>6. sent[i] = [e EXCEPT !.value = Replaced(e.value, order)]
  BY DEF Redact
<1> HIDE DEF e
<1>7. sent[i].value = Replaced(e.value, order) /\ sent[i].key = e.key
  BY <1>5, <1>6
<1>8. sent[i].value \cap Personal = {}
  BY <1>4 DEF Allowed
<1> HIDE DEF sent, evidence
<1>9. /\ \A k \in 1 .. Len(order) : Redacted \notin order[k] /\ order[k] # {} =>
           ~(order[k] \subseteq sent[i].value)
      /\ e.value = {Redacted} => sent[i].value = {Redacted}
  BY <1>1, <1>7, Cleared
<1> QED BY <1>1, <1>2, <1>5, <1>7, <1>8, <1>9

-----------------------------------------------------------------------------
(***************************************************************************)
(* Types.                                                                  *)
(***************************************************************************)
Ats == {"judging", "asking", "answered", "judged", "stored", "failed", "killed"}

\* What a build has for its whole time.
Same == UNCHANGED <<build.n, build.index, build.disk, build.items>>

\* The fields of a build that runs.
LEMMA BuildFacts ==
  ASSUME build \in Build
  PROVE  /\ build.at \in Ats /\ build.n \in Nat /\ build.index \in Indexes /\ build.disk \in BOOLEAN
         /\ build.items \in Seq(Item) /\ build.next \in Nat \ {0}
         /\ build.kept \in Seq(Kept) /\ build.edges \in Seq(Found) /\ build.asked \in Nat
         /\ build.refused \in BOOLEAN /\ build.response \in Response \cup {NoEntry}
BY DEF Build, Ats

\* It stops or ends.
LEMMA Moving ==
  ASSUME build \in Build, NEW a \in Ats, build' = [build EXCEPT !.at = a]
  PROVE  /\ build' \in Build /\ build'.at = a /\ Same
         /\ UNCHANGED <<build.next, build.kept, build.edges, build.response>>
BY DEF Build, Ats, Same

\* It is answered.
LEMMA Answering ==
  ASSUME build \in Build, NEW r \in Response,
         build' = [build EXCEPT !.at = "answered", !.response = r]
  PROVE  /\ build' \in Build /\ build'.at = "answered" /\ build'.response = r /\ Same
         /\ UNCHANGED <<build.next, build.kept, build.edges>>
<1>1. \A x \in Response :
        LET b == [build EXCEPT !.at = "answered", !.response = x]
        IN  /\ b \in Build /\ b.at = "answered" /\ b.response = x
            /\ b.n = build.n /\ b.index = build.index /\ b.disk = build.disk /\ b.items = build.items
            /\ b.next = build.next /\ b.kept = build.kept /\ b.edges = build.edges
  BY DEF Build
<1> QED BY <1>1 DEF Same

\* An item of it stays.
LEMMA Keeping ==
  ASSUME build \in Build, NEW reason \in Reasons, Keep(reason) \/ Refuse(reason)
  PROVE  /\ build' \in Build /\ build'.at = "judging" /\ Same
         /\ build'.next = build.next + 1 /\ build'.edges = build.edges
         /\ build'.kept = Append(build.kept, [of |-> build.next, reason |-> reason])
<1> DEFINE kept == Append(build.kept, [of |-> build.next, reason |-> reason])
<1>1. kept \in Seq(Kept) /\ build.next + 1 \in Nat \ {0}
  <2>1. [of |-> build.next, reason |-> reason] \in Kept
    BY BuildFacts DEF Kept
  <2> QED BY <2>1, BuildFacts
<1>2. \A m \in Nat \ {0}, ks \in Seq(Kept) :
        LET b == [build EXCEPT !.at = "judging", !.next = m, !.kept = ks]
        IN  /\ b \in Build /\ b.at = "judging" /\ b.next = m /\ b.kept = ks /\ b.edges = build.edges
            /\ b.n = build.n /\ b.index = build.index /\ b.disk = build.disk /\ b.items = build.items
  BY DEF Build
<1>3. \A m \in Nat \ {0}, ks \in Seq(Kept) :
        LET b == [build EXCEPT !.at = "judging", !.next = m, !.refused = TRUE, !.kept = ks]
        IN  /\ b \in Build /\ b.at = "judging" /\ b.next = m /\ b.kept = ks /\ b.edges = build.edges
            /\ b.n = build.n /\ b.index = build.index /\ b.disk = build.disk /\ b.items = build.items
  BY DEF Build
<1>4. CASE Keep(reason)
  <2>1. build' = [build EXCEPT !.at = "judging", !.next = build.next + 1, !.kept = kept]
    BY <1>4 DEF Keep
  <2> HIDE DEF kept
  <2>2. /\ build' \in Build /\ build'.at = "judging" /\ Same
        /\ build'.next = build.next + 1 /\ build'.edges = build.edges /\ build'.kept = kept
    BY <1>1, <1>2, <2>1 DEF Same
  <2> QED BY <2>2 DEF kept
<1>5. CASE Refuse(reason)
  <2>1. build' = [build EXCEPT !.at = "judging", !.next = build.next + 1, !.refused = TRUE, !.kept = kept]
    BY <1>5 DEF Refuse
  <2> HIDE DEF kept
  <2>2. /\ build' \in Build /\ build'.at = "judging" /\ Same
        /\ build'.next = build.next + 1 /\ build'.edges = build.edges /\ build'.kept = kept
    BY <1>1, <1>3, <2>1 DEF Same
  <2> QED BY <2>2 DEF kept
<1> QED BY <1>4, <1>5

\* An item of it becomes an edge.
LEMMA Accepting ==
  ASSUME build \in Build, NEW edge \in Found,
         build' = [build EXCEPT !.at = "judging", !.next = @ + 1, !.edges = Append(@, edge)]
  PROVE  /\ build' \in Build /\ build'.at = "judging" /\ Same
         /\ build'.next = build.next + 1 /\ build'.kept = build.kept
         /\ build'.edges = Append(build.edges, edge)
<1>1. Append(build.edges, edge) \in Seq(Found) /\ build.next + 1 \in Nat \ {0}
  BY BuildFacts
<1>2. \A m \in Nat \ {0}, es \in Seq(Found) :
        LET b == [build EXCEPT !.at = "judging", !.next = m, !.edges = es]
        IN  /\ b \in Build /\ b.at = "judging" /\ b.next = m /\ b.edges = es /\ b.kept = build.kept
            /\ b.n = build.n /\ b.index = build.index /\ b.disk = build.disk /\ b.items = build.items
  BY DEF Build
<1> QED BY <1>1, <1>2 DEF Same

\* It asks.
LEMMA Asking ==
  ASSUME build \in Build, NEW order, Ask(order)
  PROVE  /\ build' \in Build /\ build'.at = "asking" /\ Same
         /\ UNCHANGED <<build.next, build.kept, build.edges>>
<1>1. build.asked + 1 \in Nat
  BY BuildFacts
<1>2. \A m \in Nat :
        LET b == [build EXCEPT !.at = "asking", !.asked = m]
        IN  /\ b \in Build /\ b.at = "asking" /\ b.next = build.next
            /\ b.kept = build.kept /\ b.edges = build.edges
            /\ b.n = build.n /\ b.index = build.index /\ b.disk = build.disk /\ b.items = build.items
  BY DEF Build
<1>3. build' = [build EXCEPT !.at = "asking", !.asked = build.asked + 1]
  BY DEF Ask
<1> QED BY <1>1, <1>2, <1>3 DEF Same

\* A proposal of a valid answer is a text that the index can be asked for: no
\* number and nothing missing.
LEMMA Proposals ==
  ASSUME Current \in Item, Current.type \in Contracts, build.response \in Response,
         Valid, Proposed # Null
  PROVE  Proposed \in Values
<1> DEFINE r == build.response
<1>1. r.value \in Values \cup {"absent", Null, "blank", "number"}
      /\ r.decision \in {"keep-ambiguous", "ground-to-candidate", "other"}
      /\ Current.raw \in Values \cup {Null}
  BY DEF Response, Item
<1> HIDE DEF r
<1>2. ~Raises(Current.type, r) /\ ~Malformed(Current.type, r)
      /\ Proposed = Proposal(Current.type, r, Current.raw)
  BY DEF Valid, Proposed, r
<1>3. CASE Current.type = "AMBIGUOUS_MATCH"
  BY <1>1, <1>2, <1>3 DEF Raises, Malformed, BadMatch, Proposal
<1>4. CASE Current.type = "UNRESOLVED_REF"
  BY <1>1, <1>2, <1>4 DEF Malformed, BadRef, Proposal
<1>5. CASE Current.type = "IDENTITY_CLASS"
  BY <1>1, <1>2, <1>5 DEF Proposal
<1> QED BY <1>3, <1>4, <1>5 DEF Contracts

\* What is accepted leads to a repository that owns the proposal in the index.
LEMMA Accepted ==
  ASSUME build \in Build, Current \in Item, Current.type \in Contracts, build.response \in Response,
         Accept
  PROVE  LET edge == [of |-> build.next, from |-> Current.from, to |-> NameOf[Head(Owners)],
                      env |-> Current.env]
         IN  /\ edge \in Found
             /\ build' \in Build /\ build'.at = "judging" /\ Same
             /\ build'.next = build.next + 1 /\ build'.kept = build.kept
             /\ build'.edges = Append(build.edges, edge)
             /\ Proposed \in Values
             /\ 1 \in DOMAIN build.index[Proposed][edge.env]
             /\ edge.to = NameOf[build.index[Proposed][edge.env][1]]
<1>1. Proposed \in Values /\ Owners # <<>>
  BY Proposals DEF Accept
<1>2. build.index \in Index /\ Current.env \in Envs /\ Current.from \in Repos \cup {""}
  BY BuildFacts, IndexAssumption DEF Item
<1>3. Owners = build.index[Proposed][Current.env] /\ Owners \in Seq(Repos)
  BY <1>1, <1>2 DEF Owners, Index, Accept
<1>4. Head(Owners) = Owners[1] /\ Head(Owners) \in Repos /\ 1 \in DOMAIN Owners
  BY <1>1, <1>3
<1> DEFINE edge == [of |-> build.next, from |-> Current.from, to |-> NameOf[Head(Owners)],
                    env |-> Current.env]
<1>5. edge \in Found
  BY <1>2, <1>4, BuildFacts DEF Found
<1>6. build' = [build EXCEPT !.at = "judging", !.next = @ + 1, !.edges = Append(@, edge)]
  BY DEF Accept
<1>7. edge.env = Current.env /\ edge.to = NameOf[Head(Owners)]
  OBVIOUS
<1> HIDE DEF edge
<1>8. /\ build' \in Build /\ build'.at = "judging" /\ Same
      /\ build'.next = build.next + 1 /\ build'.kept = build.kept
      /\ build'.edges = Append(build.edges, edge)
  BY <1>5, <1>6, Accepting
<1>9. edge = [of |-> build.next, from |-> Current.from, to |-> NameOf[Head(Owners)], env |-> Current.env]
  BY DEF edge
<1> QED BY <1>1, <1>3, <1>4, <1>5, <1>7, <1>8, <1>9

\* How a build may go on from where it stands: it moves within an item or ends,
\* or the item stays, or becomes an edge that the index knows of.
Moves ==
  /\ UNCHANGED <<build.next, build.kept, build.edges>>
  /\ build'.at = "judged" => build.next \notin DOMAIN build.items
  /\ build'.at \in {"asking", "answered"} =>
       build.next \in DOMAIN build.items /\ Current.type \in Contracts
  /\ build'.at = "answered" => build'.response \in Response

\* The item is kept with a reason.
Stays ==
  /\ build'.at = "judging" /\ build.next \in DOMAIN build.items
  /\ build'.next = build.next + 1 /\ build'.edges = build.edges
  /\ \E reason \in Reasons : build'.kept = Append(build.kept, [of |-> build.next, reason |-> reason])

\* It becomes an edge to an owner that the index has for a text.
Becomes ==
  /\ build'.at = "judging" /\ build.next \in DOMAIN build.items
  /\ build'.next = build.next + 1 /\ build'.kept = build.kept
  /\ \E edge \in Found, v \in Values :
       /\ edge.of = build.next /\ build'.edges = Append(build.edges, edge)
       /\ 1 \in DOMAIN build.index[v][edge.env] /\ edge.to = NameOf[build.index[v][edge.env][1]]

\* A build begins.
Starts == \E index \in Indexes, disk, reversed \in BOOLEAN : Begin(index, disk, reversed)

\* Those are all its steps, for as long as it has the index, disk and items it began
\* with.
LEMMA Steps ==
  ASSUME TypeOK, [Next]_vars
  PROVE  \/ UNCHANGED build
         \/ Starts
         \/ build \in Build /\ build' \in Build /\ Same /\ (Moves \/ Stays \/ Becomes)
<1> DEFINE Goal == \/ UNCHANGED build
                   \/ Starts
                   \/ build \in Build /\ build' \in Build /\ Same /\ (Moves \/ Stays \/ Becomes)
<1> SUFFICES ASSUME build.at # "none", ~Starts PROVE Goal
  <2>1. CASE build.at = "none"
    BY <2>1 DEF Next, Starts, vars, NoChoice, Judging, Admitted, Answered, Refuse, Raise, Discard, NoProposal,
                Ungrounded, Accept, Finish, Persist, Kill, Running, KillInPut, SkipSecret, OverBudget
  <2> QED BY <2>1
<1>1. build \in Build
  BY DEF TypeOK, NoBuild
<1>2. \A i \in DOMAIN build.items : build.items[i] \in Item
  BY <1>1, BuildFacts
<1>3. ASSUME NEW reason \in Reasons, build.next \in DOMAIN build.items, Keep(reason) \/ Refuse(reason)
      PROVE  Goal
  BY <1>1, <1>3, Keeping DEF Stays
<1>4. ASSUME NEW a \in Ats \ {"judged", "asking", "answered"}, build' = [build EXCEPT !.at = a]
      PROVE  Goal
  BY <1>1, <1>4, Moving DEF Moves
<1>5. build.at \in {"asking", "answered"} => build.next \in DOMAIN build.items /\ Current.type \in Contracts
  BY DEF TypeOK
<1>6. Answered => build.response \in Response
  BY DEF TypeOK
<1>7. Judging \/ Admitted => Current \in Item /\ build.next \in DOMAIN build.items
  BY <1>2 DEF Judging, Admitted, Current
<1>8. Answered => Current \in Item /\ build.next \in DOMAIN build.items
  BY <1>2, <1>5 DEF Answered, Current
<1>9. \A item \in Item : item.reason \in Reasons
  BY DEF Item, Reasons
<1> HIDE DEF Goal
<1>10. CASE SkipSecret \/ OverBudget
  BY <1>3, <1>7, <1>10 DEF SkipSecret, OverBudget, Reasons
<1>11. ASSUME NEW order \in Orders, Admitted, Block(order) \/ NoContract(order) PROVE Goal
  BY <1>3, <1>7, <1>9, <1>11 DEF Block, NoContract, Reasons
<1>12. ASSUME NEW order \in Orders, Admitted, Hit(order) PROVE Goal
  <2> DEFINE r == Cached(Key(Current))
  <2>1. r \in Response
    BY <1>12 DEF Hit, Cached, TypeOK
  <2>2. build' = [build EXCEPT !.at = "answered", !.response = r] /\ Current.type \in Contracts
    BY <1>12 DEF Hit
  <2> HIDE DEF r
  <2> QED BY <1>1, <1>7, <1>12, <2>1, <2>2, Answering DEF Moves, Goal
<1>13. ASSUME NEW order \in Orders, Admitted, Ask(order) PROVE Goal
  <2>1. Current.type \in Contracts
    BY <1>13 DEF Ask
  <2> QED BY <1>1, <1>7, <1>13, <2>1, Asking DEF Moves, Goal
<1>14. ASSUME build.at = "asking", NEW r \in Answers[Current.type], Respond(r) PROVE Goal
  <2>1. r \in Response
    BY <1>5, <1>14, AnswerAssumption
  <2> QED BY <1>1, <1>5, <1>14, <2>1, Answering DEF Respond, Moves, Goal
<1>15. ASSUME NEW reason \in Refusals, Refuse(reason) PROVE Goal
  BY <1>3, <1>5, <1>15 DEF Refuse, Refusals, Reasons
<1>16. CASE Raise \/ Kill \/ KillInPut
  BY <1>4, <1>16 DEF Raise, Kill, KillInPut, Ats
<1>17. CASE Discard \/ NoProposal \/ Ungrounded
  BY <1>3, <1>8, <1>9, <1>17 DEF Discard, NoProposal, Ungrounded, Reasons, Refusals
<1>18. CASE Accept
  <2>1. Current \in Item /\ Current.type \in Contracts /\ build.response \in Response
        /\ build.next \in DOMAIN build.items
    BY <1>5, <1>6, <1>8, <1>18 DEF Accept, Answered
  <2>2. Becomes /\ build' \in Build /\ Same
    BY <1>1, <1>18, <2>1, Accepted DEF Becomes
  <2> QED BY <1>1, <2>2 DEF Goal
<1>19. CASE Finish
  BY <1>1, <1>19, Moving DEF Finish, Moves, Ats, Goal
<1>20. CASE Persist
  BY <1>4, <1>20 DEF Persist, Ats
<1>21. CASE UNCHANGED vars
  BY <1>21 DEF vars, Goal
<1> QED BY <1>10, <1>11, <1>12, <1>13, <1>14, <1>15, <1>16, <1>17, <1>18, <1>19, <1>20, <1>21
        DEF Next, Starts, Goal

\* Lists of the same evidence have the same secrets.
LEMMA SameSecrets ==
  ASSUME NEW s, NEW t, \A j \in DOMAIN s : \E k \in DOMAIN t : s[j] = t[k]
  PROVE  KnownSecrets(s) \subseteq KnownSecrets(t)
<1> SUFFICES ASSUME NEW v \in KnownSecrets(s) PROVE v \in KnownSecrets(t)
  OBVIOUS
<1>1. PICK j \in DOMAIN s : s[j].is_secret /\ v = s[j].value /\ v # {}
  BY DEF KnownSecrets
<1>2. PICK k \in DOMAIN t : s[j] = t[k]
  OBVIOUS
<1> QED BY <1>1, <1>2 DEF KnownSecrets

\* What a build starts with.
LEMMA Starting ==
  ASSUME TypeOK, NEW index \in Indexes, NEW disk \in BOOLEAN, NEW reversed \in BOOLEAN,
         Begin(index, disk, reversed)
  PROVE  /\ build' \in Build /\ build'.at = "judging" /\ build'.next = 1
         /\ build'.kept = <<>> /\ build'.edges = <<>>
         /\ items' = items /\ DOMAIN build'.items = DOMAIN items
         /\ \A i \in DOMAIN items :
              KnownSecrets(build'.items[i].evidence) = KnownSecrets(items[i].evidence)
<1>1. items \in Seq(Item)
  BY ItemsAssumption DEF TypeOK
<1> DEFINE Turned(i) == IF reversed THEN [items[i] EXCEPT !.evidence = Reverse(@)] ELSE items[i]
           turned == [i \in DOMAIN items |-> Turned(i)]
<1>2. ASSUME NEW i \in DOMAIN items
      PROVE  /\ Turned(i) \in Item
             /\ KnownSecrets(Turned(i).evidence) = KnownSecrets(items[i].evidence)
  <2> DEFINE evidence == items[i].evidence
             n == Len(evidence)
  <2>1. items[i] \in Item /\ evidence \in Seq(Evidence) /\ n \in Nat /\ DOMAIN evidence = 1 .. n
    <3>1. items[i] \in Item
      BY <1>1
    <3>2. items[i].evidence \in Seq(Evidence)
      BY <3>1 DEF Item
    <3> QED BY <3>1, <3>2
  <2>2. /\ Reverse(evidence) = [j \in 1 .. n |-> evidence[n - j + 1]]
        /\ \A j \in 1 .. n : n - j + 1 \in 1 .. n /\ n - (n - j + 1) + 1 = j
    BY <2>1 DEF Reverse
  <2> HIDE DEF evidence, n
  <2>3. Reverse(evidence) \in Seq(Evidence)
    <3>1. \A j \in 1 .. n : evidence[n - j + 1] \in Evidence
      BY <2>1, <2>2
    <3> QED BY <2>1, <2>2, <3>1
  <2>4. KnownSecrets(Reverse(evidence)) = KnownSecrets(evidence)
    <3>1. DOMAIN Reverse(evidence) = 1 .. n
      BY <2>2
    <3>2. \A j \in 1 .. n : \E k \in 1 .. n : Reverse(evidence)[j] = evidence[k]
      BY <2>2
    <3>3. \A j \in 1 .. n : \E k \in 1 .. n : evidence[j] = Reverse(evidence)[k]
      <4>1. \A j \in 1 .. n : Reverse(evidence)[n - j + 1] = evidence[j]
        BY <2>2
      <4> QED BY <2>2, <4>1
    <3>4. KnownSecrets(Reverse(evidence)) \subseteq KnownSecrets(evidence)
      BY <2>1, <3>1, <3>2, SameSecrets
    <3>5. KnownSecrets(evidence) \subseteq KnownSecrets(Reverse(evidence))
      BY <2>1, <3>1, <3>3, SameSecrets
    <3> QED BY <3>4, <3>5
  <2>5. \A v \in Seq(Evidence) : /\ [items[i] EXCEPT !.evidence = v] \in Item
                                 /\ [items[i] EXCEPT !.evidence = v].evidence = v
    BY <2>1 DEF Item
  <2> QED BY <2>1, <2>3, <2>4, <2>5 DEF evidence
<1>3. turned \in Seq(Item) /\ DOMAIN turned = DOMAIN items
  <2>1. DOMAIN items = 1 .. Len(items) /\ Len(items) \in Nat
    BY <1>1
  <2> HIDE DEF Turned
  <2> QED BY <1>2, <2>1
<1>4. \A i \in DOMAIN items : KnownSecrets(turned[i].evidence) = KnownSecrets(items[i].evidence)
  BY <1>2
<1>5. build.n + 1 \in Nat
  BY DEF TypeOK, NoBuild, Build
<1>6. build' = [at |-> "judging", n |-> build.n + 1, index |-> index, disk |-> disk, items |-> turned,
                next |-> 1, kept |-> <<>>, edges |-> <<>>, asked |-> 0, refused |-> FALSE,
                response |-> NoEntry]
  BY DEF Begin
<1> HIDE DEF turned
<1>7. build' \in Build
  BY <1>3, <1>5, <1>6 DEF Build
<1>8. items' = items
  BY DEF Begin
<1> QED BY <1>3, <1>4, <1>6, <1>7, <1>8

\* The items are the same in every build.
LEMMA SameItems == [Next]_vars => items' = items
BY DEF Next, vars, Begin, SkipSecret, OverBudget, Block, NoContract, Hit, Ask, Respond, Refuse, Raise,
       Discard, NoProposal, Ungrounded, Accept, Finish, Persist, Kill, KillInPut

\* What is put into the cache is all that changes there.
LEMMA Putting ==
  ASSUME TypeOK, NEW entry \in Response \cup {Broken}, Put(entry)
  PROVE  \A key \in DOMAIN cache' : cache'[key] \in Response \cup {Broken}
<1>1. \A key \in DOMAIN cache : cache[key] \in Response \cup {Broken}
  BY DEF TypeOK
<1> DEFINE key == Key(Current)
           more == [k \in DOMAIN cache \cup {key} |-> IF k = key THEN entry ELSE cache[k]]
<1>2. cache' = cache \/ cache' = more
  BY DEF Put
<1> HIDE DEF key
<1>3. \A k \in DOMAIN more : more[k] \in Response \cup {Broken}
  BY <1>1
<1> QED BY <1>1, <1>2, <1>3

\* Every step keeps the types.
LEMMA TypeStep == TypeOK /\ [Next]_vars => TypeOK'
<1> SUFFICES ASSUME TypeOK, [Next]_vars PROVE TypeOK'
  OBVIOUS
<1>1. items' \in Inputs
  BY SameItems DEF TypeOK
<1>2. \A key \in DOMAIN cache' : cache'[key] \in Response \cup {Broken}
  <2> DEFINE Good == \A key \in DOMAIN cache' : cache'[key] \in Response \cup {Broken}
  <2> SUFFICES Good
    OBVIOUS
  <2>1. CASE cache' = cache
    BY <2>1 DEF TypeOK
  <2>2. ASSUME build.at = "asking", NEW r \in Answers[Current.type], Respond(r) PROVE Good
    <3>1. r \in Response
      <4>1. Current.type \in Contracts
        BY <2>2 DEF TypeOK
      <4> QED BY <2>2, <4>1, AnswerAssumption
    <3>2. Put(r)
      BY <2>2 DEF Respond
    <3> QED BY <3>1, <3>2, Putting
  <2>3. CASE KillInPut
    <3>1. Put(Broken)
      BY <2>3 DEF KillInPut
    <3> QED BY <3>1, Putting
  <2> HIDE DEF Good
  <2> QED BY <2>1, <2>2, <2>3
          DEF Next, vars, Begin, SkipSecret, OverBudget, Block, NoContract, Hit, Ask, Refuse, Raise,
              Discard, NoProposal, Ungrounded, Accept, Finish, Persist, Kill
<1>3. traces' \in Nat
  <2>1. traces \in Nat /\ traces + 1 \in Nat
    BY DEF TypeOK
  <2>2. traces' \in {traces, traces + 1}
    BY DEF NewTrace, Next, vars, Begin, SkipSecret, OverBudget, Block, NoContract, Hit, Ask, Respond,
           Refuse, Raise, Discard, NoProposal, Ungrounded, Accept, Finish, Persist, Kill, KillInPut
  <2> QED BY <2>1, <2>2
<1>4. /\ build' = NoBuild \/ build' \in Build
      /\ build'.at \in {"asking", "answered"} =>
           build'.next \in DOMAIN build'.items /\ Current'.type \in Contracts
      /\ build'.at = "answered" => build'.response \in Response
  <2>1. CASE UNCHANGED build
    BY <2>1 DEF TypeOK, Current, Answered
  <2>2. CASE Starts
    BY <2>2, Starting DEF Starts
  <2>3. CASE build \in Build /\ build' \in Build /\ Same /\ (Moves \/ Stays \/ Becomes)
    BY <2>3 DEF Same, Moves, Stays, Becomes, Current
  <2> QED BY <2>1, <2>2, <2>3, Steps
<1>5. stored' \subseteq [from : Repos, to : {NameOf[r] : r \in Repos}, env : Envs]
  <2>1. CASE stored' = stored
    BY <2>1 DEF TypeOK
  <2>2. CASE Persist /\ stored' # stored
    <3>1. build \in Build
      <4>1. build.at = "judged"
        BY <2>2 DEF Persist
      <4> QED BY <4>1 DEF TypeOK, NoBuild
    <3>2. build.edges \in Seq(Found)
      BY <3>1, BuildFacts
    <3>3. \A i \in DOMAIN build.edges : build.edges[i] \in Found
      BY <3>2
    <3>4. \A i \in DOMAIN build.edges : build.edges[i].from # ""
      BY <2>2 DEF Persist
    <3>5. stored' = stored \cup {StoreEdge(build.edges[i]) : i \in DOMAIN build.edges}
      BY <2>2, <3>4 DEF Persist
    <3>6. \A e \in Found : e.from # "" =>
            StoreEdge(e) \in [from : Repos, to : {NameOf[r] : r \in Repos}, env : Envs]
      BY DEF StoreEdge, Found
    <3>7. stored \subseteq [from : Repos, to : {NameOf[r] : r \in Repos}, env : Envs]
      BY DEF TypeOK
    <3> QED BY <3>3, <3>4, <3>5, <3>6, <3>7
  <2> QED BY <2>1, <2>2
          DEF Next, vars, Begin, SkipSecret, OverBudget, Block, NoContract, Hit, Ask, Respond, Refuse,
              Raise, Discard, NoProposal, Ungrounded, Accept, Finish, Kill, KillInPut
<1> QED BY <1>1, <1>2, <1>3, <1>4, <1>5 DEF TypeOK, Answered

\* The judge stays within its types: what it accepts has owners, and what it
\* stores comes from a repository (LLMJudge._process_item, _graph_build).
THEOREM Typed == Spec => []TypeOK
<1>1. Init => TypeOK
  BY DEF Init, TypeOK, NoBuild, Answered
<1> QED BY <1>1, TypeStep, PTL DEF Spec

-----------------------------------------------------------------------------
(***************************************************************************)
(* Items.                                                                  *)
(***************************************************************************)
\* The items before `next' were consumed, each in one way and once, and no
\* other was; and a pass ends when there is none left.
CountInv ==
  build \in Build =>
    /\ \A k \in DOMAIN build.kept : build.kept[k].of < build.next
    /\ \A k \in DOMAIN build.edges : build.edges[k].of < build.next
    /\ Once(build.kept) /\ Once(build.edges)
    /\ \A i \in 1 .. build.next - 1 : Among(build.kept, i) <=> ~Among(build.edges, i)
    /\ build.at = "judged" => build.next \notin DOMAIN build.items

\* What is appended for the next item is the only entry for it.
LEMMA Appended ==
  ASSUME NEW T, NEW seq \in Seq(T), NEW x \in T, NEW n \in Nat, x.of = n,
         \A y \in T : y.of \in Nat,
         \A k \in DOMAIN seq : seq[k].of < n, Once(seq)
  PROVE  /\ \A k \in DOMAIN Append(seq, x) : Append(seq, x)[k].of < n + 1
         /\ Once(Append(seq, x))
         /\ \A i : Among(Append(seq, x), i) <=> Among(seq, i) \/ i = n
         /\ ~Among(seq, n)
<1> DEFINE more == Append(seq, x)
<1>1. /\ DOMAIN seq = 1 .. Len(seq) /\ Len(seq) \in Nat
      /\ DOMAIN more = 1 .. Len(seq) + 1
      /\ \A k \in DOMAIN seq : more[k] = seq[k]
      /\ more[Len(seq) + 1] = x
      /\ \A k \in DOMAIN seq : seq[k].of \in Nat
  OBVIOUS
<1>2. \A k \in DOMAIN more : k \in DOMAIN seq \/ k = Len(seq) + 1
  BY <1>1
<1>3. DOMAIN seq \subseteq DOMAIN more /\ Len(seq) + 1 \in DOMAIN more
  BY <1>1
<1> HIDE DEF more
<1>4. \A k \in DOMAIN more : more[k].of < n + 1
  BY <1>1, <1>2
<1>5. \A k \in DOMAIN seq : seq[k].of # n
  BY <1>1
<1>6. Once(more)
  BY <1>1, <1>2, <1>5 DEF Once
<1>7. \A i : Among(more, i) <=> Among(seq, i) \/ i = n
  BY <1>1, <1>2, <1>3 DEF Among
<1>8. ~Among(seq, n)
  BY <1>5 DEF Among
<1> QED BY <1>4, <1>6, <1>7, <1>8 DEF more

\* Each way through an item appends to one list and moves on by one.
LEMMA CountSteps == CountInv /\ TypeOK /\ [Next]_vars => CountInv'
<1> SUFFICES ASSUME CountInv, TypeOK, [Next]_vars, build' \in Build PROVE CountInv'
  BY DEF CountInv
<1>1. CASE UNCHANGED build
  BY <1>1 DEF CountInv
<1>2. CASE Starts
  <2>1. build'.at = "judging" /\ build'.next = 1 /\ build'.kept = <<>> /\ build'.edges = <<>>
    BY <1>2, Starting DEF Starts
  <2> QED BY <2>1 DEF CountInv, Once
<1>3. ASSUME build \in Build, Same, Moves \/ Stays \/ Becomes PROVE CountInv'
  <2>1. /\ build.next \in Nat \ {0} /\ build.kept \in Seq(Kept) /\ build.edges \in Seq(Found)
        /\ \A k \in DOMAIN build.kept : build.kept[k].of \in Nat
        /\ \A k \in DOMAIN build.edges : build.edges[k].of \in Nat
    <3>1. build.next \in Nat \ {0} /\ build.kept \in Seq(Kept) /\ build.edges \in Seq(Found)
      BY <1>3, BuildFacts
    <3>2. \A k \in DOMAIN build.kept : build.kept[k] \in Kept
      BY <3>1
    <3>3. \A k \in DOMAIN build.edges : build.edges[k] \in Found
      BY <3>1
    <3> QED BY <3>1, <3>2, <3>3 DEF Kept, Found
  <2>2. /\ \A k \in DOMAIN build.kept : build.kept[k].of < build.next
        /\ \A k \in DOMAIN build.edges : build.edges[k].of < build.next
        /\ Once(build.kept) /\ Once(build.edges)
        /\ \A i \in 1 .. build.next - 1 : Among(build.kept, i) <=> ~Among(build.edges, i)
    BY <1>3 DEF CountInv
  <2>3. CASE Moves
    BY <1>3, <2>2, <2>3 DEF Moves, Same, CountInv
  <2>4. \A i \in 1 .. build.next : i \in 1 .. build.next - 1 \/ i = build.next
    BY <2>1
  <2>5. (\A x \in Kept : x.of \in Nat) /\ \A x \in Found : x.of \in Nat
    BY DEF Kept, Found
  <2>6. CASE Stays
    <3>1. PICK reason \in Reasons : build'.kept = Append(build.kept, [of |-> build.next, reason |-> reason])
      BY <2>6 DEF Stays
    <3> DEFINE x == [of |-> build.next, reason |-> reason]
    <3>2. x \in Kept /\ x.of = build.next
      BY <2>1 DEF Kept
    <3>3. build'.kept = Append(build.kept, x)
      BY <3>1
    <3> HIDE DEF x
    <3>4. /\ \A k \in DOMAIN build'.kept : build'.kept[k].of < build.next + 1
          /\ Once(build'.kept)
          /\ \A i : Among(build'.kept, i) <=> Among(build.kept, i) \/ i = build.next
      <4>1. build.next \in Nat
        BY <2>1
      <4>2. build.kept \in Seq(Kept) /\ Once(build.kept) /\ \A y \in Kept : y.of \in Nat
        BY <2>1, <2>2, <2>5
      <4>3. \A k \in DOMAIN build.kept : build.kept[k].of < build.next
        BY <2>2
      <4>4. /\ \A k \in DOMAIN Append(build.kept, x) : Append(build.kept, x)[k].of < build.next + 1
            /\ Once(Append(build.kept, x))
            /\ \A i : Among(Append(build.kept, x), i) <=> Among(build.kept, i) \/ i = build.next
        BY <3>2, <4>1, <4>2, <4>3, Appended, Zenon
      <4> QED BY <3>3, <4>4
    <3>5. ~Among(build.edges, build.next)
      BY <2>1, <2>2 DEF Among
    <3>6. build'.next = build.next + 1 /\ build'.edges = build.edges /\ build'.at = "judging"
      BY <2>6 DEF Stays
    <3>7. \A i \in 1 .. build'.next - 1 : Among(build'.kept, i) <=> ~Among(build'.edges, i)
      <4>1. build'.next - 1 = build.next
        BY <2>1, <3>6
      <4> QED BY <2>2, <2>4, <3>4, <3>5, <3>6, <4>1
    <3>8. \A k \in DOMAIN build.edges : build.edges[k].of < build.next + 1
      BY <2>1, <2>2
    <3> QED BY <2>2, <3>4, <3>6, <3>7, <3>8 DEF CountInv
  <2>7. CASE Becomes
    <3>1. PICK x \in Found : x.of = build.next /\ build'.edges = Append(build.edges, x)
      BY <2>7 DEF Becomes
    <3>2. /\ \A k \in DOMAIN build'.edges : build'.edges[k].of < build.next + 1
          /\ Once(build'.edges)
          /\ \A i : Among(build'.edges, i) <=> Among(build.edges, i) \/ i = build.next
      BY <2>1, <2>2, <2>5, <3>1, Appended
    <3>3. ~Among(build.kept, build.next)
      BY <2>1, <2>2 DEF Among
    <3>4. build'.next = build.next + 1 /\ build'.kept = build.kept /\ build'.at = "judging"
      BY <2>7 DEF Becomes
    <3>5. \A i \in 1 .. build'.next - 1 : Among(build'.kept, i) <=> ~Among(build'.edges, i)
      <4>1. build'.next - 1 = build.next
        BY <2>1, <3>4
      <4> QED BY <2>2, <2>4, <3>2, <3>3, <3>4, <4>1
    <3>6. \A k \in DOMAIN build.kept : build.kept[k].of < build.next + 1
      BY <2>1, <2>2
    <3> QED BY <2>2, <3>2, <3>4, <3>5, <3>6 DEF CountInv
  <2> QED BY <1>3, <2>3, <2>6, <2>7
<1> QED BY <1>1, <1>2, <1>3, Steps

\* When the pass ends every item is accounted for, once (LLMJudge.run).
THEOREM EveryItem == Spec => []Accounted
<1>1. Init => CountInv
  BY DEF Init, CountInv, NoBuild, Build
<1>2. TypeOK /\ CountInv => Accounted
  <2> SUFFICES ASSUME TypeOK, CountInv, build.at = "judged" PROVE Accounted
    BY DEF Accounted
  <2>1. build \in Build
    BY DEF TypeOK, NoBuild
  <2>2. build.next \in Nat \ {0} /\ build.items \in Seq(Item) /\ build.next \notin DOMAIN build.items
    BY <2>1, BuildFacts DEF CountInv
  <2>3. DOMAIN build.items \subseteq 1 .. build.next - 1
    BY <2>2
  <2> QED BY <2>1, <2>3 DEF CountInv, Accounted
<1> QED BY <1>1, <1>2, CountSteps, Typed, PTL DEF Spec

-----------------------------------------------------------------------------
(***************************************************************************)
(* Edges.                                                                  *)
(***************************************************************************)
\* The index names the target of an edge for its environment.
Leads(index, edge) ==
  \E v \in Values : \E k \in DOMAIN index[v][edge.env] : edge.to = NameOf[index[v][edge.env][k]]

\* Every edge of the running build leads where its index says.
GroundInv ==
  build \in Build => \A i \in DOMAIN build.edges : Leads(build.index, build.edges[i])

\* Every edge that is added does.
LEMMA GroundSteps == GroundInv /\ TypeOK /\ [Next]_vars => GroundInv'
<1> SUFFICES ASSUME GroundInv, TypeOK, [Next]_vars, build' \in Build PROVE GroundInv'
  BY DEF GroundInv
<1>1. CASE UNCHANGED build
  BY <1>1 DEF GroundInv
<1>2. CASE Starts
  <2>1. build'.edges = <<>>
    BY <1>2, Starting DEF Starts
  <2> QED BY <2>1 DEF GroundInv
<1>3. ASSUME build \in Build, Same, Moves \/ Stays \/ Becomes PROVE GroundInv'
  <2>1. build'.index = build.index
    BY <1>3 DEF Same
  <2>2. \A i \in DOMAIN build.edges : Leads(build.index, build.edges[i])
    BY <1>3 DEF GroundInv
  <2>3. CASE build'.edges = build.edges
    BY <2>1, <2>2, <2>3 DEF GroundInv
  <2>4. CASE Becomes
    <3>1. PICK edge \in Found, v \in Values :
            /\ build'.edges = Append(build.edges, edge)
            /\ 1 \in DOMAIN build.index[v][edge.env] /\ edge.to = NameOf[build.index[v][edge.env][1]]
      BY <2>4 DEF Becomes
    <3>2. Leads(build.index, edge)
      BY <3>1 DEF Leads
    <3>3. build.edges \in Seq(Found)
      BY <1>3, BuildFacts
    <3>4. \A i \in DOMAIN build'.edges :
            (i \in DOMAIN build.edges /\ build'.edges[i] = build.edges[i]) \/ build'.edges[i] = edge
      BY <3>1, <3>3
    <3> QED BY <2>1, <2>2, <3>2, <3>4 DEF GroundInv
  <2> QED BY <1>3, <2>3, <2>4 DEF Moves, Stays
<1> QED BY <1>1, <1>2, <1>3, Steps

\* An edge leads where the index of its build says for its environment, cached
\* answer or not (GroundingStep.ground).
THEOREM IndexSaysSo == Spec => []Grounded
<1>1. Init => GroundInv
  BY DEF Init, GroundInv, NoBuild, Build
<1>2. TypeOK /\ GroundInv => Grounded
  <2> SUFFICES ASSUME TypeOK, GroundInv, Running PROVE Grounded
    BY DEF Grounded
  <2>1. build \in Build
    BY DEF TypeOK, NoBuild, Running
  <2> QED BY <2>1 DEF GroundInv, Leads, Grounded
<1> QED BY <1>1, <1>2, GroundSteps, Typed, PTL DEF Spec

-----------------------------------------------------------------------------
(***************************************************************************)
(* Requests.                                                               *)
(***************************************************************************)
\* No known secret contains the placeholder: one that does can be put together
\* by the very redaction of another.
NoPlaceholder ==
  \A input \in Inputs : \A i \in DOMAIN input :
    \A s \in KnownSecrets(input[i].evidence) : Redacted \notin s

\* A build knows the secrets of the items as they were found, and what was sent
\* last could be sent.
SendInv ==
  /\ build \in Build =>
       /\ DOMAIN build.items = DOMAIN items
       /\ \A i \in DOMAIN items :
            KnownSecrets(build.items[i].evidence) = KnownSecrets(items[i].evidence)
  /\ ValuesAreClean

\* Only Ask changes what was sent, and it asks for what passed the gate.
LEMMA SendSteps ==
  ASSUME NoPlaceholder
  PROVE  SendInv /\ TypeOK /\ [Next]_vars => SendInv'
<1> SUFFICES ASSUME SendInv, TypeOK, [Next]_vars PROVE SendInv'
  OBVIOUS
<1>1. items' = items
  BY SameItems
<1>2. build' \in Build =>
        /\ DOMAIN build'.items = DOMAIN items
        /\ \A i \in DOMAIN items :
             KnownSecrets(build'.items[i].evidence) = KnownSecrets(items[i].evidence)
  <2>1. CASE UNCHANGED build
    BY <2>1 DEF SendInv
  <2>2. CASE Starts
    BY <2>2, Starting DEF Starts
  <2>3. CASE build \in Build /\ Same
    BY <2>3 DEF Same, SendInv
  <2> QED BY <2>1, <2>2, <2>3, Steps
<1>3. ValuesAreClean'
  <2>1. CASE request' = request
    BY <1>1, <2>1 DEF SendInv, ValuesAreClean
  <2>2. ASSUME Admitted, NEW order \in Orders, Ask(order) PROVE ValuesAreClean'
    <3>1. build \in Build /\ build.next \in DOMAIN build.items
      BY <2>2 DEF Admitted, Judging, TypeOK, NoBuild
    <3>2. /\ DOMAIN build.items = DOMAIN items
          /\ KnownSecrets(Current.evidence) = KnownSecrets(items[build.next].evidence)
      BY <3>1 DEF SendInv, Current
    <3>3. Current.evidence \in Seq(Evidence)
      <4>1. build.items \in Seq(Item)
        BY <3>1, BuildFacts
      <4>2. Current \in Item
        BY <3>1, <4>1 DEF Current
      <4> QED BY <4>2 DEF Item
    <3>4. \A s \in KnownSecrets(Current.evidence) : Redacted \notin s
      BY <3>1, <3>2 DEF NoPlaceholder, TypeOK
    <3> DEFINE sent == Redact(Current.evidence, order)
    <3>5. Sendable(Current, sent)
      BY <2>2, <3>3, <3>4, Passing DEF Ask, Orders
    <3>6. request' = [of |-> build.next, goal |-> Current.ref, evidence |-> sent]
      BY <2>2 DEF Ask, Prompt
    <3>7. Current.ref \notin Personal
      BY <2>2 DEF Ask, Allowed
    <3> HIDE DEF sent
    <3>8. request'.of = build.next /\ request'.goal = Current.ref /\ request'.evidence = sent
      BY <3>6
    <3>9. Sendable(items[build.next], sent)
      BY <3>2, <3>5 DEF Sendable
    <3> QED BY <1>1, <3>7, <3>8, <3>9 DEF ValuesAreClean
  <2> QED BY <2>1, <2>2
          DEF Next, vars, Begin, SkipSecret, OverBudget, Block, NoContract, Hit, Respond, Refuse,
              Raise, Discard, NoProposal, Ungrounded, Accept, Finish, Persist, Kill, KillInPut
<1> QED BY <1>2, <1>3, <1>1 DEF SendInv

\* The values that are sent hold no secret the store flagged, not even within
\* another value, no value of a secret key under that key and nothing personal, nor
\* does the goal, whatever the order in which the secrets are replaced
\* (SecretRedactor.redact, ResidencyGate.evaluate).
THEOREM ValuesSentClean ==
  ASSUME NoPlaceholder
  PROVE  Spec => []ValuesAreClean
<1>1. Init => SendInv
  BY DEF Init, SendInv, ValuesAreClean, NoBuild, Build
<1>2. SendInv => ValuesAreClean
  BY DEF SendInv
<1>3. SendInv /\ TypeOK /\ [Next]_vars => SendInv'
  BY SendSteps
<1> QED BY <1>1, <1>2, <1>3, Typed, PTL DEF Spec

-----------------------------------------------------------------------------
(***************************************************************************)
(* Builds that follow one another.                                         *)
(***************************************************************************)
\* The gate decides the same in whatever order the secrets of an item are
\* replaced.
Settled ==
  \A input \in Inputs : \A i \in DOMAIN input :
    \A o, p \in SetToSeqs(KnownSecrets(input[i].evidence)) :
      Allowed(Redact(input[i].evidence, o), input[i].ref)
        => Allowed(Redact(input[i].evidence, p), input[i].ref)

\* The gate lets an item pass.
Permitted(x) ==
  \E order \in SetToSeqs(KnownSecrets(x.evidence)) : Allowed(Redact(x.evidence, order), x.ref)

\* The model, or the cache, is asked about an item.
AskedFor(x) == x.reason # "is-secret" /\ InBudget(x) /\ x.type \in Contracts /\ Permitted(x)

\* A cache has an answer under a key.
Ok(c, key) == key \in DOMAIN c /\ c[key] # Broken

\* An item that is asked about has its answer there.
Decided(x, c) == AskedFor(x) => Ok(c, Key(x))

\* An item stays, for a reason.
KeptAs(reason) == [kept |-> TRUE, as |-> reason]

\* What becomes of an item that the model was asked about.
AnswerVerdict(x, index, r) ==
  LET value == Proposal(x.type, r, x.raw)
  IN  IF Malformed(x.type, r) THEN KeptAs("llm-error")
      ELSE IF value = Null THEN KeptAs(x.reason)
      ELSE IF index[value][x.env] = <<>> THEN KeptAs("grounding-failed")
      ELSE [kept |-> FALSE, as |-> NameOf[Head(index[value][x.env])]]

\* What becomes of an item with an index and a cache.
Verdict(x, index, c) ==
  IF x.reason = "is-secret" THEN KeptAs("unresolvable-redacted")
  ELSE IF ~InBudget(x) THEN KeptAs("budget-exceeded")
  ELSE IF ~Permitted(x) THEN KeptAs("unresolvable-redacted")
  ELSE IF x.type \notin Contracts THEN KeptAs(x.reason)
  ELSE AnswerVerdict(x, index, c[Key(x)])

\* The entries of the items before n that stay.
KeptOf(list, index, c, n) ==
  [i \in {j \in 1 .. n - 1 : Verdict(list[j], index, c).kept} |->
     [of |-> i, reason |-> Verdict(list[i], index, c).as]]

\* The edges that the others become.
EdgesOf(list, index, c, n) ==
  [i \in {j \in 1 .. n - 1 : ~Verdict(list[j], index, c).kept} |->
     [of |-> i, from |-> list[i].from, to |-> Verdict(list[i], index, c).as, env |-> list[i].env]]

\* A list has the entries of a function, in their order.
Lists(seq, f) ==
  /\ \A j, k \in DOMAIN seq : j < k => seq[j].of < seq[k].of
  /\ \A k \in DOMAIN seq : seq[k].of \in DOMAIN f /\ seq[k] = f[seq[k].of]
  /\ \A i \in DOMAIN f : Among(seq, i)

\* Two lists are what index and cache make of the items before n.
Follows(list, index, c, kept, edges, n) ==
  Lists(kept, KeptOf(list, index, c, n)) /\ Lists(edges, EdgesOf(list, index, c, n))

\* Entries are in the order of what they are of, and each is there once.
LEMMA Rising ==
  ASSUME NEW S, NEW s \in Seq(S), NEW f, DOMAIN f \subseteq Nat, Lists(s, f)
  PROVE  /\ \A k \in DOMAIN s : s[k].of \in DOMAIN f /\ s[k].of \in Nat /\ s[k] = f[s[k].of]
         /\ \A i \in DOMAIN f : \E k \in DOMAIN s : s[k].of = i
         /\ \A j, k \in DOMAIN s : s[j].of < s[k].of => j < k
         /\ \A j, k \in DOMAIN s : s[j].of = s[k].of => j = k
<1>1. /\ \A j, k \in DOMAIN s : j < k => s[j].of < s[k].of
      /\ \A k \in DOMAIN s : s[k].of \in DOMAIN f /\ s[k].of \in Nat /\ s[k] = f[s[k].of]
      /\ \A i \in DOMAIN f : \E k \in DOMAIN s : s[k].of = i
  BY DEF Lists, Among
<1>2. \A k \in DOMAIN s : k \in Nat
  OBVIOUS
<1>3. ASSUME NEW j \in DOMAIN s, NEW k \in DOMAIN s, s[j].of < s[k].of PROVE j < k
  <2>1. j \in Nat /\ k \in Nat /\ s[j].of \in Nat /\ s[k].of \in Nat /\ (k < j => s[k].of < s[j].of)
    BY <1>1, <1>2
  <2> QED BY <1>3, <2>1
<1>4. ASSUME NEW j \in DOMAIN s, NEW k \in DOMAIN s, s[j].of = s[k].of PROVE j = k
  <2>1. /\ j \in Nat /\ k \in Nat /\ s[j].of \in Nat /\ s[k].of \in Nat
        /\ (k < j => s[k].of < s[j].of) /\ (j < k => s[j].of < s[k].of)
    BY <1>1, <1>2
  <2> QED BY <1>4, <2>1
<1> QED BY <1>1, <1>3, <1>4

\* There is one list of a function's entries.
LEMMA OneList ==
  ASSUME NEW S, NEW s \in Seq(S), NEW T, NEW t \in Seq(T), NEW f, DOMAIN f \subseteq Nat,
         Lists(s, f), Lists(t, f)
  PROVE  s = t
<1>1. /\ DOMAIN s = 1 .. Len(s) /\ Len(s) \in Nat /\ DOMAIN t = 1 .. Len(t) /\ Len(t) \in Nat
      /\ s = [k \in 1 .. Len(s) |-> s[k]] /\ t = [k \in 1 .. Len(t) |-> t[k]]
  OBVIOUS
<1>2. /\ \A k \in DOMAIN s : s[k].of \in DOMAIN f /\ s[k].of \in Nat /\ s[k] = f[s[k].of]
      /\ \A i \in DOMAIN f : \E k \in DOMAIN s : s[k].of = i
      /\ \A j, k \in DOMAIN s : s[j].of < s[k].of => j < k
      /\ \A j, k \in DOMAIN s : s[j].of = s[k].of => j = k
  BY Rising
<1>3. /\ \A k \in DOMAIN t : t[k].of \in DOMAIN f /\ t[k].of \in Nat /\ t[k] = f[t[k].of]
      /\ \A i \in DOMAIN f : \E k \in DOMAIN t : t[k].of = i
      /\ \A j, k \in DOMAIN t : t[j].of < t[k].of => j < k
      /\ \A j, k \in DOMAIN t : t[j].of = t[k].of => j = k
  BY Rising
<1> DEFINE Bad == {k \in Nat : k \in DOMAIN s /\ k \in DOMAIN t /\ s[k] # t[k]}
<1>4. Bad = {}
  <2> SUFFICES ASSUME Bad # {} PROVE FALSE
    OBVIOUS
  <2>1. PICK k \in Bad : \A j \in Bad : k <= j
    BY Least
  <2>2. k \in DOMAIN s /\ k \in DOMAIN t /\ s[k] # t[k] /\ k \in Nat
    BY <2>1
  <2>3. PICK i \in DOMAIN t : t[i].of = s[k].of /\ t[i] = s[k]
    <3>1. s[k].of \in DOMAIN f /\ s[k] = f[s[k].of]
      BY <1>2, <2>2
    <3>2. PICK i \in DOMAIN t : t[i].of = s[k].of
      BY <1>3, <3>1
    <3>3. t[i] = f[t[i].of]
      BY <1>3
    <3>4. t[i] = s[k]
      BY <3>1, <3>2, <3>3
    <3> QED BY <3>2, <3>4
  <2>4. PICK j \in DOMAIN s : s[j].of = t[k].of /\ s[j] = t[k]
    <3>1. t[k].of \in DOMAIN f /\ t[k] = f[t[k].of]
      BY <1>3, <2>2
    <3>2. PICK j \in DOMAIN s : s[j].of = t[k].of
      BY <1>2, <3>1
    <3>3. s[j] = f[s[j].of]
      BY <1>2
    <3>4. s[j] = t[k]
      BY <3>1, <3>2, <3>3
    <3> QED BY <3>2, <3>4
  <2>5. s[k].of \in Nat /\ t[k].of \in Nat
    BY <1>2, <1>3, <2>2
  <2>6. CASE s[k].of = t[k].of
    <3>1. i = k
      BY <1>2, <1>3, <2>2, <2>3, <2>6
    <3> QED BY <2>2, <2>3, <3>1
  <2>7. CASE s[k].of < t[k].of
    <3>1. i < k
      BY <1>2, <1>3, <2>2, <2>3, <2>7
    <3>2. i \in DOMAIN s /\ i \in Nat /\ ~(k <= i)
      BY <1>1, <2>2, <2>3, <3>1
    <3>3. s[i] = t[i]
      BY <2>1, <2>3, <3>2
    <3> QED BY <1>2, <1>3, <2>2, <2>3, <3>1, <3>2, <3>3
  <2>8. CASE t[k].of < s[k].of
    <3>1. j < k
      BY <1>2, <1>3, <2>2, <2>4, <2>8
    <3>2. j \in DOMAIN t /\ j \in Nat /\ ~(k <= j)
      BY <1>1, <2>2, <2>4, <3>1
    <3>3. s[j] = t[j]
      BY <2>1, <2>4, <3>2
    <3> QED BY <1>2, <1>3, <2>2, <2>4, <3>1, <3>2, <3>3
  <2> QED BY <2>5, <2>6, <2>7, <2>8
<1>5. \A k \in Nat : k \in DOMAIN s /\ k \in DOMAIN t => s[k] = t[k]
  BY <1>4
<1> HIDE DEF Bad
<1>6. ASSUME Len(s) < Len(t) PROVE FALSE
  <2>1. Len(t) \in DOMAIN t /\ Len(t) \notin DOMAIN s
    BY <1>1, <1>6
  <2>2. PICK j \in DOMAIN s : s[j].of = t[Len(t)].of
    BY <1>2, <1>3, <2>1
  <2>3. j \in DOMAIN t /\ j \in Nat /\ j # Len(t)
    BY <1>1, <1>6, <2>1, <2>2
  <2>4. t[j].of = t[Len(t)].of
    BY <1>5, <2>2, <2>3
  <2> QED BY <1>3, <2>1, <2>3, <2>4
<1>7. ASSUME Len(t) < Len(s) PROVE FALSE
  <2>1. Len(s) \in DOMAIN s /\ Len(s) \notin DOMAIN t
    BY <1>1, <1>7
  <2>2. PICK j \in DOMAIN t : t[j].of = s[Len(s)].of
    BY <1>2, <1>3, <2>1
  <2>3. j \in DOMAIN s /\ j \in Nat /\ j # Len(s)
    BY <1>1, <1>7, <2>1, <2>2
  <2>4. s[j].of = s[Len(s)].of
    BY <1>5, <2>2, <2>3
  <2> QED BY <1>2, <2>1, <2>3, <2>4
<1>8. Len(s) = Len(t)
  <2>1. Len(s) \in Nat /\ Len(t) \in Nat
    BY <1>1
  <2> QED BY <1>6, <1>7, <2>1
<1>9. \A k \in 1 .. Len(s) : s[k] = t[k]
  BY <1>1, <1>5, <1>8
<1> QED BY <1>1, <1>8, <1>9

\* One more entry at its end.
LEMMA ListMore ==
  ASSUME NEW T, NEW seq \in Seq(T), NEW x \in T, NEW n \in Nat, x.of = n,
         NEW f, DOMAIN f \subseteq 1 .. n - 1, Lists(seq, f),
         NEW g, DOMAIN g = DOMAIN f \cup {n}, \A i \in DOMAIN f : g[i] = f[i], g[n] = x
  PROVE  Lists(Append(seq, x), g)
<1> DEFINE more == Append(seq, x)
<1>1. /\ DOMAIN seq = 1 .. Len(seq) /\ Len(seq) \in Nat
      /\ DOMAIN more = 1 .. Len(seq) + 1
      /\ \A k \in DOMAIN seq : more[k] = seq[k]
      /\ more[Len(seq) + 1] = x
  OBVIOUS
<1> HIDE DEF more
<1>2. /\ \A k \in DOMAIN more : k \in DOMAIN seq \/ k = Len(seq) + 1
      /\ DOMAIN seq \subseteq DOMAIN more /\ Len(seq) + 1 \in DOMAIN more
  BY <1>1
<1>3. /\ \A j, k \in DOMAIN seq : j < k => seq[j].of < seq[k].of
      /\ \A k \in DOMAIN seq : seq[k].of \in DOMAIN f /\ seq[k] = f[seq[k].of]
      /\ \A i \in DOMAIN f : Among(seq, i)
  BY DEF Lists
<1>4. \A k \in DOMAIN seq : seq[k].of < n
  BY <1>3
<1>5. ASSUME NEW j \in DOMAIN more, NEW k \in DOMAIN more, j < k PROVE more[j].of < more[k].of
  <2>1. j \in DOMAIN seq
    BY <1>1, <1>2, <1>5
  <2>2. CASE k \in DOMAIN seq
    BY <1>1, <1>3, <1>5, <2>1, <2>2
  <2>3. CASE k = Len(seq) + 1
    BY <1>1, <1>4, <2>1, <2>3
  <2> QED BY <1>2, <2>2, <2>3
<1>6. ASSUME NEW k \in DOMAIN more PROVE more[k].of \in DOMAIN g /\ more[k] = g[more[k].of]
  <2>1. CASE k \in DOMAIN seq
    BY <1>1, <1>3, <2>1
  <2>2. CASE k = Len(seq) + 1
    BY <1>1, <2>2
  <2> QED BY <1>2, <2>1, <2>2
<1>7. ASSUME NEW i \in DOMAIN g PROVE Among(more, i)
  <2>1. CASE i \in DOMAIN f
    BY <1>1, <1>2, <1>3, <2>1 DEF Among
  <2>2. CASE i = n
    BY <1>1, <1>2, <2>2 DEF Among
  <2> QED BY <2>1, <2>2
<1> QED BY <1>5, <1>6, <1>7 DEF Lists, more

\* What an item becomes does not depend on the cache where it is not asked for,
\* and only on its own answer where it is.
LEMMA SameVerdict ==
  ASSUME NEW x, NEW index, NEW c, NEW d, AskedFor(x) => d[Key(x)] = c[Key(x)]
  PROVE  Verdict(x, index, d) = Verdict(x, index, c)
<1>1. CASE AskedFor(x)
  BY <1>1 DEF Verdict
<1>2. CASE ~AskedFor(x)
  BY <1>2 DEF Verdict, AskedFor
<1> QED BY <1>1, <1>2

\* Nor do the entries of the items before n.
LEMMA SameFollows ==
  ASSUME NEW list, NEW index, NEW c, NEW d, NEW kept, NEW edges, NEW n,
         \A i \in 1 .. n - 1 : AskedFor(list[i]) => d[Key(list[i])] = c[Key(list[i])],
         Follows(list, index, c, kept, edges, n)
  PROVE  Follows(list, index, d, kept, edges, n)
<1>1. \A i \in 1 .. n - 1 : Verdict(list[i], index, d) = Verdict(list[i], index, c)
  BY SameVerdict
<1>2. KeptOf(list, index, d, n) = KeptOf(list, index, c, n)
  BY <1>1 DEF KeptOf
<1>3. EdgesOf(list, index, d, n) = EdgesOf(list, index, c, n)
  BY <1>1 DEF EdgesOf
<1> QED BY <1>2, <1>3 DEF Follows

\* A build has nothing to show before its first item.
LEMMA FollowNone ==
  ASSUME NEW list, NEW index, NEW c
  PROVE  Follows(list, index, c, <<>>, <<>>, 1)
<1>1. DOMAIN KeptOf(list, index, c, 1) = {} /\ DOMAIN EdgesOf(list, index, c, 1) = {}
  BY DEF KeptOf, EdgesOf
<1>2. DOMAIN <<>> = {}
  OBVIOUS
<1> QED BY <1>1, <1>2 DEF Follows, Lists

\* The same of those that stayed.
LEMMA KeptMore ==
  ASSUME NEW seq \in Seq(Kept), NEW x \in Kept, NEW n \in Nat, x.of = n,
         NEW f, DOMAIN f \subseteq 1 .. n - 1, Lists(seq, f),
         NEW g, DOMAIN g = DOMAIN f \cup {n}, \A i \in DOMAIN f : g[i] = f[i], g[n] = x
  PROVE  Lists(Append(seq, x), g)
BY ListMore

\* An item that stays is added to those that stayed.
LEMMA FollowKept ==
  ASSUME NEW list, NEW index, NEW c, NEW edges, NEW n \in Nat \ {0},
         NEW kept \in Seq(Kept), NEW reason, NEW x \in Kept, x = [of |-> n, reason |-> reason],
         Follows(list, index, c, kept, edges, n), Verdict(list[n], index, c) = KeptAs(reason)
  PROVE  Follows(list, index, c, Append(kept, x), edges, n + 1)
<1> DEFINE f == KeptOf(list, index, c, n)
           g == KeptOf(list, index, c, n + 1)
<1>1. \A i : i \in 1 .. (n + 1) - 1 <=> i \in 1 .. n - 1 \/ i = n
  OBVIOUS
<1>2. Verdict(list[n], index, c).kept = TRUE /\ Verdict(list[n], index, c).as = reason
  BY DEF KeptAs
<1>3. DOMAIN g = DOMAIN f \cup {n} /\ (\A i \in DOMAIN f : g[i] = f[i]) /\ g[n] = x
      /\ DOMAIN f \subseteq 1 .. n - 1
  BY <1>1, <1>2 DEF KeptOf
<1>4. EdgesOf(list, index, c, n + 1) = EdgesOf(list, index, c, n)
  <2>1. {j \in 1 .. (n + 1) - 1 : ~Verdict(list[j], index, c).kept}
          = {j \in 1 .. n - 1 : ~Verdict(list[j], index, c).kept}
    BY <1>1, <1>2
  <2> QED BY <2>1 DEF EdgesOf
<1>5. x.of = n /\ n \in Nat
  OBVIOUS
<1>6. Lists(kept, f)
  BY DEF Follows
<1> HIDE DEF f, g
<1>7. Lists(Append(kept, x), g)
  <2>1. /\ DOMAIN f \subseteq 1 .. n - 1 /\ DOMAIN g = DOMAIN f \cup {n}
        /\ \A i \in DOMAIN f : g[i] = f[i]
        /\ g[n] = x /\ x.of = n /\ n \in Nat /\ Lists(kept, f)
    BY <1>3, <1>5, <1>6
  <2> QED BY <2>1, KeptMore
<1> QED BY <1>4, <1>7 DEF Follows, g

\* And one that becomes an edge to the edges.
LEMMA FollowEdge ==
  ASSUME NEW list, NEW index, NEW c, NEW kept, NEW n \in Nat \ {0},
         NEW edges \in Seq(Found), NEW edge \in Found,
         Follows(list, index, c, kept, edges, n), ~Verdict(list[n], index, c).kept,
         edge = [of |-> n, from |-> list[n].from, to |-> Verdict(list[n], index, c).as,
                 env |-> list[n].env]
  PROVE  Follows(list, index, c, kept, Append(edges, edge), n + 1)
<1> DEFINE f == EdgesOf(list, index, c, n)
           g == EdgesOf(list, index, c, n + 1)
<1>1. \A i : i \in 1 .. (n + 1) - 1 <=> i \in 1 .. n - 1 \/ i = n
  OBVIOUS
<1>2. DOMAIN g = DOMAIN f \cup {n} /\ (\A i \in DOMAIN f : g[i] = f[i]) /\ g[n] = edge
      /\ DOMAIN f \subseteq 1 .. n - 1
  BY <1>1 DEF EdgesOf
<1>3. KeptOf(list, index, c, n + 1) = KeptOf(list, index, c, n)
  <2>1. {j \in 1 .. (n + 1) - 1 : Verdict(list[j], index, c).kept}
          = {j \in 1 .. n - 1 : Verdict(list[j], index, c).kept}
    BY <1>1
  <2> QED BY <2>1 DEF KeptOf
<1>4. edge.of = n /\ n \in Nat
  OBVIOUS
<1>5. Lists(edges, f)
  BY DEF Follows
<1> HIDE DEF f, g
<1>6. Lists(Append(edges, edge), g)
  BY <1>2, <1>4, <1>5, ListMore
<1> QED BY <1>3, <1>6 DEF Follows, g

\* What index and cache make of the items is one result.
LEMMA OneResult ==
  ASSUME NEW list, NEW index, NEW c, NEW n \in Nat,
         NEW k1 \in Seq(Kept), NEW e1 \in Seq(Found), Follows(list, index, c, k1, e1, n),
         NEW k2 \in Seq(Kept), NEW e2 \in Seq(Found), Follows(list, index, c, k2, e2, n)
  PROVE  k1 = k2 /\ e1 = e2
<1>1. DOMAIN KeptOf(list, index, c, n) \subseteq Nat /\ DOMAIN EdgesOf(list, index, c, n) \subseteq Nat
  BY DEF KeptOf, EdgesOf
<1> QED BY <1>1, OneList DEF Follows

-----------------------------------------------------------------------------
\* The item of a build is that of the input, whatever order its evidence was
\* found in.
Alike(x, y) ==
  /\ y.type = x.type /\ y.env = x.env /\ y.from = x.from /\ y.reason = x.reason /\ y.raw = x.raw
  /\ InBudget(y) <=> InBudget(x)
  /\ Key(y) = Key(x)
  /\ KnownSecrets(y.evidence) = KnownSecrets(x.evidence)
  /\ \A order \in SetToSeqs(KnownSecrets(x.evidence)) :
       Allowed(Redact(y.evidence, order), y.ref) <=> Allowed(Redact(x.evidence, order), x.ref)

\* Evidence in the opposite order.
LEMMA Backwards ==
  ASSUME NEW s \in Seq(Evidence)
  PROVE  /\ Reverse(s) \in Seq(Evidence) /\ Len(Reverse(s)) = Len(s)
         /\ KnownSecrets(Reverse(s)) = KnownSecrets(s)
         /\ \A l : Cardinality({i \in DOMAIN Reverse(s) : Reverse(s)[i].locator = l})
                     = Cardinality({i \in DOMAIN s : s[i].locator = l})
         /\ \A order, ref : Allowed(Redact(Reverse(s), order), ref) <=> Allowed(Redact(s, order), ref)
<1> DEFINE n == Len(s)
           t == Reverse(s)
<1>1. n \in Nat /\ DOMAIN s = 1 .. n
  OBVIOUS
<1>2. /\ t = [j \in 1 .. n |-> s[n - j + 1]]
      /\ \A j \in 1 .. n : n - j + 1 \in 1 .. n /\ n - (n - j + 1) + 1 = j
  BY <1>1 DEF Reverse
<1>3. /\ DOMAIN t = 1 .. n /\ \A j \in 1 .. n : t[j] = s[n - j + 1] /\ s[j] = t[n - j + 1]
  BY <1>2
<1>4. t \in Seq(Evidence) /\ Len(t) = n
  <2>1. \A j \in 1 .. n : s[n - j + 1] \in Evidence
    BY <1>1, <1>2
  <2> QED BY <1>1, <1>2, <2>1
<1> HIDE DEF n, t
<1>5. KnownSecrets(t) = KnownSecrets(s)
  <2>1. KnownSecrets(t) \subseteq KnownSecrets(s)
    BY <1>1, <1>2, <1>3, SameSecrets
  <2>2. KnownSecrets(s) \subseteq KnownSecrets(t)
    BY <1>1, <1>2, <1>3, SameSecrets
  <2> QED BY <2>1, <2>2
<1>6. ASSUME NEW l
      PROVE  Cardinality({i \in DOMAIN t : t[i].locator = l}) = Cardinality({i \in DOMAIN s : s[i].locator = l})
  <2> DEFINE A == {i \in DOMAIN s : s[i].locator = l}
             B == {i \in DOMAIN t : t[i].locator = l}
             f == [i \in A |-> n - i + 1]
  <2>1. IsFiniteSet(A)
    <3>1. IsFiniteSet(1 .. n) /\ A \in SUBSET (1 .. n)
      BY <1>1, FS_Interval
    <3> QED BY <3>1, FS_Subset
  <2>2. f \in [A -> B]
    BY <1>1, <1>2, <1>3
  <2>3. \A i, j \in A : f[i] = f[j] => i = j
    <3>1. \A i \in A : i \in 1 .. n
      BY <1>1
    <3>2. \A i, j \in 1 .. n : n - i + 1 = n - j + 1 => i = j
      BY <1>1
    <3> QED BY <3>1, <3>2
  <2>4. \A j \in B : \E i \in A : f[i] = j
    <3> TAKE j \in B
    <3>1. n - j + 1 \in A /\ n - (n - j + 1) + 1 = j
      BY <1>1, <1>2, <1>3
    <3> QED BY <3>1
  <2> HIDE DEF A, B, f
  <2>5. f \in Bijection(A, B)
    BY <2>2, <2>3, <2>4 DEF Bijection, Injection, Surjection, IsInjective
  <2>6. ExistsBijection(A, B)
    BY <2>5 DEF ExistsBijection
  <2>7. Cardinality(B) = Cardinality(A)
    BY <2>1, <2>6, FS_Bijection
  <2> QED BY <2>7 DEF A, B
<1>7. ASSUME NEW order, NEW ref
      PROVE  Allowed(Redact(t, order), ref) <=> Allowed(Redact(s, order), ref)
  <2>1. /\ DOMAIN Redact(t, order) = 1 .. n /\ DOMAIN Redact(s, order) = 1 .. n
        /\ \A j \in 1 .. n : /\ Redact(t, order)[j] = Redact(s, order)[n - j + 1]
                             /\ Redact(s, order)[j] = Redact(t, order)[n - j + 1]
    BY <1>1, <1>2, <1>3 DEF Redact
  <2>2. \A e, d : DOMAIN e = 1 .. n /\ DOMAIN d = 1 .. n /\ (\A j \in 1 .. n : d[j] = e[n - j + 1])
                    /\ Allowed(e, ref) => Allowed(d, ref)
    BY <1>2 DEF Allowed
  <2> QED BY <2>1, <2>2
<1> QED BY <1>4, <1>5, <1>6, <1>7 DEF n, t

\* So the items of a build are like those of the input.
LEMMA Turned ==
  ASSUME NEW x \in Item
  PROVE  Alike(x, x) /\ Alike(x, [x EXCEPT !.evidence = Reverse(@)])
<1>1. Alike(x, x)
  BY DEF Alike
<1>2. x.evidence \in Seq(Evidence)
  BY DEF Item
<1>3. \A v \in Seq(Evidence) :
        LET y == [x EXCEPT !.evidence = v]
        IN  /\ y.type = x.type /\ y.env = x.env /\ y.from = x.from /\ y.reason = x.reason
            /\ y.raw = x.raw /\ y.ref = x.ref /\ y.bytes = x.bytes /\ y.evidence = v
  BY DEF Item
<1> DEFINE y == [x EXCEPT !.evidence = Reverse(x.evidence)]
<1>4. /\ y.type = x.type /\ y.env = x.env /\ y.from = x.from /\ y.reason = x.reason
      /\ y.raw = x.raw /\ y.ref = x.ref /\ y.bytes = x.bytes /\ y.evidence = Reverse(x.evidence)
  BY <1>2, <1>3, Backwards
<1> HIDE DEF y
<1>5. InBudget(y) <=> InBudget(x)
  BY <1>2, <1>4, Backwards DEF InBudget
<1>6. Key(y) = Key(x)
  <2> DEFINE count(s) == [l \in Locators |-> Cardinality({i \in DOMAIN s : s[i].locator = l})]
  <2>1. \A l \in Locators :
          Cardinality({i \in DOMAIN Reverse(x.evidence) : Reverse(x.evidence)[i].locator = l})
            = Cardinality({i \in DOMAIN x.evidence : x.evidence[i].locator = l})
    BY <1>2, Backwards
  <2>2. count(Reverse(x.evidence)) = count(x.evidence)
    BY <2>1
  <2>3. \A z : Key(z) = [type |-> z.type, ref |-> z.ref, locators |-> count(z.evidence)]
    BY DEF Key
  <2> HIDE DEF count
  <2> QED BY <1>4, <2>2, <2>3
<1>7. Alike(x, y)
  BY <1>2, <1>4, <1>5, <1>6, Backwards DEF Alike
<1> QED BY <1>1, <1>7 DEF y

-----------------------------------------------------------------------------
\* A build still has items to judge.
Live(b) == b.at \in {"judging", "asking", "answered"}

\* The build and the cache agree: it is at an item that has to be asked about,
\* which the cache has no answer for, or the very answer the build has; and
\* unless a question was refused, index and cache account for what it has.
RunOK(b, c, list) ==
  b \in Build =>
    /\ DOMAIN b.items = DOMAIN list /\ \A i \in DOMAIN list : Alike(list[i], b.items[i])
    /\ b.at \in {"asking", "answered"} => b.next \in DOMAIN list /\ AskedFor(list[b.next])
    /\ b.disk /\ b.at = "asking" => ~Ok(c, Key(list[b.next]))
    /\ b.disk /\ b.at = "answered" =>
         Ok(c, Key(list[b.next])) /\ b.response = c[Key(list[b.next])]
    /\ b.disk /\ Live(b) /\ ~b.refused =>
         /\ b.next \in 1 .. Len(list) + 1
         /\ Follows(list, b.index, c, b.kept, b.edges, b.next)
         /\ \A i \in 1 .. b.next - 1 : Decided(list[i], c)

\* The cache still has what the last clean build had its result from.
LastOK(l, c, list) ==
  l.clean =>
    /\ l.result \in [kept : Seq(Kept), edges : Seq(Found)]
    /\ Follows(list, l.index, c, l.result.kept, l.result.edges, Len(list) + 1)
    /\ \A i \in DOMAIN list : Decided(list[i], c)

\* After a clean build no question is left to ask, or to be refused.
FreshOK(b, l) ==
  b \in Build /\ l.clean /\ b.disk /\ Live(b) => b.asked = 0 /\ ~b.refused /\ b.at # "asking"

\* All of it.
RepeatInv == RunOK(build, cache, items) /\ LastOK(last, cache, items) /\ FreshOK(build, last)

\* What a build was asked and refused changes only where it asks, or is refused.
LEMMA Questions ==
  ASSUME build \in Build
  PROVE  /\ \A reason : Keep(reason) => UNCHANGED <<build.asked, build.refused>>
         /\ \A reason : Refuse(reason) => build'.refused
         /\ \A order : Hit(order) => UNCHANGED <<build.asked, build.refused>>
         /\ \A order : Ask(order) => UNCHANGED build.refused
         /\ \A r : Respond(r) => UNCHANGED <<build.asked, build.refused>>
         /\ Accept => UNCHANGED <<build.asked, build.refused>>
<1>1. \A reason : Keep(reason) => UNCHANGED <<build.asked, build.refused>>
  <2>1. \A m, ks : LET b == [build EXCEPT !.at = "judging", !.next = m, !.kept = ks]
                   IN  b.asked = build.asked /\ b.refused = build.refused
    BY DEF Build
  <2> QED BY <2>1 DEF Keep
<1>2. \A reason : Refuse(reason) => build'.refused
  <2>1. \A m, ks : LET b == [build EXCEPT !.at = "judging", !.next = m, !.refused = TRUE, !.kept = ks]
                   IN  b.refused = TRUE
    BY DEF Build
  <2> QED BY <2>1 DEF Refuse
<1>3. \A r : LET b == [build EXCEPT !.at = "answered", !.response = r]
             IN  b.asked = build.asked /\ b.refused = build.refused
  BY DEF Build
<1>4. \A m : [build EXCEPT !.at = "asking", !.asked = m].refused = build.refused
  BY DEF Build
<1>5. \A m, es : LET b == [build EXCEPT !.at = "judging", !.next = m, !.edges = es]
                 IN  b.asked = build.asked /\ b.refused = build.refused
  BY DEF Build
<1>6. \A order : Hit(order) => UNCHANGED <<build.asked, build.refused>>
  BY <1>3 DEF Hit
<1>7. \A order : Ask(order) => UNCHANGED build.refused
  BY <1>4 DEF Ask
<1>8. \A r : Respond(r) => UNCHANGED <<build.asked, build.refused>>
  BY <1>3 DEF Respond
<1>9. Accept => UNCHANGED <<build.asked, build.refused>>
  BY <1>5 DEF Accept
<1> QED BY <1>1, <1>2, <1>6, <1>7, <1>8, <1>9

\* A cache still has the answers that it had.
Grown(c, d) == \A key : Ok(c, key) => Ok(d, key) /\ d[key] = c[key]

\* It has, when what is put there had no answer.
LEMMA Grows ==
  ASSUME build.disk => ~Ok(cache, Key(Current)), NEW entry, Put(entry)
  PROVE  /\ Grown(cache, cache')
         /\ build.disk /\ entry # Broken =>
              Ok(cache', Key(Current)) /\ cache'[Key(Current)] = entry
<1> DEFINE key == Key(Current)
           more == [k \in DOMAIN cache \cup {key} |-> IF k = key THEN entry ELSE cache[k]]
<1>1. IF build.disk THEN cache' = more ELSE cache' = cache
  BY DEF Put
<1> HIDE DEF key
<1>2. build.disk => ~Ok(cache, key)
  BY DEF key
<1>3. /\ key \in DOMAIN more /\ more[key] = entry
      /\ \A k \in DOMAIN cache : k # key => k \in DOMAIN more /\ more[k] = cache[k]
  OBVIOUS
<1> HIDE DEF more
<1>4. CASE build.disk
  <2>1. Grown(cache, more)
    BY <1>2, <1>3, <1>4 DEF Grown, Ok
  <2>2. entry # Broken => Ok(more, key)
    BY <1>3 DEF Ok
  <2> QED BY <1>1, <1>3, <1>4, <2>1, <2>2 DEF key
<1>5. CASE ~build.disk
  BY <1>1, <1>5 DEF Grown
<1> QED BY <1>4, <1>5

\* So what follows from a cache still does.
LEMMA GrownFollows ==
  ASSUME NEW c, NEW d, Grown(c, d), NEW list, NEW index, NEW kept, NEW edges, NEW n,
         \A i \in 1 .. n - 1 : Decided(list[i], c), Follows(list, index, c, kept, edges, n)
  PROVE  Follows(list, index, d, kept, edges, n) /\ \A i \in 1 .. n - 1 : Decided(list[i], d)
<1>1. \A i \in 1 .. n - 1 : AskedFor(list[i]) => d[Key(list[i])] = c[Key(list[i])]
  BY DEF Decided, Grown
<1>2. \A i \in 1 .. n - 1 : Decided(list[i], d)
  BY DEF Decided, Grown
<1> QED BY <1>1, <1>2, SameFollows

\* And what the last clean build had.
LEMMA GrownLast ==
  ASSUME NEW list \in Seq(Item), NEW c, NEW d, Grown(c, d), NEW l, LastOK(l, c, list)
  PROVE  LastOK(l, d, list)
<1> SUFFICES ASSUME l.clean PROVE LastOK(l, d, list)
  BY DEF LastOK
<1>1. DOMAIN list = 1 .. (Len(list) + 1) - 1
  OBVIOUS
<1>2. /\ \A i \in 1 .. (Len(list) + 1) - 1 : Decided(list[i], c)
      /\ Follows(list, l.index, c, l.result.kept, l.result.edges, Len(list) + 1)
  BY <1>1 DEF LastOK
<1>3. /\ \A i \in 1 .. (Len(list) + 1) - 1 : Decided(list[i], d)
      /\ Follows(list, l.index, d, l.result.kept, l.result.edges, Len(list) + 1)
  BY <1>2, GrownFollows
<1> QED BY <1>1, <1>3 DEF LastOK

\* The item that a build is at is like that of the input, and is asked about when that is.
LEMMA AtItem ==
  ASSUME TypeOK, RunOK(build, cache, items), build \in Build, build.next \in DOMAIN build.items
  PROVE  /\ items \in Seq(Item) /\ build.next \in DOMAIN items /\ build.next \in Nat \ {0}
         /\ items[build.next] \in Item /\ Current \in Item
         /\ Alike(items[build.next], Current)
         /\ AskedFor(items[build.next]) <=> AskedFor(Current)
<1>1. items \in Seq(Item)
  BY ItemsAssumption DEF TypeOK
<1>2. build.items \in Seq(Item) /\ build.next \in Nat \ {0}
  BY BuildFacts
<1>3. DOMAIN build.items = DOMAIN items /\ Alike(items[build.next], Current)
  BY DEF RunOK, Current
<1>4. items[build.next] \in Item /\ Current \in Item
  BY <1>1, <1>2, <1>3 DEF Current
<1>5. AskedFor(items[build.next]) <=> AskedFor(Current)
  BY <1>3 DEF AskedFor, Alike, Permitted
<1> QED BY <1>1, <1>2, <1>3, <1>4, <1>5

\* A build that stops, or ends, has nothing more to agree on.
LEMMA Ending ==
  ASSUME RunOK(build, cache, items), build \in Build, items' = items,
         NEW a \in Ats \ {"judging", "asking", "answered"}, build' = [build EXCEPT !.at = a]
  PROVE  RunOK(build', cache', items') /\ ~Live(build')
<1>1. build'.at = a /\ build'.items = build.items
  BY Moving DEF Same
<1>2. DOMAIN build.items = DOMAIN items /\ \A i \in DOMAIN items : Alike(items[i], build.items[i])
  BY DEF RunOK
<1>3. ~Live(build')
  BY <1>1 DEF Live
<1> QED BY <1>1, <1>2, <1>3 DEF RunOK

\* What a build has when it goes on to the next item.
GoesOn ==
  /\ build \in Build /\ build' \in Build /\ Same /\ Live(build)
  /\ build'.at = "judging" /\ build'.next = build.next + 1
  /\ build.next \in DOMAIN build.items
  /\ build.refused => build'.refused
  /\ UNCHANGED <<items, cache>>

\* It goes on as index and cache say.
LEMMA Onward ==
  ASSUME TypeOK, RunOK(build, cache, items), GoesOn,
         build.disk /\ ~build'.refused =>
           /\ Decided(items[build.next], cache)
           /\ Follows(items, build.index, cache, build.kept, build.edges, build.next) =>
                Follows(items, build.index, cache, build'.kept, build'.edges, build.next + 1)
  PROVE  RunOK(build', cache', items')
<1>1. build \in Build /\ build.next \in DOMAIN items /\ build.next \in Nat \ {0} /\ items \in Seq(Item)
  BY AtItem DEF GoesOn
<1>2. DOMAIN build.items = DOMAIN items /\ \A i \in DOMAIN items : Alike(items[i], build.items[i])
  BY <1>1 DEF RunOK
<1>3. ASSUME build.disk, ~build'.refused
      PROVE  /\ build'.next \in 1 .. Len(items) + 1
             /\ Follows(items, build.index, cache, build'.kept, build'.edges, build'.next)
             /\ \A i \in 1 .. build'.next - 1 : Decided(items[i], cache)
  <2>1. /\ Follows(items, build.index, cache, build.kept, build.edges, build.next)
        /\ \A i \in 1 .. build.next - 1 : Decided(items[i], cache)
    BY <1>1, <1>3 DEF GoesOn, RunOK
  <2>2. build'.next = build.next + 1 /\ build'.next \in 1 .. Len(items) + 1
    BY <1>1 DEF GoesOn
  <2>3. \A i \in 1 .. build'.next - 1 : i \in 1 .. build.next - 1 \/ i = build.next
    BY <1>1, <2>2
  <2> QED BY <1>3, <2>1, <2>2, <2>3
<1>4. /\ build'.items = build.items /\ build'.index = build.index /\ build'.disk = build.disk
      /\ build'.at = "judging" /\ items' = items /\ cache' = cache
  BY DEF GoesOn, Same
<1> QED BY <1>2, <1>3, <1>4 DEF RunOK

\* An item stays for the reason that index and cache give, unless it was refused.
LEMMA KeepsOn ==
  ASSUME TypeOK, RunOK(build, cache, items), build \in Build, Live(build),
         build.next \in DOMAIN build.items, NEW reason \in Reasons, Keep(reason) \/ Refuse(reason),
         UNCHANGED <<items, cache>>,
         build.disk /\ ~build'.refused =>
           /\ Decided(items[build.next], cache)
           /\ Verdict(items[build.next], build.index, cache) = KeptAs(reason)
  PROVE  RunOK(build', cache', items')
<1> DEFINE x == [of |-> build.next, reason |-> reason]
<1>1. /\ build' \in Build /\ build'.at = "judging" /\ Same
      /\ build'.next = build.next + 1 /\ build'.edges = build.edges
      /\ build'.kept = Append(build.kept, x)
  BY Keeping
<1>2. Refuse(reason) => build'.refused
  BY Questions
<1>3. Keep(reason) => build'.refused = build.refused
  BY Questions
<1>4. GoesOn
  BY <1>1, <1>2, <1>3 DEF GoesOn
<1>5. x \in Kept /\ build.kept \in Seq(Kept) /\ build.next \in Nat \ {0}
  BY BuildFacts DEF Kept
<1>6. x = [of |-> build.next, reason |-> reason]
  OBVIOUS
<1> HIDE DEF x
<1>7. ASSUME build.disk, ~build'.refused,
             Follows(items, build.index, cache, build.kept, build.edges, build.next)
      PROVE  Follows(items, build.index, cache, build'.kept, build'.edges, build.next + 1)
  <2>1. Verdict(items[build.next], build.index, cache) = KeptAs(reason)
    BY <1>7
  <2>2. Follows(items, build.index, cache, Append(build.kept, x), build.edges, build.next + 1)
    BY <1>5, <1>6, <1>7, <2>1, FollowKept
  <2> QED BY <1>1, <2>2
<1> QED BY <1>4, <1>7, Onward

\* The gate says of an item what it would say in any other order.
LEMMA GateSays ==
  ASSUME Settled, TypeOK, RunOK(build, cache, items), build \in Build, build.next \in DOMAIN build.items,
         NEW order \in Orders
  PROVE  Permitted(items[build.next]) <=> Allowed(Redact(Current.evidence, order), Current.ref)
<1> DEFINE x == items[build.next]
<1>1. items \in Inputs /\ build.next \in DOMAIN items /\ Alike(x, Current)
  BY AtItem DEF TypeOK
<1>2. order \in SetToSeqs(KnownSecrets(x.evidence))
  BY <1>1 DEF Orders, Alike
<1>3. Allowed(Redact(Current.evidence, order), Current.ref) <=> Allowed(Redact(x.evidence, order), x.ref)
  BY <1>1, <1>2 DEF Alike
<1>4. Permitted(x) <=> Allowed(Redact(x.evidence, order), x.ref)
  BY <1>1, <1>2 DEF Permitted, Settled
<1> QED BY <1>3, <1>4

\* Items that the model is not asked about.
LEMMA NotAsked ==
  ASSUME Settled, TypeOK, RunOK(build, cache, items), build \in Build,
         \/ SkipSecret \/ OverBudget
         \/ Admitted /\ \E order \in Orders : Block(order) \/ NoContract(order)
  PROVE  RunOK(build', cache', items')
<1> DEFINE x == items[build.next]
<1>1. build.next \in DOMAIN build.items /\ Live(build)
  BY DEF SkipSecret, OverBudget, Admitted, Judging, Live
<1>2. Alike(x, Current) /\ Current \in Item
  BY <1>1, AtItem
<1>3. Current.reason = x.reason /\ Current.type = x.type /\ (InBudget(Current) <=> InBudget(x))
  BY <1>2 DEF Alike
<1>4. Current.reason \in Reasons
  BY <1>2 DEF Item, Reasons
<1> HIDE DEF x
<1>5. ASSUME NEW reason \in Reasons, Keep(reason), UNCHANGED <<items, cache>>,
             ~AskedFor(x), Verdict(x, build.index, cache) = KeptAs(reason)
      PROVE  RunOK(build', cache', items')
  BY <1>1, <1>5, KeepsOn DEF Decided, x
<1>6. CASE SkipSecret
  <2>1. x.reason = "is-secret" /\ Keep("unresolvable-redacted") /\ UNCHANGED <<items, cache>>
    BY <1>3, <1>6 DEF SkipSecret
  <2>2. ~AskedFor(x) /\ Verdict(x, build.index, cache) = KeptAs("unresolvable-redacted")
    BY <2>1 DEF AskedFor, Verdict
  <2> QED BY <1>5, <2>1, <2>2 DEF Reasons
<1>7. CASE OverBudget
  <2>1. x.reason # "is-secret" /\ ~InBudget(x) /\ Keep("budget-exceeded") /\ UNCHANGED <<items, cache>>
    BY <1>3, <1>7 DEF OverBudget
  <2>2. ~AskedFor(x) /\ Verdict(x, build.index, cache) = KeptAs("budget-exceeded")
    BY <2>1 DEF AskedFor, Verdict
  <2> QED BY <1>5, <2>1, <2>2 DEF Reasons
<1>8. ASSUME Admitted, NEW order \in Orders, Block(order) \/ NoContract(order)
      PROVE  RunOK(build', cache', items')
  <2>1. x.reason # "is-secret" /\ InBudget(x)
    BY <1>3, <1>8 DEF Admitted
  <2>2. Permitted(x) <=> Allowed(Redact(Current.evidence, order), Current.ref)
    BY <1>1, GateSays DEF x
  <2>3. CASE Block(order)
    <3>1. ~Permitted(x) /\ Keep("unresolvable-redacted") /\ UNCHANGED <<items, cache>>
      BY <2>2, <2>3 DEF Block
    <3>2. ~AskedFor(x) /\ Verdict(x, build.index, cache) = KeptAs("unresolvable-redacted")
      BY <2>1, <3>1 DEF AskedFor, Verdict
    <3> QED BY <1>5, <3>1, <3>2 DEF Reasons
  <2>4. CASE NoContract(order)
    <3>1. Permitted(x) /\ x.type \notin Contracts /\ Keep(Current.reason) /\ UNCHANGED <<items, cache>>
      BY <1>3, <2>2, <2>4 DEF NoContract
    <3>2. ~AskedFor(x) /\ Verdict(x, build.index, cache) = KeptAs(Current.reason)
      BY <1>3, <2>1, <3>1 DEF AskedFor, Verdict
    <3> QED BY <1>4, <1>5, <3>1, <3>2
  <2> QED BY <1>8, <2>3, <2>4
<1> QED BY <1>6, <1>7, <1>8

\* The answer that a build looks at is the cached one, and is of the item.
LEMMA AnswerOf ==
  ASSUME TypeOK, RunOK(build, cache, items), build \in Build, Answered
  PROVE  LET x == items[build.next]
         IN  /\ build.next \in DOMAIN build.items /\ Live(build) /\ Current \in Item
             /\ Current.type \in Contracts /\ build.response \in Response
             /\ AskedFor(x) /\ Alike(x, Current)
             /\ build.disk => Ok(cache, Key(x)) /\ build.response = cache[Key(x)]
             /\ build.disk => Decided(x, cache)
             /\ build.disk => Verdict(x, build.index, cache)
                                = AnswerVerdict(x, build.index, build.response)
<1> DEFINE x == items[build.next]
<1>1. build.at = "answered"
  BY DEF Answered
<1>2. build.next \in DOMAIN build.items /\ Current.type \in Contracts /\ build.response \in Response
  BY <1>1 DEF TypeOK, Answered
<1>3. Current \in Item /\ Alike(x, Current)
  BY <1>2, AtItem
<1>4. /\ AskedFor(x)
      /\ build.disk => Ok(cache, Key(x)) /\ build.response = cache[Key(x)]
  BY <1>1 DEF RunOK
<1> HIDE DEF x
<1>5. build.disk => Decided(x, cache)
  BY <1>4 DEF Decided
<1>6. build.disk => Verdict(x, build.index, cache) = AnswerVerdict(x, build.index, build.response)
  BY <1>4 DEF Verdict, AskedFor
<1>7. Live(build)
  BY <1>1 DEF Live
<1> QED BY <1>2, <1>3, <1>4, <1>5, <1>6, <1>7 DEF x

\* Items that stay after their answer.
LEMMA AnsweredStays ==
  ASSUME TypeOK, RunOK(build, cache, items), build \in Build, Discard \/ NoProposal \/ Ungrounded
  PROVE  RunOK(build', cache', items')
<1> DEFINE x == items[build.next]
           r == build.response
<1>1. Answered /\ UNCHANGED <<items, cache>>
  BY DEF Discard, NoProposal, Ungrounded
<1>2. /\ build.next \in DOMAIN build.items /\ Live(build) /\ Current \in Item
      /\ Alike(x, Current)
      /\ build.disk => Decided(x, cache)
      /\ build.disk => Verdict(x, build.index, cache) = AnswerVerdict(x, build.index, r)
  BY <1>1, AnswerOf
<1>3. /\ Current.type = x.type /\ Current.reason = x.reason /\ Current.raw = x.raw
      /\ Current.env = x.env
  BY <1>2 DEF Alike
<1>4. Current.reason \in Reasons
  BY <1>2 DEF Item, Reasons
<1> HIDE DEF x, r
<1>5. ASSUME NEW reason \in Reasons, Keep(reason), AnswerVerdict(x, build.index, r) = KeptAs(reason)
      PROVE  RunOK(build', cache', items')
  BY <1>1, <1>2, <1>5, KeepsOn DEF x
<1>6. Proposed = Proposal(x.type, r, x.raw)
  BY <1>3 DEF Proposed, r
<1>7. CASE Discard
  <2>1. Malformed(x.type, r) /\ Keep("llm-error")
    BY <1>3, <1>7 DEF Discard, r
  <2>2. AnswerVerdict(x, build.index, r) = KeptAs("llm-error")
    BY <2>1 DEF AnswerVerdict
  <2> QED BY <1>5, <2>1, <2>2 DEF Reasons, Refusals
<1>8. CASE NoProposal
  <2>1. ~Malformed(x.type, r) /\ Proposed = Null /\ Keep(Current.reason)
    BY <1>3, <1>8 DEF NoProposal, Valid, r
  <2>2. AnswerVerdict(x, build.index, r) = KeptAs(Current.reason)
    BY <1>3, <1>6, <2>1 DEF AnswerVerdict
  <2> QED BY <1>4, <1>5, <2>1, <2>2
<1>9. CASE Ungrounded
  <2>1. ~Malformed(x.type, r) /\ Proposed # Null /\ Keep("grounding-failed")
        /\ build.index[Proposed][x.env] = <<>>
    BY <1>3, <1>9 DEF Ungrounded, Valid, Owners, r
  <2>2. AnswerVerdict(x, build.index, r) = KeptAs("grounding-failed")
    BY <1>6, <2>1 DEF AnswerVerdict
  <2> QED BY <1>5, <2>1, <2>2 DEF Reasons
<1> QED BY <1>7, <1>8, <1>9

\* An item that becomes an edge.
LEMMA AcceptsOn ==
  ASSUME TypeOK, RunOK(build, cache, items), build \in Build, Accept
  PROVE  RunOK(build', cache', items')
<1> DEFINE x == items[build.next]
           r == build.response
           edge == [of |-> build.next, from |-> Current.from, to |-> NameOf[Head(Owners)],
                    env |-> Current.env]
<1>1. Answered /\ UNCHANGED <<items, cache>>
  BY DEF Accept
<1>2. /\ build.next \in DOMAIN build.items /\ Live(build) /\ Current \in Item
      /\ Current.type \in Contracts /\ r \in Response
      /\ Alike(x, Current)
      /\ build.disk => Decided(x, cache)
      /\ build.disk => Verdict(x, build.index, cache) = AnswerVerdict(x, build.index, r)
  BY <1>1, AnswerOf
<1>3. /\ edge \in Found /\ build' \in Build /\ build'.at = "judging" /\ Same
      /\ build'.next = build.next + 1 /\ build'.kept = build.kept
      /\ build'.edges = Append(build.edges, edge)
  BY <1>2, Accepted
<1>4. build'.refused = build.refused
  BY Questions
<1>5. GoesOn
  BY <1>1, <1>2, <1>3, <1>4 DEF GoesOn
<1>6. /\ Current.type = x.type /\ Current.from = x.from /\ Current.raw = x.raw /\ Current.env = x.env
  BY <1>2 DEF Alike
<1>7. AnswerVerdict(x, build.index, r) = [kept |-> FALSE, as |-> NameOf[Head(Owners)]]
  <2>1. ~Malformed(x.type, r) /\ Proposed # Null /\ Owners # <<>>
    BY <1>6 DEF Accept, Valid
  <2>2. Proposed = Proposal(x.type, r, x.raw) /\ Owners = build.index[Proposed][x.env]
    BY <1>6, <2>1 DEF Proposed, Owners
  <2> HIDE DEF x, r
  <2> QED BY <2>1, <2>2 DEF AnswerVerdict
<1>8. edge = [of |-> build.next, from |-> x.from, to |-> NameOf[Head(Owners)], env |-> x.env]
  BY <1>6
<1>9. build.next \in Nat \ {0} /\ build.edges \in Seq(Found)
  BY BuildFacts
<1> HIDE DEF edge, r
<1>10. ASSUME build.disk, Follows(items, build.index, cache, build.kept, build.edges, build.next)
       PROVE  Follows(items, build.index, cache, build'.kept, build'.edges, build.next + 1)
  <2>1. /\ ~Verdict(x, build.index, cache).kept
        /\ Verdict(x, build.index, cache).as = NameOf[Head(Owners)]
    BY <1>2, <1>7, <1>10
  <2>2. Follows(items, build.index, cache, build.kept, Append(build.edges, edge), build.next + 1)
    BY <1>3, <1>8, <1>9, <1>10, <2>1, FollowEdge
  <2> QED BY <1>3, <2>2
<1> QED BY <1>2, <1>5, <1>10, Onward

\* How the cache, or the model, is asked.
LEMMA Consults ==
  ASSUME Settled, TypeOK, RunOK(build, cache, items), build \in Build, Admitted, NEW order \in Orders,
         Hit(order) \/ Ask(order)
  PROVE  /\ RunOK(build', cache', items') /\ UNCHANGED cache
         /\ Ask(order) => (build.disk => ~Decided(items[build.next], cache))
<1> DEFINE x == items[build.next]
<1>1. build.next \in DOMAIN build.items /\ build.at = "judging"
  BY DEF Admitted, Judging
<1>2. Alike(x, Current) /\ build.next \in DOMAIN items
  BY <1>1, AtItem
<1>3. AskedFor(x)
  <2>1. Permitted(x)
    BY <1>1, GateSays DEF Hit, Ask
  <2> QED BY <1>2, <2>1 DEF Admitted, Hit, Ask, AskedFor, Alike
<1>4. Key(Current) = Key(x)
  BY <1>2 DEF Alike
<1>5. UNCHANGED <<items, cache>>
  BY DEF Hit, Ask
<1>6. DOMAIN build.items = DOMAIN items /\ \A i \in DOMAIN items : Alike(items[i], build.items[i])
  BY DEF RunOK
<1>7. /\ Broken # NoEntry
      /\ \A r \in Response : r # NoEntry /\ r # Broken
  BY DEF Broken, NoEntry, Response
<1>8. build.disk /\ Ok(cache, Key(x)) <=> Cached(Key(Current)) # NoEntry
  <2>1. \A key \in DOMAIN cache : cache[key] # NoEntry
    BY <1>7 DEF TypeOK
  <2> HIDE DEF x
  <2> QED BY <1>4, <2>1 DEF Cached, Ok
<1>9. build.disk /\ ~build.refused =>
        /\ build.next \in 1 .. Len(items) + 1
        /\ Follows(items, build.index, cache, build.kept, build.edges, build.next)
        /\ \A i \in 1 .. build.next - 1 : Decided(items[i], cache)
  BY <1>1 DEF RunOK, Live
<1>10. CASE Hit(order)
  <2> DEFINE r == Cached(Key(Current))
  <2>1. r # NoEntry /\ build' = [build EXCEPT !.at = "answered", !.response = r]
    BY <1>10 DEF Hit
  <2>2. r \in Response /\ r = cache[Key(x)]
    BY <1>4, <2>1 DEF Cached, TypeOK
  <2> HIDE DEF r
  <2>3. /\ build'.at = "answered" /\ build'.response = r /\ Same
        /\ UNCHANGED <<build.next, build.kept, build.edges>>
    BY <2>1, <2>2, Answering
  <2>4. build'.refused = build.refused
    BY <1>10, Questions
  <2>5. build.disk => Ok(cache, Key(x))
    BY <1>8, <2>1 DEF r
  <2>6. RunOK(build', cache', items')
    BY <1>2, <1>3, <1>5, <1>6, <1>9, <2>2, <2>3, <2>4, <2>5 DEF RunOK, Same
  <2> QED BY <1>5, <1>10, <2>1, <2>6 DEF Ask, r
<1>11. CASE Ask(order)
  <2>1. build'.at = "asking" /\ Same /\ UNCHANGED <<build.next, build.kept, build.edges>>
    BY <1>11, Asking
  <2>2. build'.refused = build.refused
    BY <1>11, Questions
  <2>3. build.disk => ~Ok(cache, Key(x))
    BY <1>8, <1>11 DEF Ask
  <2>4. RunOK(build', cache', items')
    BY <1>2, <1>3, <1>5, <1>6, <1>9, <2>1, <2>2, <2>3 DEF RunOK, Same
  <2>5. build.disk => ~Decided(x, cache)
    BY <1>3, <2>3 DEF Decided
  <2> QED BY <1>5, <2>4, <2>5
<1> QED BY <1>10, <1>11

\* The model answers.
LEMMA Responds ==
  ASSUME TypeOK, RunOK(build, cache, items), build \in Build, build.at = "asking",
         NEW r \in Response, Respond(r)
  PROVE  RunOK(build', cache', items') /\ Grown(cache, cache')
<1> DEFINE x == items[build.next]
<1>1. build.next \in DOMAIN build.items
  BY DEF TypeOK
<1>2. Alike(x, Current) /\ build.next \in DOMAIN items /\ build.next \in Nat \ {0}
  BY <1>1, AtItem
<1>3. Key(Current) = Key(x)
  BY <1>2 DEF Alike
<1>4. /\ AskedFor(x) /\ build.disk => ~Ok(cache, Key(Current))
      /\ DOMAIN build.items = DOMAIN items /\ \A i \in DOMAIN items : Alike(items[i], build.items[i])
  BY <1>3 DEF RunOK
<1>5. AskedFor(x)
  BY DEF RunOK
<1>6. Put(r) /\ r # Broken /\ items' = items
  BY DEF Respond, Broken, Response
<1>7. /\ Grown(cache, cache')
      /\ build.disk => Ok(cache', Key(x)) /\ cache'[Key(x)] = r
  BY <1>3, <1>4, <1>5, <1>6, Grows
<1>8. build.disk /\ ~build.refused =>
        /\ build.next \in 1 .. Len(items) + 1
        /\ Follows(items, build.index, cache, build.kept, build.edges, build.next)
        /\ \A i \in 1 .. build.next - 1 : Decided(items[i], cache)
  BY DEF RunOK, Live
<1>9. build.disk /\ ~build.refused =>
        /\ build.next \in 1 .. Len(items) + 1
        /\ Follows(items, build.index, cache', build.kept, build.edges, build.next)
        /\ \A i \in 1 .. build.next - 1 : Decided(items[i], cache')
  BY <1>7, <1>8, GrownFollows
<1>10. /\ build'.at = "answered" /\ build'.response = r /\ Same
       /\ UNCHANGED <<build.next, build.kept, build.edges>>
  BY Answering DEF Respond
<1>11. build'.refused = build.refused
  BY Questions
<1>12. RunOK(build', cache', items')
  BY <1>2, <1>4, <1>5, <1>6, <1>7, <1>9, <1>10, <1>11 DEF RunOK, Same
<1> QED BY <1>7, <1>12

\* A build begins with nothing, and with the items of the input.
LEMMA Beginning ==
  ASSUME TypeOK, NEW index \in Indexes, NEW disk \in BOOLEAN, NEW reversed \in BOOLEAN,
         Begin(index, disk, reversed)
  PROVE  RunOK(build', cache', items') /\ build'.asked = 0 /\ ~build'.refused /\ build'.at = "judging"
<1>0. items \in Seq(Item)
  BY ItemsAssumption DEF TypeOK
<1>1. items \in Seq(Item) /\ Len(items) \in Nat
  BY <1>0
<1> DEFINE turned == [i \in DOMAIN items |->
                        IF reversed THEN [items[i] EXCEPT !.evidence = Reverse(@)] ELSE items[i]]
<1>2. \A i \in DOMAIN items : Alike(items[i], turned[i])
  <2>1. \A i \in DOMAIN items : items[i] \in Item
    BY <1>1
  <2> QED BY <2>1, Turned
<1>3. DOMAIN turned = DOMAIN items
  OBVIOUS
<1>4. build' = [at |-> "judging", n |-> build.n + 1, index |-> index, disk |-> disk, items |-> turned,
                next |-> 1, kept |-> <<>>, edges |-> <<>>, asked |-> 0, refused |-> FALSE,
                response |-> NoEntry]
      /\ items' = items /\ cache' = cache
  BY DEF Begin
<1> HIDE DEF turned
<1>5. Follows(items, index, cache, <<>>, <<>>, 1) /\ 1 \in 1 .. Len(items) + 1
      /\ \A i \in 1 .. 1 - 1 : Decided(items[i], cache)
  BY <1>1, FollowNone
<1>6. /\ build'.at = "judging" /\ build'.index = index /\ build'.items = turned /\ build'.next = 1
      /\ build'.kept = <<>> /\ build'.edges = <<>> /\ build'.asked = 0 /\ build'.refused = FALSE
  BY <1>4
<1>7. RunOK(build', cache', items')
  BY <1>2, <1>3, <1>4, <1>5, <1>6 DEF RunOK
<1> QED BY <1>6, <1>7

\* A pass that ends clean has what index and cache make of all items.
LEMMA Finishing ==
  ASSUME TypeOK, RunOK(build, cache, items), build \in Build, Finish
  PROVE  LastOK(last', cache', items')
<1>0. items \in Seq(Item)
  BY ItemsAssumption DEF TypeOK
<1>1. items \in Seq(Item) /\ Len(items) \in Nat /\ DOMAIN items = 1 .. Len(items)
  BY <1>0
<1>2. build.next \notin DOMAIN items /\ DOMAIN build.items = DOMAIN items /\ Live(build)
  BY DEF RunOK, Finish, Live
<1>3. last' = [clean |-> build.disk /\ ~build.refused, index |-> build.index,
               result |-> [kept |-> build.kept, edges |-> build.edges]]
      /\ cache' = cache /\ items' = items
  BY DEF Finish, Result
<1>4. /\ last'.index = build.index /\ last'.result = [kept |-> build.kept, edges |-> build.edges]
      /\ last'.result.kept = build.kept /\ last'.result.edges = build.edges
  BY <1>3
<1>5. build.kept \in Seq(Kept) /\ build.edges \in Seq(Found)
  BY BuildFacts
<1>6. ASSUME build.disk, ~build.refused
      PROVE  /\ Follows(items, build.index, cache, build.kept, build.edges, Len(items) + 1)
             /\ \A i \in DOMAIN items : Decided(items[i], cache)
  <2>1. /\ build.next \in 1 .. Len(items) + 1
        /\ Follows(items, build.index, cache, build.kept, build.edges, build.next)
        /\ \A i \in 1 .. build.next - 1 : Decided(items[i], cache)
    BY <1>2, <1>6 DEF RunOK
  <2>2. build.next = Len(items) + 1
    BY <1>1, <1>2, <2>1
  <2>3. \A i \in DOMAIN items : i \in 1 .. build.next - 1
    BY <1>1, <2>2
  <2> QED BY <2>1, <2>2, <2>3
<1>7. last'.clean = (build.disk /\ ~build.refused)
  BY <1>3
<1> QED BY <1>3, <1>4, <1>5, <1>6, <1>7 DEF LastOK

\* The clean build is still the last, and the cache has what it had.
LEMMA Remains ==
  ASSUME TypeOK, LastOK(last, cache, items), Grown(cache, cache'), UNCHANGED <<items, last>>
  PROVE  LastOK(last', cache', items')
<1>1. items \in Seq(Item)
  BY ItemsAssumption DEF TypeOK
<1>2. LastOK(last, cache', items)
  BY <1>1, GrownLast
<1> QED BY <1>2

\* Nothing was asked, and nothing is being asked.
LEMMA Quiet ==
  ASSUME FreshOK(build, last), build \in Build, Same, last' = last,
         Live(build') => Live(build) /\ build'.at # "asking" /\ UNCHANGED <<build.asked, build.refused>>
  PROVE  FreshOK(build', last')
BY DEF FreshOK, Same

\* Every step keeps the agreement.
LEMMA RepeatSteps ==
  ASSUME Settled
  PROVE  RepeatInv /\ TypeOK /\ [Next]_vars => RepeatInv'
<1> DEFINE Goal == /\ RunOK(build', cache', items') /\ LastOK(last', cache', items')
                   /\ FreshOK(build', last')
<1> SUFFICES ASSUME RepeatInv, TypeOK, [Next]_vars PROVE Goal
  BY DEF RepeatInv
<1>1. RunOK(build, cache, items) /\ LastOK(last, cache, items) /\ FreshOK(build, last)
  BY DEF RepeatInv
<1>2. items' = items
  BY SameItems
<1>3. CASE UNCHANGED vars
  BY <1>1, <1>3 DEF vars
<1>4. CASE Starts
  <2>1. PICK index \in Indexes, disk \in BOOLEAN, reversed \in BOOLEAN : Begin(index, disk, reversed)
    BY <1>4 DEF Starts
  <2>2. RunOK(build', cache', items') /\ build'.asked = 0 /\ ~build'.refused /\ build'.at = "judging"
    BY <2>1, Beginning
  <2>3. UNCHANGED <<items, cache, last>>
    BY <2>1 DEF Begin
  <2> QED BY <1>1, <2>2, <2>3 DEF FreshOK
<1> SUFFICES ASSUME ~Starts, ~UNCHANGED vars PROVE Goal
  BY <1>3, <1>4
<1>5. build.at # "none"
  BY DEF Next, Starts, vars, NoChoice, Judging, Admitted, Answered, Refuse, Raise, Discard, NoProposal,
         Ungrounded, Accept, Finish, Persist, Kill, Running, KillInPut, SkipSecret, OverBudget
<1>6. build \in Build
  BY <1>5 DEF TypeOK, NoBuild
<1> HIDE DEF Goal
<1>7. ASSUME RunOK(build', cache', items'), Grown(cache, cache'), last' = last, FreshOK(build', last')
      PROVE  Goal
  BY <1>1, <1>2, <1>7, Remains DEF Goal
<1>8. Grown(cache, cache)
  BY DEF Grown
<1>9. \A item \in Item : item.reason \in Reasons
  BY DEF Item, Reasons
<1>10. ASSUME NEW a \in {"stored", "failed", "killed"}, build' = [build EXCEPT !.at = a], last' = last,
              Grown(cache, cache')
       PROVE  Goal
  <2>1. RunOK(build', cache', items') /\ ~Live(build')
    <3>1. a \in Ats \ {"judging", "asking", "answered"}
      BY DEF Ats
    <3> QED BY <1>1, <1>2, <1>6, <1>10, <3>1, Ending
  <2> QED BY <1>7, <1>10, <2>1 DEF FreshOK
<1>11. ASSUME NEW reason, Keep(reason), RunOK(build', cache', items'), UNCHANGED <<cache, last>>,
              Live(build), reason \in Reasons
       PROVE  Goal
  <2>1. Same /\ build'.at = "judging" /\ UNCHANGED <<build.asked, build.refused>>
    BY <1>6, <1>11, Keeping, Questions
  <2>2. FreshOK(build', last')
    BY <1>1, <1>6, <1>11, <2>1, Quiet
  <2> QED BY <1>7, <1>8, <1>11, <2>2
<1>12. Judging \/ Admitted => Live(build) /\ Current \in Item
  <2>1. build.items \in Seq(Item)
    BY <1>6, BuildFacts
  <2> QED BY <2>1 DEF Judging, Admitted, Live, Current
<1>13. Answered => Live(build) /\ Current \in Item
  BY <1>1, <1>6, AnswerOf
<1>14. CASE SkipSecret \/ OverBudget
  <2>1. RunOK(build', cache', items')
    BY <1>1, <1>6, <1>14, NotAsked
  <2> QED BY <1>11, <1>12, <1>14, <2>1 DEF SkipSecret, OverBudget, Reasons
<1>15. ASSUME Admitted, NEW order \in Orders, Block(order) \/ NoContract(order) PROVE Goal
  <2>1. RunOK(build', cache', items')
    BY <1>1, <1>6, <1>15, NotAsked
  <2>2. Current.reason \in Reasons
    BY <1>9, <1>12, <1>15
  <2> QED BY <1>11, <1>12, <1>15, <2>1, <2>2 DEF Block, NoContract, Reasons
<1>16. ASSUME Admitted, NEW order \in Orders, Hit(order) PROVE Goal
  <2>1. RunOK(build', cache', items') /\ UNCHANGED <<cache, last>>
    BY <1>1, <1>6, <1>16, Consults DEF Hit
  <2> DEFINE r == Cached(Key(Current))
  <2>2. r \in Response /\ build' = [build EXCEPT !.at = "answered", !.response = r]
    BY <1>16 DEF Hit, Cached, TypeOK
  <2> HIDE DEF r
  <2>3. Same /\ build'.at = "answered" /\ UNCHANGED <<build.asked, build.refused>>
    BY <1>6, <1>16, <2>2, Answering, Questions
  <2>4. FreshOK(build', last')
    BY <1>1, <1>6, <1>12, <1>16, <2>1, <2>3, Quiet
  <2> QED BY <1>7, <1>8, <2>1, <2>4
<1>17. ASSUME Admitted, NEW order \in Orders, Ask(order) PROVE Goal
  <2>1. /\ RunOK(build', cache', items') /\ UNCHANGED <<cache, last>>
        /\ build.disk => ~Decided(items[build.next], cache)
    BY <1>1, <1>6, <1>17, Consults DEF Ask
  <2>2. build.next \in DOMAIN items
    BY <1>1, <1>6, <1>17, AtItem DEF Admitted, Judging
  <2>3. ~(last.clean /\ build.disk)
    BY <1>1, <2>1, <2>2 DEF LastOK
  <2>4. build'.disk = build.disk
    BY <1>6, <1>17, Asking DEF Same
  <2>5. FreshOK(build', last')
    BY <2>1, <2>3, <2>4 DEF FreshOK
  <2> QED BY <1>7, <1>8, <2>1, <2>5
<1>18. build.at = "asking" => Live(build) /\ ~(last.clean /\ build.disk)
  BY <1>1, <1>6 DEF FreshOK, Live
<1>19. ASSUME build.at = "asking", NEW r \in Answers[Current.type], Respond(r) PROVE Goal
  <2>1. r \in Response
    <3>1. Current.type \in Contracts
      BY <1>19 DEF TypeOK
    <3> QED BY <1>19, <3>1, AnswerAssumption
  <2>2. RunOK(build', cache', items') /\ Grown(cache, cache') /\ last' = last
    BY <1>1, <1>6, <1>19, <2>1, Responds DEF Respond
  <2>3. build'.disk = build.disk
    BY <1>6, <1>19, <2>1, Answering DEF Respond, Same
  <2>4. FreshOK(build', last')
    BY <1>18, <1>19, <2>2, <2>3 DEF FreshOK
  <2> QED BY <1>7, <2>2, <2>4
<1>20. ASSUME NEW reason \in Refusals, Refuse(reason) PROVE Goal
  <2>1. build.at = "asking" /\ UNCHANGED <<items, cache, last>> /\ reason \in Reasons
    BY <1>20 DEF Refuse, Reasons
  <2>2. build.next \in DOMAIN build.items
    BY <2>1 DEF TypeOK
  <2>3. build'.refused
    BY <1>6, <1>20, Questions
  <2>4. RunOK(build', cache', items')
    BY <1>1, <1>6, <1>18, <1>20, <2>1, <2>2, <2>3, KeepsOn
  <2>5. build'.disk = build.disk
    BY <1>6, <1>20, <2>1, Keeping DEF Same
  <2>6. FreshOK(build', last')
    BY <1>18, <2>1, <2>5 DEF FreshOK
  <2> QED BY <1>7, <1>8, <2>1, <2>4, <2>6
<1>21. CASE Raise \/ Kill \/ Persist
  BY <1>8, <1>10, <1>21 DEF Raise, Kill, Persist
<1>22. CASE KillInPut
  <2>1. build.next \in DOMAIN build.items /\ build.at = "asking" /\ build.disk
    BY <1>22 DEF KillInPut, TypeOK
  <2>2. Alike(items[build.next], Current)
    BY <1>1, <1>6, <2>1, AtItem
  <2>3. ~Ok(cache, Key(Current))
    BY <1>1, <1>6, <2>1, <2>2 DEF RunOK, Alike
  <2>4. Grown(cache, cache')
    BY <1>22, <2>3, Grows DEF KillInPut
  <2> QED BY <1>10, <1>22, <2>4 DEF KillInPut
<1>23. CASE Discard \/ NoProposal \/ Ungrounded
  <2>1. RunOK(build', cache', items')
    BY <1>1, <1>6, <1>23, AnsweredStays
  <2>2. Answered /\ UNCHANGED <<cache, last>>
    BY <1>23 DEF Discard, NoProposal, Ungrounded
  <2>3. Current.reason \in Reasons
    BY <1>9, <1>13, <2>2
  <2> QED BY <1>11, <1>13, <1>23, <2>1, <2>2, <2>3
          DEF Discard, NoProposal, Ungrounded, Reasons, Refusals
<1>24. CASE Accept
  <2>1. RunOK(build', cache', items')
    BY <1>1, <1>6, <1>24, AcceptsOn
  <2>2. Answered /\ UNCHANGED <<cache, last>>
    BY <1>24 DEF Accept
  <2>3. Same /\ build'.at = "judging"
    BY <1>1, <1>6, <1>24, <2>2, AnswerOf, Accepted
  <2>4. UNCHANGED <<build.asked, build.refused>>
    BY <1>6, <1>24, Questions
  <2>5. FreshOK(build', last')
    BY <1>1, <1>6, <1>13, <2>2, <2>3, <2>4, Quiet
  <2> QED BY <1>7, <1>8, <2>1, <2>2, <2>5
<1>25. CASE Finish
  <2>1. LastOK(last', cache', items')
    BY <1>1, <1>6, <1>25, Finishing
  <2>2. RunOK(build', cache', items') /\ ~Live(build')
    <3>1. build' = [build EXCEPT !.at = "judged"] /\ "judged" \in Ats \ {"judging", "asking", "answered"}
      BY <1>25 DEF Finish, Ats
    <3> QED BY <1>1, <1>2, <1>6, <3>1, Ending
  <2> QED BY <2>1, <2>2 DEF FreshOK, Goal
<1> QED BY <1>14, <1>15, <1>16, <1>17, <1>19, <1>20, <1>21, <1>22, <1>23, <1>24, <1>25
        DEF Next, Starts

\* Only the end of a pass is one.
LEMMA Ends ==
  ASSUME TypeOK, Next, build'.at = "judged"
  PROVE  Finish
<1>1. ~Starts
  BY Beginning DEF Starts
<1>2. build \in Build
  <2>1. CASE build.at = "none"
    BY <1>1, <2>1 DEF Next, Starts, NoChoice, Judging, Admitted, Answered, Refuse, Raise, Discard, NoProposal,
         Ungrounded, Accept, Finish, Persist, Kill, Running, KillInPut, SkipSecret, OverBudget
  <2>2. CASE build.at # "none"
    BY <2>2 DEF TypeOK, NoBuild
  <2> QED BY <2>1, <2>2
<1>3. \A m, ks : [build EXCEPT !.at = "judging", !.next = m, !.kept = ks].at = "judging"
  BY <1>2 DEF Build
<1>4. \A reason : ~Keep(reason)
  BY <1>3 DEF Keep
<1>5. \A m, ks : [build EXCEPT !.at = "judging", !.next = m, !.refused = TRUE, !.kept = ks].at = "judging"
  BY <1>2 DEF Build
<1>6. ASSUME NEW reason, Refuse(reason) PROVE FALSE
  <2> DEFINE ks == Append(build.kept, [of |-> build.next, reason |-> reason])
  <2>1. build' = [build EXCEPT !.at = "judging", !.next = build.next + 1, !.refused = TRUE, !.kept = ks]
    BY <1>6 DEF Refuse
  <2> HIDE DEF ks
  <2>2. build'.at = "judging"
    BY <1>5, <2>1
  <2> QED BY <2>2
<1>7. \A r : [build EXCEPT !.at = "answered", !.response = r].at = "answered"
  BY <1>2 DEF Build
<1>8. (\A order : ~Hit(order)) /\ \A r : ~Respond(r)
  BY <1>7 DEF Hit, Respond
<1>9. \A m : [build EXCEPT !.at = "asking", !.asked = m].at = "asking"
  BY <1>2 DEF Build
<1>10. \A order : ~Ask(order)
  BY <1>9 DEF Ask
<1>11. \A m, es : [build EXCEPT !.at = "judging", !.next = m, !.edges = es].at = "judging"
  BY <1>2 DEF Build
<1>12. ~Accept
  BY <1>11 DEF Accept
<1>13. \A a : [build EXCEPT !.at = a].at = a
  BY <1>2 DEF Build
<1>14. ~(Raise \/ Kill \/ Persist \/ KillInPut)
  BY <1>13 DEF Raise, Kill, Persist, KillInPut
<1> QED BY <1>1, <1>4, <1>6, <1>8, <1>10, <1>12, <1>14
        DEF Next, Starts, SkipSecret, OverBudget, Block, NoContract, Discard, NoProposal, Ungrounded

\* After a clean build another with the same index asks nothing and has the same
\* result, whatever order evidence is found in and however many builds were killed
\* in between (LLMJudge.run, DiskResponseCache).
THEOREM SameAgain ==
  ASSUME Settled
  PROVE  Spec => Repeatable
<1>1. Init => RepeatInv
  BY DEF Init, RepeatInv, RunOK, LastOK, FreshOK, NoBuild, Build
<1>2. RepeatInv /\ TypeOK /\ [Next]_vars => RepeatInv'
  BY RepeatSteps
<1>3. RepeatInv /\ TypeOK /\ [Next]_vars =>
        [build'.at = "judged" /\ last.clean /\ build.disk /\ build.index = last.index =>
           Result(build') = last.result /\ build.asked = 0]_vars
  <2> SUFFICES ASSUME RepeatInv, TypeOK, Next, build'.at = "judged",
                      last.clean, build.disk, build.index = last.index
               PROVE  Result(build') = last.result /\ build.asked = 0
    OBVIOUS
  <2>1. Finish /\ build.at = "judging" /\ build \in Build
    BY Ends DEF Finish, TypeOK, NoBuild
  <2>2. RunOK(build, cache, items) /\ LastOK(last, cache, items) /\ FreshOK(build, last)
    BY DEF RepeatInv
  <2>3. build.asked = 0 /\ ~build.refused
    BY <2>1, <2>2 DEF FreshOK, Live
  <2>4. /\ last' = [clean |-> build.disk /\ ~build.refused, index |-> build.index,
                    result |-> [kept |-> build.kept, edges |-> build.edges]]
        /\ cache' = cache /\ items' = items /\ build' = [build EXCEPT !.at = "judged"]
    BY <2>1 DEF Finish, Result
  <2>5. last'.clean /\ last'.index = build.index
        /\ last'.result = [kept |-> build.kept, edges |-> build.edges]
    BY <2>3, <2>4
  <2>6. LastOK(last', cache, items)
    BY <2>1, <2>2, <2>4, Finishing
  <2>7. items \in Seq(Item)
    BY ItemsAssumption DEF TypeOK
  <2>8. Len(items) + 1 \in Nat
    BY <2>7
  <2> DEFINE mine == last'.result
             old == last.result
  <2>9. /\ mine \in [kept : Seq(Kept), edges : Seq(Found)]
        /\ Follows(items, build.index, cache, mine.kept, mine.edges, Len(items) + 1)
    BY <2>5, <2>6 DEF LastOK
  <2>10. /\ old \in [kept : Seq(Kept), edges : Seq(Found)]
         /\ Follows(items, build.index, cache, old.kept, old.edges, Len(items) + 1)
    BY <2>2 DEF LastOK
  <2>11. mine = [kept |-> build.kept, edges |-> build.edges]
    BY <2>5
  <2> HIDE DEF mine, old
  <2>12. mine.kept = old.kept /\ mine.edges = old.edges
    BY <2>8, <2>9, <2>10, OneResult
  <2>13. mine = old
    BY <2>9, <2>10, <2>12
  <2>14. Result(build') = mine
    BY <2>1, <2>4, <2>11 DEF Result, Build
  <2> QED BY <2>3, <2>13, <2>14 DEF old
<1> QED BY <1>1, <1>2, <1>3, Typed, PTL DEF Spec, Repeatable
=============================================================================
