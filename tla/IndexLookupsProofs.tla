------------------------- MODULE IndexLookupsProofs -------------------------
(***************************************************************************)
(* Proofs about the index in use: what a lookup and the resolution of a    *)
(* service name answer, for every set of identities and texts.             *)
(***************************************************************************)
EXTENDS IndexLookups, FiniteSetTheorems, TLAPS

\* The index has come to hold identities, one by one, and the answer on record
\* is what it gives now: an addition voids the last one.
AnswerInv ==
  /\ index \subseteq Identities
  /\ IsFiniteSet(index)
  /\ asked.kind = "lookup" =>
       /\ asked.text \in Text
       /\ asked.answer = Lookup(index, asked.text, asked.env)
  /\ asked.kind = "name" =>
       /\ asked.text \in ServiceName
       /\ asked.env \in Envs
       /\ asked.answer = ResolveServiceName(index, asked.text, asked.env)

\* The invariant behind what is said of the answers.
LEMMA Answers == Spec => []AnswerInv
<1>1. Init => AnswerInv
  BY FS_EmptySet DEF Init, NotAsked, AnswerInv
<1>2. AnswerInv /\ [Next]_vars => AnswerInv'
  <2> SUFFICES ASSUME AnswerInv, [Next]_vars PROVE AnswerInv'
    OBVIOUS
  <2>1. ASSUME NEW identity \in Identities \ index, Add(identity) PROVE AnswerInv'
    <3>1. index' \subseteq Identities /\ IsFiniteSet(index')
      BY <2>1, FS_AddElement DEF Add, AnswerInv
    <3> QED BY <2>1, <3>1 DEF Add, NotAsked, AnswerInv
  <2>2. ASSUME NEW text \in Queries, NEW env \in Envs, Ask(text, env) PROVE AnswerInv'
    <3>1. /\ asked'.kind = "lookup" /\ asked'.text = text /\ asked'.env = env /\ index' = index
          /\ asked'.answer = Lookup(index, text, env) /\ text \in Text
      BY <2>2, IdentitiesAssumption DEF Ask
    <3>2. Lookup(index', text, env) = Lookup(index, text, env)
      BY <3>1
    <3> QED BY <3>1, <3>2 DEF AnswerInv
  <2>3. ASSUME NEW name \in Queries \cap ServiceName, NEW env \in Envs, Resolve(name, env)
        PROVE  AnswerInv'
    <3>1. /\ asked'.kind = "name" /\ asked'.text = name /\ asked'.env = env /\ index' = index
          /\ asked'.answer = ResolveServiceName(index, name, env)
      BY <2>3 DEF Resolve
    <3>2. ResolveServiceName(index', name, env) = ResolveServiceName(index, name, env)
      BY <3>1
    <3> QED BY <3>1, <3>2 DEF AnswerInv
  <2>4. CASE UNCHANGED vars
    BY <2>4 DEF vars, AnswerInv
  <2> QED BY <2>1, <2>2, <2>3, <2>4 DEF Next
<1> QED BY <1>1, <1>2, PTL DEF Spec

-----------------------------------------------------------------------------
(***************************************************************************)
(* Lookups.                                                                *)
(***************************************************************************)
\* What is found was there, under the text itself or under its key.
LEMMA FoundUnder ==
  ASSUME NEW entries, NEW t, NEW env, NEW e \in Lookup(entries, t, env)
  PROVE  /\ e \in entries
         /\ e.value = t \/ Normalize(e.value, e.class) = NormalizeLookup(t)
<1>1. \A some : ForEnv(some, env) \subseteq some
  BY DEF ForEnv
<1> QED BY <1>1 DEF Lookup, Exact, Normalized

\* The key of a text names the same place, whichever class it is made for.
LEMMA KeysNamePlaces ==
  ASSUME NEW t \in Text, NEW v \in Text, NEW class, Normalize(v, class) = NormalizeLookup(t)
  PROVE  Place(v) = Place(t)
<1>1. \A u \in Text :
        /\ UrlKey(u).host = u.host /\ UrlKey(u).path = (IF u.path = "" THEN "/" ELSE u.path)
        /\ Lower(u).host = u.host /\ Lower(u).path = u.path
  BY DEF UrlKey, Lower, Text
<1>2. \E k \in {UrlKey(v), v, Lower(v)}, l \in {UrlKey(t), Lower(t)} : k = l
  BY DEF Normalize, NormalizeLookup
<1> DEFINE HostAndPath(u, x) ==
             u.host = x.host /\ (u.path = x.path \/ (x.path = "" /\ u.path = "/"))
<1>3. PICK k \in {UrlKey(v), v, Lower(v)} : HostAndPath(k, v) /\ HostAndPath(k, t)
  BY <1>1, <1>2
<1> QED BY <1>3 DEF Place

\* No lookup, exact or normalized, takes one host and path for another.
THEOREM NoStrangers == Spec => []NoStranger
<1>1. AnswerInv => NoStranger
  <2> SUFFICES ASSUME AnswerInv, asked.kind = "lookup", NEW e \in asked.answer
               PROVE  Place(e.value) = Place(asked.text)
    BY DEF NoStranger
  <2>1. /\ e \in index
        /\ e.value = asked.text \/ Normalize(e.value, e.class) = NormalizeLookup(asked.text)
    BY FoundUnder DEF AnswerInv
  <2>2. e.value \in Text /\ asked.text \in Text
    BY <2>1, IdentitiesAssumption DEF AnswerInv, Entry
  <2> QED BY <2>1, <2>2, KeysNamePlaces
<1> QED BY <1>1, Answers, PTL

\* Whoever has the very text in the very environment is found, and nobody else.
LEMMA OwnFirst ==
  ASSUME NEW entries, NEW t, NEW env, \E e \in entries : e.value = t /\ e.env = env
  PROVE  Lookup(entries, t, env) = {e \in entries : e.value = t /\ e.env = env}
BY DEF Lookup, Exact, ForEnv

\* Two claims to one text are both returned, and those of other environments
\* are not.
THEOREM ClaimsReturned == Spec => []OwnClaims
<1>1. AnswerInv => OwnClaims
  BY OwnFirst DEF AnswerInv, OwnClaims
<1> QED BY <1>1, Answers, PTL

-----------------------------------------------------------------------------
(***************************************************************************)
(* Service names.                                                          *)
(***************************************************************************)
\* Where a name is given to somebody there was one to give it to.
LEMMA OnlyOne ==
  ASSUME NEW entries, IsFiniteSet(entries), NEW name, NEW env,
         ResolveServiceName(entries, name, env).known
  PROVE  LET tags == Tags(entries, name, env)
             all  == IF tags # {} THEN tags ELSE Labelled(entries, name)
         IN  \A e \in all : e.repo = ResolveServiceName(entries, name, env).repo
<1> DEFINE tags == Tags(entries, name, env)
           all  == IF tags # {} THEN tags ELSE Labelled(entries, name)
<1>1. all \subseteq entries
  BY FoundUnder DEF Tags, Labelled
<1>2. IsFiniteSet(all)
  BY <1>1, FS_Subset
<1>3. ResolveServiceName(entries, name, env) =
        CASE Cardinality(all) = 1 -> Found(CHOOSE e \in all : TRUE)
          [] Cardinality(all) > 1 -> Unknown("ambiguous-match", all)
          [] OTHER                -> Unknown("no-index-match", {})
  BY DEF ResolveServiceName
<1> HIDE DEF all
<1>4. Cardinality(all) = 1
  BY <1>3 DEF Unknown
<1>5. PICK x : all = {x}
  BY <1>2, <1>4, FS_Singleton
<1>6. ResolveServiceName(entries, name, env) = Found(x)
  BY <1>3, <1>4, <1>5
<1>7. \A e \in all : e.repo = ResolveServiceName(entries, name, env).repo
  BY <1>5, <1>6 DEF Found
<1> QED BY <1>7 DEF all

\* A tag that a plain name leads to has that name for its value.
LEMMA TagsByName ==
  ASSUME NEW entries \in SUBSET Entry,
         \A e \in entries : e.class = "service-tag" => e.value.path # "/",
         NEW name \in ServiceName, name.spelling = "plain", NEW env,
         NEW e \in Tags(entries, name, env)
  PROVE  e.value = name
<1>1. /\ e \in entries /\ e.class = "service-tag" /\ e.value.path # "/"
      /\ e.value = name \/ Normalize(e.value, e.class) = NormalizeLookup(name)
  BY FoundUnder DEF Tags
<1>2. /\ NormalizeLookup(name) \in {UrlKey(name), Lower(name)}
      /\ UrlKey(name).path = "/" /\ Lower(name) = name
  BY DEF NormalizeLookup, UrlKey, Lower, ServiceName
<1>3. Normalize(e.value, e.class) = e.value
  BY <1>1 DEF Normalize
<1> QED BY <1>1, <1>2, <1>3

\* A service name that two repositories claim, by a tag of the environment or,
\* where nobody tags it, by a host in any, is never given to one of them.  The
\* tags are names: none is written like the key of a URL, a host and a slash.
THEOREM NobodyPicked ==
  ASSUME \A e \in Identities : e.class = "service-tag" => e.value.path # "/"
  PROVE  Spec => []NoOwnerPicked
<1>1. AnswerInv => NoOwnerPicked
  <2> SUFFICES ASSUME AnswerInv, asked.kind = "name", asked.answer.known PROVE NoOwnerPicked
    BY DEF NoOwnerPicked
  <2> DEFINE name == asked.text
             tags == Tags(index, name, asked.env)
  <2>1. /\ name \in ServiceName /\ index \in SUBSET Entry
        /\ \A e \in index : e.class = "service-tag" => e.value.path # "/"
    BY IdentitiesAssumption DEF AnswerInv
  <2>2. /\ tags # {} => \A e \in tags : e.repo = asked.answer.repo
        /\ tags = {} => \A e \in Labelled(index, name) : e.repo = asked.answer.repo
    BY OnlyOne DEF AnswerInv
  <2>3. ASSUME NEW e \in TagsOf(name, {asked.env}) PROVE e.repo = asked.answer.repo
    <3>1. e \in index /\ e.class = "service-tag" /\ e.value = name /\ e.env = asked.env
      BY <2>3 DEF TagsOf
    <3>2. e \in tags
      BY <3>1, OwnFirst DEF Tags
    <3> QED BY <2>2, <3>2
  <2>4. ASSUME TagsOf(name, Envs \cup {NoEnv}) = {}, NEW e \in Labelled(index, name)
        PROVE  e.repo = asked.answer.repo
    <3>1. name.spelling = "plain"
      BY <2>4 DEF Labelled
    <3>2. tags = {}
      <4> SUFFICES ASSUME NEW tag \in tags PROVE FALSE
        OBVIOUS
      <4>1. tag.value = name
        BY <2>1, <3>1, TagsByName
      <4>2. tag \in index /\ tag.class = "service-tag"
        BY FoundUnder DEF Tags
      <4>3. tag.env \in Envs \cup {NoEnv}
        BY <2>1, <4>2 DEF Entry
      <4> QED BY <2>4, <4>1, <4>2, <4>3 DEF TagsOf
    <3> QED BY <2>2, <2>4, <3>2
  <2> QED BY <2>3, <2>4 DEF NoOwnerPicked
<1> QED BY <1>1, Answers, PTL
=============================================================================
