------------------------------ MODULE Traversal ------------------------------
(***************************************************************************)
(* The structured pass of a graph build: TraversalEngine.traverse          *)
(* (tendril/core/traversal.py), a worklist that starts at the anchor and   *)
(* turns the consumer references of each repository, per environment, into *)
(* DEPENDS_ON edges by way of the acquisition ladder and the index.        *)
(*                                                                         *)
(* What the connectors delivered is the input `world', chosen once.  An    *)
(* extractor or provider that raised delivered nothing.  The order in      *)
(* which the candidates of one reference are listed only decides the order *)
(* of the queue; any order is allowed here.  result.profiles and           *)
(* result.deployed_refs repeat parts of `world' and are not kept.          *)
(***************************************************************************)
EXTENDS AcquisitionLadder

CONSTANTS
  Names,      \* repository names without provider and organisation
  NameOf,     \* the name of each repository
  WellNamed,  \* repositories whose id has the form provider:org/name
  Canon,      \* the canonical form of each environment name
  Shas,       \* commits that were deployed
  NoRepo,
  Worlds      \* the inputs a run tries

Head_ == "HEAD"
Commits == Shas \cup {Head_}

\* A consumer reference.  Its first token, if any, stands where the host
\* should be when raw.host is Hole, and the others are in the path.  `curly'
\* says that placeholders are written {token}.  Extractors emit no empty text.
ConsumerRef == [raw : Text, tokens : Seq(Tokens), curly : BOOLEAN, hint : Envs \cup {NoEnv}]

Value == Text \cup {NoText}

World ==
  [envs : Seq(Envs),                              \* the environments asked for
   anchor : Repos,
   refs : [Names -> [Commits -> Seq(ConsumerRef)]], \* what extraction finds, by commit
   declared : [Names -> SUBSET Tokens],
   deployments : [Names -> Seq([env : Envs, sha : Shas \cup {""}])],
   stores : [Names -> Seq(Store)],
   intra : [Repos -> [Tokens -> Value]],          \* rung 0
   preview : [Repos -> [Tokens -> [Envs -> Value]]],
   profile : [Repos -> 1 .. 5],                   \* confidence of the attribution
   index : SUBSET Entry]

ASSUME NamesAssumption  == NameOf \in [Repos -> Names] /\ WellNamed \subseteq Repos
ASSUME CanonAssumption  == Canon \in [Envs -> Envs] /\ \A e \in Envs : Canon[Canon[e]] = Canon[e]
ASSUME NoRepoAssumption == NoRepo \notin Repos
ASSUME WorldsAssumption == Worlds \subseteq World

VARIABLES
  world,
  queue,       \* the worklist
  expanded,    \* result.expanded
  repo,        \* the repository being expanded, or NoRepo
  pos,         \* where its loops over environments, references and tokens are
  found,       \* the candidates not yet turned into edges, and what is known of them
  edges,       \* result.edges
  unresolved   \* result.unresolved

vars == <<world, queue, expanded, repo, pos, found, edges, unresolved>>

-----------------------------------------------------------------------------
(***************************************************************************)
(* Reading the input.                                                      *)
(***************************************************************************)
EnvAt(at) == Canon[world.envs[at.env]]

Deployments(r) == world.deployments[NameOf[r]]

\* The first deployment listed for the environment that names a commit.
HasDeployment(r, env, i) == Canon[Deployments(r)[i].env] = env /\ Deployments(r)[i].sha # ""

DeployedRef(r, env) ==
  IF \E i \in DOMAIN Deployments(r) : HasDeployment(r, env, i)
  THEN Deployments(r)[CHOOSE i \in DOMAIN Deployments(r) :
         /\ HasDeployment(r, env, i)
         /\ \A j \in 1 .. i - 1 : ~HasDeployment(r, env, j)].sha
  ELSE Head_

\* Mutant: configuration is read from the default branch.
Refs_AtHead(r, env) == world.refs[NameOf[r]][Head_]

\* What the extractors find in the tree as it was deployed.
Refs(r, env) == world.refs[NameOf[r]][DeployedRef(r, env)]

RefAt(r, at)   == Refs(r, EnvAt(at))[at.ref]
TokenAt(r, at) == RefAt(r, at).tokens[at.tok]

\* A reference of this environment's own configuration file gives its whole
\* text as the static value of each of its tokens; the last one wins.
GivesStatic(ref, token, env) ==
  /\ ref.hint = env
  /\ \E i \in DOMAIN ref.tokens : ref.tokens[i] = token
  /\ ref.raw.scheme \/ ~ref.curly \/ ref.raw.host # Hole

StaticValue(refs, token, env) ==
  IF \E j \in DOMAIN refs : GivesStatic(refs[j], token, env)
  THEN refs[CHOOSE j \in DOMAIN refs :
              /\ GivesStatic(refs[j], token, env)
              /\ \A l \in DOMAIN refs : l > j => ~GivesStatic(refs[l], token, env)].raw
  ELSE NoText

\* Put a value in place of {token}.  Other placeholder syntaxes are left as
\* they are, and a URL in the middle of a URL names no host.
Apply(ref, token, value) ==
  IF \/ ref.raw.host # Hole \/ ~ref.curly \/ ref.tokens[1] # token
     \/ value = NoText \/ value.host = Hole \/ (ref.raw.scheme /\ value.scheme)
  THEN ref.raw
  ELSE [scheme   |-> ref.raw.scheme \/ value.scheme,
        host     |-> value.host,
        spelling |-> value.spelling,
        port     |-> IF value.path = "" /\ ref.raw.port # "" THEN ref.raw.port ELSE value.port,
        path     |-> CASE ref.raw.path = "" /\ ref.raw.port = "" -> value.path
                       [] value.path = "" -> ref.raw.path
                       [] OTHER           -> "/far"]

-----------------------------------------------------------------------------
(***************************************************************************)
(* Where one reference of repository r leads, at a position of its loops.  *)
(***************************************************************************)
\* The identities that the index knows for what a reference becomes: a set of
\* one text, or of none when there is no value to put into the reference.
Targets(texts, at) == UNION {Candidates(world.index, t, EnvAt(at)) : t \in texts}

IntraTexts(r, at) ==
  {Apply(RefAt(r, at), TokenAt(r, at), v) : v \in {world.intra[r][TokenAt(r, at)]} \ {NoText}}

IntraTargets(r, at) == Targets(IntraTexts(r, at), at)

Acquisition(r, at) ==
  Acquire(TokenAt(r, at), EnvAt(at),
          StaticValue(Refs(r, EnvAt(at)), TokenAt(r, at), EnvAt(at)),
          world.stores[NameOf[r]],
          world.preview[r][TokenAt(r, at)][EnvAt(at)])

LadderTexts(r, at) ==
  {Apply(RefAt(r, at), TokenAt(r, at), a.value) : a \in {b \in {Acquisition(r, at)} : b.resolved}}

LadderTargets(r, at) == Targets(LadderTexts(r, at), at)

LiteralTargets(r, at) == Lookup(world.index, RefAt(r, at).raw, EnvAt(at))

IsDeclared(r, at) == TokenAt(r, at) \in world.declared[NameOf[r]]

-----------------------------------------------------------------------------
Start   == [env |-> 1, ref |-> 1, tok |-> 1]
Nothing == [cands |-> {}]

Init ==
  /\ world \in Worlds
  /\ queue = <<world.anchor>>
  /\ expanded = {}
  /\ repo = NoRepo
  /\ pos = Start
  /\ found = Nothing
  /\ edges = <<>>
  /\ unresolved = {}

\* Mutant: the test against `expanded' is made when a repository is queued
\* and not again when it is taken from the queue.
Expand_Queued ==
  /\ repo = NoRepo
  /\ queue # <<>>
  /\ queue' = Tail(queue)
  /\ expanded' = expanded \cup {Head(queue)}
  /\ repo' = Head(queue)
  /\ pos' = Start
  /\ UNCHANGED <<world, found, edges, unresolved>>

Expand ==
  /\ repo = NoRepo
  /\ queue # <<>>
  /\ Head(queue) \notin expanded
  /\ queue' = Tail(queue)
  /\ expanded' = expanded \cup {Head(queue)}
  /\ repo' = Head(queue)
  /\ pos' = Start
  /\ UNCHANGED <<world, found, edges, unresolved>>

\* Mutant: the repository is looked at without being taken from the queue.
Revisit_Peek ==
  /\ repo = NoRepo
  /\ queue # <<>>
  /\ Head(queue) \in expanded
  /\ UNCHANGED vars

Revisit ==
  /\ repo = NoRepo
  /\ queue # <<>>
  /\ Head(queue) \in expanded
  /\ queue' = Tail(queue)
  /\ UNCHANGED <<world, expanded, repo, pos, found, edges, unresolved>>

-----------------------------------------------------------------------------
(***************************************************************************)
(* The loop bodies.                                                        *)
(***************************************************************************)
AtEnv   == repo # NoRepo /\ found = Nothing /\ pos.env <= Len(world.envs)
AtRef   == AtEnv /\ pos.ref <= Len(Refs(repo, EnvAt(pos)))
AtToken == AtRef /\ pos.tok <= Len(RefAt(repo, pos).tokens)

\* The candidates of the current reference; the loop over them is AddEdge.
Found(cands, provenance, rung, cap, ambiguous, follow) ==
  IF cands = {} THEN Nothing
  ELSE [cands |-> cands, at |-> pos, env |-> EnvAt(pos), provenance |-> provenance,
        rung |-> rung, cap |-> cap, follow |-> follow,
        candidates |-> IF ambiguous THEN {c.repo : c \in cands} ELSE {}]

NextToken == pos' = [pos EXCEPT !.tok = @ + 1]

Unresolved(reason) ==
  unresolved' = unresolved \cup
    {[repo |-> repo, env |-> EnvAt(pos), at |-> pos, reason |-> reason]}

SkipUndeclared ==
  /\ AtToken
  /\ ~IsDeclared(repo, pos)
  /\ NextToken
  /\ UNCHANGED <<world, queue, expanded, repo, found, edges, unresolved>>

\* Rung 0: the value an intra-repo provider found in the code.
UseIntraRepo ==
  /\ AtToken
  /\ IsDeclared(repo, pos)
  /\ IntraTargets(repo, pos) # {}
  /\ found' = Found(IntraTargets(repo, pos), "declared", "intra-repo", 4, FALSE, TRUE)
  /\ NextToken
  /\ UNCHANGED <<world, queue, expanded, repo, edges, unresolved>>

OnLadder == AtToken /\ IsDeclared(repo, pos) /\ IntraTargets(repo, pos) = {}

\* Mutant: a secret is passed over in silence.
GiveUp_Quiet ==
  /\ OnLadder
  /\ ~Acquisition(repo, pos).resolved
  /\ IF Acquisition(repo, pos).secret THEN UNCHANGED unresolved
     ELSE Unresolved(Acquisition(repo, pos).rung)
  /\ NextToken
  /\ UNCHANGED <<world, queue, expanded, repo, found, edges>>

GiveUp ==
  /\ OnLadder
  /\ ~Acquisition(repo, pos).resolved
  /\ Unresolved(IF Acquisition(repo, pos).secret THEN "secret" ELSE Acquisition(repo, pos).rung)
  /\ NextToken
  /\ UNCHANGED <<world, queue, expanded, repo, found, edges>>

NoIndexMatch ==
  /\ OnLadder
  /\ Acquisition(repo, pos).resolved
  /\ LadderTargets(repo, pos) = {}
  /\ Unresolved("no-index-match")
  /\ NextToken
  /\ UNCHANGED <<world, queue, expanded, repo, found, edges>>

UseLadder ==
  /\ OnLadder
  /\ Acquisition(repo, pos).resolved
  /\ LadderTargets(repo, pos) # {}
  /\ found' = Found(LadderTargets(repo, pos),
                    IF Acquisition(repo, pos).rung = "static" THEN "declared" ELSE "injected",
                    Acquisition(repo, pos).rung, world.profile[repo],
                    Cardinality(LadderTargets(repo, pos)) > 1, TRUE)
  /\ NextToken
  /\ UNCHANGED <<world, queue, expanded, repo, edges, unresolved>>

NextRef == pos' = [pos EXCEPT !.ref = @ + 1, !.tok = 1]

\* A reference without tokens is looked up as it is written.
UseLiteral ==
  /\ AtRef
  /\ RefAt(repo, pos).tokens = <<>>
  /\ found' = Found(LiteralTargets(repo, pos), "declared", "literal", 5, FALSE, FALSE)
  /\ NextRef
  /\ UNCHANGED <<world, queue, expanded, repo, edges, unresolved>>

TokensDone ==
  /\ AtRef
  /\ RefAt(repo, pos).tokens # <<>>
  /\ pos.tok > Len(RefAt(repo, pos).tokens)
  /\ NextRef
  /\ UNCHANGED <<world, queue, expanded, repo, found, edges, unresolved>>

RefsDone ==
  /\ AtEnv
  /\ pos.ref > Len(Refs(repo, EnvAt(pos)))
  /\ pos' = [env |-> pos.env + 1, ref |-> 1, tok |-> 1]
  /\ UNCHANGED <<world, queue, expanded, repo, found, edges, unresolved>>

EnvsDone ==
  /\ repo # NoRepo
  /\ found = Nothing
  /\ pos.env > Len(world.envs)
  /\ repo' = NoRepo
  /\ UNCHANGED <<world, queue, expanded, pos, found, edges, unresolved>>

-----------------------------------------------------------------------------
\* The weaker of the profile's and the identity's confidence; rung 0 is HIGH
\* whatever they say.
EdgeConfidence(cand) ==
  IF found.rung = "intra-repo" \/ found.cap < ClassConfidence(cand.class)
  THEN found.cap ELSE ClassConfidence(cand.class)

Edge(cand) ==
  [from |-> repo, to |-> cand.repo, env |-> found.env, provenance |-> found.provenance,
   confidence |-> EdgeConfidence(cand), deployed_ref |-> DeployedRef(repo, found.env),
   stale |-> FALSE, ambiguous |-> found.candidates # {}, candidates |-> found.candidates,
   at |-> found.at, rung |-> found.rung, follow |-> found.follow, of |-> cand]

\* Mutant: only the first candidate of an ambiguous reference is followed.
AddEdge_Pick(cand) ==
  /\ cand \in found.cands
  /\ edges' = Append(edges, Edge(cand))
  /\ queue' = IF /\ found.follow
                 /\ cand.repo \in WellNamed /\ cand.repo \notin expanded
              THEN Append(queue, cand.repo) ELSE queue
  /\ found' = Nothing
  /\ UNCHANGED <<world, expanded, repo, pos, unresolved>>

\* Mutant: a candidate is queued only when nothing waits.
AddEdge_Busy(cand) ==
  /\ cand \in found.cands
  /\ edges' = Append(edges, Edge(cand))
  /\ queue' = IF /\ found.follow /\ queue = <<>>
                 /\ cand.repo \in WellNamed /\ cand.repo \notin expanded
              THEN Append(queue, cand.repo) ELSE queue
  /\ found' = IF found.cands = {cand} THEN Nothing ELSE [found EXCEPT !.cands = @ \ {cand}]
  /\ UNCHANGED <<world, expanded, repo, pos, unresolved>>

AddEdge(cand) ==
  /\ cand \in found.cands
  /\ edges' = Append(edges, Edge(cand))
  /\ queue' = IF /\ found.follow
                 /\ cand.repo \in WellNamed /\ cand.repo \notin expanded
              THEN Append(queue, cand.repo) ELSE queue
  /\ found' = IF found.cands = {cand} THEN Nothing ELSE [found EXCEPT !.cands = @ \ {cand}]
  /\ UNCHANGED <<world, expanded, repo, pos, unresolved>>

Next ==
  \/ Expand \/ Revisit
  \/ SkipUndeclared \/ UseIntraRepo \/ GiveUp \/ NoIndexMatch \/ UseLadder \/ UseLiteral
  \/ TokensDone \/ RefsDone \/ EnvsDone
  \/ \E cand \in found.cands : AddEdge(cand)

Spec == Init /\ [][Next]_vars

\* traverse() runs in one thread, which is scheduled.
FairSpec == Spec /\ WF_vars(Next)

Done == repo = NoRepo /\ queue = <<>>

-----------------------------------------------------------------------------
(***************************************************************************)
(* What must hold of the edges and the unresolved references.              *)
(***************************************************************************)
Elements(seq) == {seq[i] : i \in DOMAIN seq}

Position == [env : Nat \ {0}, ref : Nat \ {0}, tok : Nat \ {0}]
Rung     == {"intra-repo", "static", "store_api", "preview_api", "literal"}

EdgeType ==
  [from : Repos, to : Repos, env : Envs, provenance : {"declared", "injected"},
   confidence : 1 .. 5, deployed_ref : Commits, stale : BOOLEAN, ambiguous : BOOLEAN,
   candidates : SUBSET Repos, at : Position, rung : Rung, follow : BOOLEAN, of : Entry]

FoundType ==
  [cands : (SUBSET Entry) \ {{}}, at : Position, env : Envs,
   provenance : {"declared", "injected"}, rung : Rung, cap : 1 .. 5,
   follow : BOOLEAN, candidates : SUBSET Repos]

TypeOK ==
  /\ world \in World
  /\ queue \in Seq(Repos)
  /\ expanded \subseteq Repos
  /\ repo \in Repos \cup {NoRepo}
  /\ pos \in Position
  /\ \/ found = Nothing
     \/ found \in FoundType /\ repo # NoRepo
  /\ edges \in Seq(EdgeType)
  /\ unresolved \subseteq
       [repo : Repos, env : Envs, at : Position,
        reason : {"secret", "no-index-match", "exhausted"}]

\* The target of a resolved reference is expanded, or it waits to be, even
\* when the reference that led to it is evaluated in the middle of a cycle.
TargetsWait ==
  \A e \in Elements(edges) :
    e.follow /\ e.to \in WellNamed => e.to \in expanded \cup Elements(queue)

\* No reference is evaluated twice, however often its repository is queued.
EvaluatedOnce ==
  \A i, j \in DOMAIN edges :
    /\ edges[i].from = edges[j].from
    /\ edges[i].at = edges[j].at
    /\ edges[i].of = edges[j].of
    => i = j

\* An ambiguous reference gets an edge to every one of its candidates.
NoAutoPick ==
  \A e \in Elements(edges) : \A c \in e.candidates :
    \/ \E f \in Elements(edges) : f.from = e.from /\ f.at = e.at /\ f.to = c
    \/ found # Nothing /\ repo = e.from /\ found.at = e.at

\* The positions of a repository's loops: one per token, or one for a
\* reference that has none.
PositionsOf(r, ref, i, j) ==
  {[env |-> i, ref |-> j, tok |-> k] : k \in 1 .. (IF ref.tokens = <<>> THEN 1 ELSE Len(ref.tokens))}

Positions(r) ==
  UNION {UNION {PositionsOf(r, Refs(r, Canon[world.envs[i]])[j], i, j) :
                  j \in DOMAIN Refs(r, Canon[world.envs[i]])} : i \in DOMAIN world.envs}

IsLiteral(r, at) == RefAt(r, at).tokens = <<>>

Recorded(r, at) ==
  \/ \E e \in Elements(edges) : e.from = r /\ e.at = at
  \/ \E u \in unresolved : u.repo = r /\ u.at = at

\* No declared token of an expanded repository is forgotten: it has become
\* an edge or is listed as unresolved.
TokensAccounted ==
  \A r \in expanded \ {repo} : \A at \in Positions(r) :
    ~IsLiteral(r, at) /\ IsDeclared(r, at) => Recorded(r, at)

Applicable(r, at) ==
  {v \in UNION {Elements(store) : store \in Elements(world.stores[NameOf[r]])} :
     Applies(v, TokenAt(r, at), EnvAt(at))}

\* A token that the stores know only as a secret makes no edge, by its store
\* or by any rung below it.
SecretFloor ==
  \A e \in Elements(edges) :
    e.rung \in {"store_api", "preview_api"} /\ Applicable(e.from, e.at) # {} =>
      \E v \in Applicable(e.from, e.at) : ~v.secret

\* An edge is found in the tree of the very commit it names (FR-24).
FromDeployedRef ==
  \A e \in Elements(edges) :
    LET refs == world.refs[NameOf[e.from]][e.deployed_ref]
    IN  /\ e.at.ref \in DOMAIN refs
        /\ IF e.rung = "literal"
           THEN refs[e.at.ref].tokens = <<>>
                  /\ e.of \in Lookup(world.index, refs[e.at.ref].raw, e.env)
           ELSE e.at.tok \in DOMAIN refs[e.at.ref].tokens

\* Every traversal ends.
Terminates == <>Done
=============================================================================
