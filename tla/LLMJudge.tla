------------------------------ MODULE LLMJudge ------------------------------
(***************************************************************************)
(* The hybrid pass of `tendril graph build': what the traversal left       *)
(* unresolved is put to a language model, item by item, and a proposal     *)
(* that the reverse index knows becomes an edge (tendril/llm).  Answers    *)
(* are cached on disk, from one build to the next.  A build may be killed  *)
(* at any time, and the model may answer anything or not at all.           *)
(***************************************************************************)
EXTENDS Redaction, PromptContracts

CONSTANTS
  Repos,       \* repositories, by full name
  NameOf,      \* deployable_id: the name a repository is indexed under
  Envs,
  Refs,        \* what consumer references are called; "" is no name
  Answers,     \* what a model may answer to a question of a type
  Inputs,      \* what the builds of a run have to judge
  Indexes,     \* the indexes they may have
  MaxFiles, MaxBytes,  \* the budget
  MaxJudged    \* bound: items judged in all builds together

\* An unresolved reference.  `from' is "" where the item has no from_id;
\* `raw' is Null where it has neither raw_value nor ref.
Item == [type : Contracts \cup {"OTHER"}, ref : Refs, env : Envs, from : Repos \cup {""},
         reason : {"is-secret", "not-found"}, evidence : Seq(Evidence), bytes : Nat,
         raw : Values \cup {Null}]

\* What ReverseIndex.lookup returns, in its order.
Index == [Values -> [Envs -> Seq(Repos)]]

ASSUME ItemsAssumption  == Inputs \subseteq Seq(Item) /\ Null \notin Values /\ "" \notin Repos
ASSUME IndexAssumption  == Indexes \subseteq Index
ASSUME AnswerAssumption == Answers \in [Contracts -> SUBSET Response]
ASSUME BudgetAssumption == {MaxFiles, MaxBytes, MaxJudged} \subseteq Nat /\ "" \in Refs

VARIABLES
  items,   \* the same in every build, up to the order evidence is found in
  cache,   \* the files of the cache
  traces,  \* how many reasoning traces are on disk
  build,   \* the build that is running
  request, \* the last that was sent to the model
  stored,  \* the edges in the graph
  last     \* the last build whose pass ended

vars == <<items, cache, traces, build, request, stored, last>>

NoBuild == [at |-> "none", n |-> 0]
NoRequest == [of |-> 0]
NoEntry == [json |-> "none"]
Broken  == [json |-> "broken"]  \* a file that is not JSON

Init ==
  /\ items \in Inputs
  /\ cache = <<>>
  /\ traces = 0
  /\ build = NoBuild
  /\ request = NoRequest
  /\ stored = {}
  /\ last = [clean |-> FALSE]

-----------------------------------------------------------------------------
\* A build finds the items, its own index, and a disk that works or not.
Begin(index, disk, reversed) ==
  /\ build.at \in {"none", "stored", "failed", "killed"}
  /\ (build.n + 1) * Len(items) <= MaxJudged
  /\ build' = [at |-> "judging", n |-> build.n + 1, index |-> index, disk |-> disk,
               items |-> [i \in DOMAIN items |->
                            IF reversed THEN [items[i] EXCEPT !.evidence = Reverse(@)] ELSE items[i]],
               next |-> 1, kept |-> <<>>, edges |-> <<>>, asked |-> 0, refused |-> FALSE,
               response |-> NoEntry]
  /\ UNCHANGED <<items, cache, traces, request, stored, last>>

Current  == build.items[build.next]
Judging  == build.at = "judging" /\ build.next \in DOMAIN build.items
Answered == build.at = "answered"

\* Mutant: the item is consumed without a trace of it.
Keep_Not(reason) == build' = [build EXCEPT !.at = "judging", !.next = @ + 1]

\* The item stays unresolved, with a reason.
Keep(reason) ==
  build' = [build EXCEPT !.at = "judging", !.next = @ + 1,
                         !.kept = Append(@, [of |-> build.next, reason |-> reason])]

\* Mutant: evidence in the order it was found in.
Key_Unsorted(item) ==
  [type |-> item.type, ref |-> item.ref,
   locators |-> [i \in DOMAIN item.evidence |-> item.evidence[i].locator]]

\* The goal and the sorted locators: how often each occurs.
Key(item) ==
  [type |-> item.type, ref |-> item.ref,
   locators |-> [l \in Locators |->
                   Cardinality({i \in DOMAIN item.evidence : item.evidence[i].locator = l})]]

\* DiskResponseCache.get: a file that cannot be read counts as no file.
Cached(key) ==
  IF build.disk /\ key \in DOMAIN cache /\ cache[key] # Broken THEN cache[key] ELSE NoEntry

\* DiskResponseCache.put, not atomic: the build may be killed before its end.
Put(entry) ==
  cache' = IF build.disk
           THEN [k \in DOMAIN cache \cup {Key(Current)} |->
                   IF k = Key(Current) THEN entry ELSE cache[k]]
           ELSE cache

InBudget(item) == Len(item.evidence) <= MaxFiles /\ item.bytes <= MaxBytes

-----------------------------------------------------------------------------
\* _process_item, up to the cache.
SkipSecret ==
  /\ Judging
  /\ Current.reason = "is-secret"
  /\ Keep("unresolvable-redacted")
  /\ UNCHANGED <<items, cache, traces, request, stored, last>>

OverBudget ==
  /\ Judging
  /\ Current.reason # "is-secret"
  /\ ~InBudget(Current)
  /\ Keep("budget-exceeded")
  /\ UNCHANGED <<items, cache, traces, request, stored, last>>

Admitted == Judging /\ Current.reason # "is-secret" /\ InBudget(Current)

Orders == SetToSeqs(KnownSecrets(Current.evidence))

Block(order) ==
  /\ ~Allowed(Redact(Current.evidence, order), Current.ref)
  /\ Keep("unresolvable-redacted")
  /\ UNCHANGED <<items, cache, traces, request, stored, last>>

\* run() keeps the item itself when it was not processed.
NoContract(order) ==
  /\ Allowed(Redact(Current.evidence, order), Current.ref)
  /\ Current.type \notin Contracts
  /\ Keep(Current.reason)
  /\ UNCHANGED <<items, cache, traces, request, stored, last>>

Hit(order) ==
  /\ Allowed(Redact(Current.evidence, order), Current.ref)
  /\ Current.type \in Contracts
  /\ Cached(Key(Current)) # NoEntry
  /\ build' = [build EXCEPT !.at = "answered", !.response = Cached(Key(Current))]
  /\ UNCHANGED <<items, cache, traces, request, stored, last>>

\* Of the item a prompt has the goal, which names the reference, and the
\* evidence, every field of it; build_prompt leaves the candidates of an
\* ambiguous match out of what it returns.
Prompt(evidence) == [of |-> build.next, goal |-> Current.ref, evidence |-> evidence]

Ask(order) ==
  /\ Allowed(Redact(Current.evidence, order), Current.ref)
  /\ Current.type \in Contracts
  /\ Cached(Key(Current)) = NoEntry
  /\ request' = Prompt(Redact(Current.evidence, order))
  /\ build' = [build EXCEPT !.at = "asking", !.asked = @ + 1]
  /\ UNCHANGED <<items, cache, traces, stored, last>>

\* The answer is cached as it came, before anything looks at it.
Respond(r) ==
  /\ build.at = "asking"
  /\ Put(r)
  /\ build' = [build EXCEPT !.at = "answered", !.response = r]
  /\ UNCHANGED <<items, traces, request, stored, last>>

\* LLMError: a timeout, a limit, or any other failure of the endpoint.
Refuse(reason) ==
  /\ build.at = "asking"
  /\ build' = [build EXCEPT !.at = "judging", !.next = @ + 1, !.refused = TRUE,
                            !.kept = Append(@, [of |-> build.next, reason |-> reason])]
  /\ UNCHANGED <<items, cache, traces, request, stored, last>>

-----------------------------------------------------------------------------
\* _process_item, from the response on.
Proposed == Proposal(Current.type, build.response, Current.raw)

Owners == IF Proposed = Null THEN <<>> ELSE build.index[Proposed][Current.env]

\* complete() takes the first of the model's choices: there may be none.
NoChoice == build.at = "asking"

\* Something that is not expected of complete() or validate_response ends the
\* build.
Raise ==
  /\ NoChoice \/ (Answered /\ Raises(Current.type, build.response))
  /\ build' = [build EXCEPT !.at = "failed"]
  /\ UNCHANGED <<items, cache, traces, request, stored, last>>

Valid == ~Raises(Current.type, build.response) /\ ~Malformed(Current.type, build.response)

Discard ==
  /\ Answered
  /\ ~Raises(Current.type, build.response) /\ Malformed(Current.type, build.response)
  /\ Keep("llm-error")
  /\ UNCHANGED <<items, cache, traces, request, stored, last>>

NewTrace == traces' = IF build.disk THEN traces + 1 ELSE traces

\* No proposal.  A match that stays ambiguous has its reasoning recorded.
NoProposal ==
  /\ Answered /\ Valid
  /\ Proposed = Null
  /\ Keep(Current.reason)
  /\ IF Current.type = "AMBIGUOUS_MATCH" THEN NewTrace ELSE UNCHANGED traces
  /\ UNCHANGED <<items, cache, request, stored, last>>

\* GroundingStep, on this build's index whether the answer is cached or not.
Ungrounded ==
  /\ Answered /\ Valid
  /\ Proposed # Null
  /\ Owners = <<>>
  /\ Keep("grounding-failed")
  /\ UNCHANGED <<items, cache, traces, request, stored, last>>

\* Mutant: a proposal is grounded in any environment.
Accept_AnyEnv ==
  /\ Answered /\ Valid
  /\ Proposed # Null
  /\ \E env \in Envs :
       /\ build.index[Proposed][env] # <<>>
       /\ build' = [build EXCEPT
                      !.at = "judging", !.next = @ + 1,
                      !.edges = Append(@, [of |-> build.next, from |-> Current.from,
                                           to |-> NameOf[Head(build.index[Proposed][env])],
                                           env |-> Current.env])]
  /\ NewTrace
  /\ UNCHANGED <<items, cache, request, stored, last>>

\* The first of those who own what was proposed.
Accept ==
  /\ Answered /\ Valid
  /\ Proposed # Null
  /\ Owners # <<>>
  /\ build' = [build EXCEPT
                 !.at = "judging", !.next = @ + 1,
                 !.edges = Append(@, [of |-> build.next, from |-> Current.from,
                                      to |-> NameOf[Head(Owners)], env |-> Current.env])]
  /\ NewTrace
  /\ UNCHANGED <<items, cache, request, stored, last>>

-----------------------------------------------------------------------------
Result(b) == [kept |-> b.kept, edges |-> b.edges]

\* The pass ends.  It was clean if every question of it was answered and
\* every answer could be cached.
Finish ==
  /\ build.at = "judging" /\ build.next \notin DOMAIN build.items
  /\ build' = [build EXCEPT !.at = "judged"]
  /\ last' = [clean |-> build.disk /\ ~build.refused, index |-> build.index,
              result |-> Result(build)]
  /\ UNCHANGED <<items, cache, traces, request, stored>>

StoreEdge(e) == [from |-> e.from, to |-> e.to, env |-> e.env]

\* Edges are stored in the order of their from_id, so that one without comes
\* first, and the store does not take a node without an id.
Persist ==
  /\ build.at = "judged"
  /\ IF \E i \in DOMAIN build.edges : build.edges[i].from = ""
     THEN build' = [build EXCEPT !.at = "failed"] /\ UNCHANGED stored
     ELSE /\ build' = [build EXCEPT !.at = "stored"]
          /\ stored' = stored \cup {StoreEdge(build.edges[i]) : i \in DOMAIN build.edges}
  /\ UNCHANGED <<items, cache, traces, request, last>>

Running == build.at \in {"judging", "asking", "answered", "judged"}

Kill ==
  /\ Running
  /\ build' = [build EXCEPT !.at = "killed"]
  /\ UNCHANGED <<items, cache, traces, request, stored, last>>

KillInPut ==
  /\ build.at = "asking" /\ build.disk
  /\ Put(Broken)
  /\ build' = [build EXCEPT !.at = "killed"]
  /\ UNCHANGED <<items, traces, request, stored, last>>

Next ==
  \/ \E index \in Indexes, disk, reversed \in BOOLEAN : Begin(index, disk, reversed)
  \/ SkipSecret \/ OverBudget
  \/ Admitted /\ \E order \in Orders : Block(order) \/ NoContract(order) \/ Hit(order) \/ Ask(order)
  \/ build.at = "asking" /\ \E r \in Answers[Current.type] : Respond(r)
  \/ \E reason \in Refusals : Refuse(reason)
  \/ Raise \/ Discard \/ NoProposal \/ Ungrounded \/ Accept
  \/ Finish \/ Persist \/ Kill \/ KillInPut

Spec == Init /\ [][Next]_vars

-----------------------------------------------------------------------------
\* Why an item is still there.
Reasons == {"is-secret", "not-found", "unresolvable-redacted", "budget-exceeded",
            "grounding-failed"} \cup Refusals

Kept  == [of : Nat, reason : Reasons]
Found == [of : Nat, from : Repos \cup {""}, to : {NameOf[r] : r \in Repos}, env : Envs]

Build == [at : {"judging", "asking", "answered", "judged", "stored", "failed", "killed"},
          n : Nat, index : Indexes, disk : BOOLEAN, items : Seq(Item), next : Nat \ {0},
          kept : Seq(Kept), edges : Seq(Found), asked : Nat, refused : BOOLEAN,
          response : Response \cup {NoEntry}]

TypeOK ==
  /\ items \in Inputs
  /\ \A key \in DOMAIN cache : cache[key] \in Response \cup {Broken}
  /\ traces \in Nat
  /\ build = NoBuild \/ build \in Build
  /\ build.at \in {"asking", "answered"} =>
       build.next \in DOMAIN build.items /\ Current.type \in Contracts
  /\ Answered => build.response \in Response
  /\ stored \subseteq [from : Repos, to : {NameOf[r] : r \in Repos}, env : Envs]

Among(seq, i) == \E k \in DOMAIN seq : seq[k].of = i
Once(seq)     == \A j, k \in DOMAIN seq : seq[j].of = seq[k].of => j = k

\* When the pass ends every item has become an edge, or is still there with a
\* reason: once, and never both.
Accounted ==
  build.at = "judged" =>
    /\ Once(build.kept)
    /\ Once(build.edges)
    /\ \A i \in DOMAIN build.items : Among(build.kept, i) <=> ~Among(build.edges, i)

\* No personal word, no secret of the store as a whole, no value of a secret key.
Sendable(item, evidence) ==
  \A i \in DOMAIN evidence :
    /\ evidence[i].value \cap Personal = {}
    /\ \A s \in KnownSecrets(item.evidence) : ~(s \subseteq evidence[i].value)
    /\ evidence[i].key = "secret" => evidence[i].value = {Redacted}

\* In the values of a request no secret that the store flagged is left, not even
\* within the value of another entry, no value of a secret key under that key
\* and no personal word; and its goal does not name a person
\* (SecretRedactor.redact, ResidencyGate.evaluate).  That is less than FR-004 and
\* SC-002 ask for, and all that the code does: a copy of the value of a secret
\* key that the store did not flag, a secret in the goal, and whatever a locator
\* holds are sent.
ValuesAreClean ==
  request # NoRequest =>
    Sendable(items[request.of], request.evidence) /\ request.goal \notin Personal

\* An edge leads to what the index of the build it was found in says of its
\* environment, even when the answer was cached under another index (FR-011).
Grounded ==
  Running => \A i \in DOMAIN build.edges :
    \E v \in Values : \E k \in DOMAIN build.index[v][build.edges[i].env] :
      build.edges[i].to = NameOf[build.index[v][build.edges[i].env][k]]

\* After a clean build another one with the same index asks nothing and has
\* the same result, whatever order evidence is found in and however many
\* builds were killed in between (SC-004).
Repeatable ==
  [][build'.at = "judged" /\ last.clean /\ build.disk /\ build.index = last.index =>
       Result(build') = last.result /\ build.asked = 0]_vars

\* An accepted proposal ends up as an edge of the graph (FR-008).
AcceptedIsStored ==
  build.at \in {"stored", "failed"} =>
    \A i \in DOMAIN build.edges : StoreEdge(build.edges[i]) \in stored
=============================================================================
