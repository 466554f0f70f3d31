----------------------------- MODULE MCLLMJudge -----------------------------
(***************************************************************************)
(* Inputs for LLMJudge: items as the hybrid mode tests write them, and     *)
(* items as the traversal leaves them.                                     *)
(***************************************************************************)
EXTENDS LLMJudge

MCNameOf ==
  [r \in Repos |-> CASE r = "github:o/a" -> "a" [] r = "github:o/b" -> "b" [] r = "github:o/c" -> "c"]

Entry(locator, value) ==
  [locator |-> locator, key |-> "plain", is_secret |-> FALSE, value |-> value]

Question(type) ==
  [type |-> type, ref |-> "SVC_URL", env |-> "prod", from |-> "github:o/a", reason |-> "not-found",
   evidence |-> <<Entry("app.json", {"host"}), Entry("octopus", {"token", "host"})>>,
   bytes |-> 1, raw |-> "b.internal"]

Unresolved == Question("UNRESOLVED_REF")

\* A secret, a value it occurs in, one that is named secret and one that is
\* part of another and looks personal.
Secret(e) == [e EXCEPT !.is_secret = TRUE]

MCItems ==
  {Unresolved, Question("AMBIGUOUS_MATCH"), Question("IDENTITY_CLASS"), Question("OTHER"),
   [Unresolved EXCEPT !.env = "staging"],
   [Unresolved EXCEPT !.reason = "is-secret"],
   [Unresolved EXCEPT !.bytes = 2],
   [Unresolved EXCEPT !.evidence = @ \o @],
   [Unresolved EXCEPT !.ref = "owner"],
   [Unresolved EXCEPT !.evidence[1].value = {"host", "mail"}],
   [Unresolved EXCEPT !.evidence[2].key = "personal"],
   [Unresolved EXCEPT !.evidence[2].key = "secret"],
   [Unresolved EXCEPT !.evidence = <<Secret(Entry("app.json", {"token"})), @[2]>>],
   [Unresolved EXCEPT !.evidence = <<Secret(Entry("app.json", {"mail"})),
                                     Entry("octopus", {"mail", "host"})>>],
   [Unresolved EXCEPT !.evidence = <<Secret(Entry("app.json", {"token"})),
                                     Secret(Entry("octopus", {"token", "host"}))>>]}

MCInputs ==
  {<<x>> : x \in MCItems}
    \cup {<<x, y>> : x \in MCItems, y \in {Unresolved, [Unresolved EXCEPT !.env = "staging"],
                                          Question("AMBIGUOUS_MATCH")}}

\* What the traversal leaves of a token: a repository, an environment and no
\* more than that has a name the judge looks for.
Left(env) ==
  [Unresolved EXCEPT !.ref = "", !.from = "", !.env = env, !.evidence = <<>>, !.raw = Null]

TraversalInputs == {<<Left(x), Left(y)>> : x, y \in {"prod", "staging"}}

MCIndexes ==
  LET owners(prod, staging) == [e \in {"prod", "staging"} |-> IF e = "prod" THEN prod ELSE staging]
      none == owners(<<>>, <<>>)
  IN  {[v \in {"b.internal", "c.internal"} |->
          IF v = "b.internal" THEN owners(<<"github:o/b">>, <<"github:o/c", "github:o/b">>) ELSE none],
       [v \in {"b.internal", "c.internal"} |->
          IF v = "c.internal" THEN owners(<<>>, <<"github:o/c">>) ELSE none]}

Says == [Nothing EXCEPT !.reasoning = TRUE, !.decision = "ground-to-candidate", !.class = "known"]

MCAnswers ==
  [type \in Contracts |->
     {Nothing, [Says EXCEPT !.value = "b.internal"], [Says EXCEPT !.json = "number"]}
       \cup CASE type = "UNRESOLVED_REF" -> {[Says EXCEPT !.value = Null]}
              [] type = "AMBIGUOUS_MATCH" -> {[Says EXCEPT !.decision = "keep-ambiguous"]}
              [] type = "IDENTITY_CLASS" -> {[Says EXCEPT !.class = "other"]}]

TraversalAnswers == [type \in Contracts |-> {[Says EXCEPT !.value = "b.internal"]}]
=============================================================================
