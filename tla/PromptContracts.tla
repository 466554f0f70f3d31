-------------------------- MODULE PromptContracts --------------------------
(***************************************************************************)
(* What the three prompt contracts make of the JSON a language model       *)
(* answers with (tendril/llm/contracts).  An answer has a field for each   *)
(* thing some contract looks at.                                           *)
(***************************************************************************)
CONSTANTS Values  \* texts a model may propose

Contracts == {"AMBIGUOUS_MATCH", "UNRESOLVED_REF", "IDENTITY_CLASS"}

Null == "null"

\* `value' is proposed_value in one contract and candidate_id in another.
\* A list or a number in place of an object is valid JSON too.
Response ==
  [json : {"object", "list", "number"}, reasoning : BOOLEAN,
   decision : {"keep-ambiguous", "ground-to-candidate", "other"},
   value : Values \cup {"absent", Null, "blank", "number"},
   class : {"known", "other", "list"}]

\* What complete() returns when the model's text is not JSON.
Nothing == [json |-> "object", reasoning |-> FALSE, decision |-> "other", value |-> "absent",
            class |-> "other"]

\* What complete() raises, as the judge tells it apart.
Refusals == {"rate-limited", "llm-error"}

\* validate_response of each contract raises MalformedResponseError ...
BadMatch(r) ==
  \/ ~r.reasoning
  \/ r.decision = "other"
  \/ r.decision = "ground-to-candidate" /\ r.value \in {"absent", Null, "blank"}

BadRef(r) == r.json = "list" \/ ~r.reasoning \/ r.value \in {"absent", "blank", "number"}

BadClass(r) == ~r.reasoning \/ r.class = "other"

Malformed(type, r) ==
  CASE type = "AMBIGUOUS_MATCH" -> BadMatch(r)
    [] type = "UNRESOLVED_REF"  -> BadRef(r)
    [] type = "IDENTITY_CLASS"  -> BadClass(r)

\* ... or, first, something that is not expected of it: the response has no
\* get(), a class cannot be looked up in a set, or pydantic objects to a
\* candidate_id that is no text.
Raises(type, r) ==
  \/ r.json = "number"
  \/ r.json = "list" /\ type # "UNRESOLVED_REF"
  \/ type = "IDENTITY_CLASS" /\ r.class = "list"
  \/ type = "AMBIGUOUS_MATCH" /\ ~BadMatch(r) /\ r.value = "number"

\* Null is no proposal.  IDENTITY_CLASS classifies `raw' and proposes it.
Proposal(type, r, raw) ==
  CASE type = "AMBIGUOUS_MATCH" -> IF r.decision = "keep-ambiguous" THEN Null ELSE r.value
    [] type = "UNRESOLVED_REF"  -> r.value
    [] type = "IDENTITY_CLASS"  -> raw
=============================================================================
