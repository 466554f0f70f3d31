----------------------------- MODULE Redaction -----------------------------
(***************************************************************************)
(* What is done to evidence before a language model sees it                *)
(* (tendril/llm/redactor.py).  A value is the set of its words: one value  *)
(* occurs within another exactly when its words do.                        *)
(***************************************************************************)
EXTENDS Naturals, SequencesExt

CONSTANTS Words,     \* what values are made of
          Personal,  \* words and names that look like they are about a person
          Redacted,  \* the placeholder
          Locators

ASSUME WordsAssumption == Redacted \notin Words \cup Personal

\* `key' is what its name says of an entry: that it is secret
\* (is_secret_key), about a person (_PII_FIELD_NAMES), or neither; `is_secret'
\* is what the store said.  The locator stands for the other fields too: they are
\* sent as they are, nothing redacts them and nothing looks for people in them.
Evidence == [locator : Locators, key : {"plain", "secret", "personal"}, is_secret : BOOLEAN,
             value : SUBSET (Words \cup {Redacted})]

\* LLMJudge._process_item collects these from what it is given; the value of a
\* secret key is one of them only if the store said so.
KnownSecrets(evidence) ==
  {evidence[i].value : i \in {j \in DOMAIN evidence : evidence[j].is_secret}} \ {{}}

ByKey(e) == IF e.key = "secret" THEN [e EXCEPT !.value = {Redacted}] ELSE e

\* A secret that occurs in a value is replaced in it.
Without(value, secret) ==
  IF secret \subseteq value THEN (value \ secret) \cup {Redacted} ELSE value

\* The secrets are a Python set: they are replaced in any order, and one
\* may break up another that it is part of.
Replaced(value, secrets) ==
  LET after[n \in 0 .. Len(secrets)] ==
        IF n = 0 THEN value ELSE Without(after[n - 1], secrets[n])
  IN  after[Len(secrets)]

\* Mutant: values are compared with the secrets, not searched for them.
Redact_Whole(evidence, secrets) ==
  [i \in DOMAIN evidence |->
     LET e == ByKey(evidence[i])
     IN  IF e.value \in ToSet(secrets) THEN [e EXCEPT !.value = {Redacted}] ELSE e]

Redact(evidence, secrets) ==
  [i \in DOMAIN evidence |->
     LET e == ByKey(evidence[i]) IN [e EXCEPT !.value = Replaced(e.value, secrets)]]

\* The residency gate, after redaction: neither the name of the reference nor
\* any key or value is about a person.
Allowed(evidence, ref) ==
  /\ ref \notin Personal
  /\ \A i \in DOMAIN evidence :
       evidence[i].key # "personal" /\ evidence[i].value \cap Personal = {}
=============================================================================
