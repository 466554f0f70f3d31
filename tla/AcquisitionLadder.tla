-------------------------- MODULE AcquisitionLadder --------------------------
(***************************************************************************)
(* How the value of a placeholder token is obtained                        *)
(* (tendril/core/resolver.py): rungs tried in order, the first that yields *)
(* a value wins.                                                           *)
(***************************************************************************)
EXTENDS ReverseIndex, Sequences

CONSTANTS Tokens,  \* token names, case-folded
          NoText   \* no value

ASSUME NoTextAssumption == NoText \notin Text

\* A variable of a store; `scope' is what scope["env"] says.
VarEntry == [key : Tokens, value : Text \cup {NoText}, secret : BOOLEAN,
             scope : Envs \cup {NoEnv}]

Store == Seq(VarEntry)

-----------------------------------------------------------------------------
Applies(entry, token, env) == entry.key = token /\ entry.scope \in {env, NoEnv}

FoundIn(store, token, env) == \E i \in DOMAIN store : Applies(store[i], token, env)

\* The first applicable variable, in the order the store lists them.
FindInStore(store, token, env) ==
  store[CHOOSE i \in DOMAIN store :
          /\ Applies(store[i], token, env)
          /\ \A j \in 1 .. i - 1 : ~Applies(store[j], token, env)]

Acquired(value, rung) == [resolved |-> TRUE, value |-> value, rung |-> rung, secret |-> FALSE]
Missing(rung, secret) == [resolved |-> FALSE, value |-> NoText, rung |-> rung, secret |-> secret]

\* Stores that end the search: they know the token, as a secret or with a value.
Decisive(stores, token, env) ==
  {i \in DOMAIN stores :
     /\ FoundIn(stores[i], token, env)
     /\ LET e == FindInStore(stores[i], token, env) IN e.secret \/ e.value # NoText}

\* Mutant: a variable marked secret is used when the store reveals it.
FromStores_Secrets(stores, token, env) ==
  LET i == CHOOSE i \in Decisive(stores, token, env) :
             \A j \in Decisive(stores, token, env) : i <= j
  IN  Acquired(FindInStore(stores[i], token, env).value, "store_api")

FromStores(stores, token, env) ==
  LET i == CHOOSE i \in Decisive(stores, token, env) :
             \A j \in Decisive(stores, token, env) : i <= j
      e == FindInStore(stores[i], token, env)
  IN  IF e.secret THEN Missing("store_api", TRUE) ELSE Acquired(e.value, "store_api")

\* Rung 4, the deploy logs, is part of acquire() but nothing passes it logs.
Acquire(token, env, static, stores, preview) ==
  CASE static # NoText -> Acquired(static, "static")
    [] static = NoText /\ Decisive(stores, token, env) # {} ->
         FromStores(stores, token, env)
    [] static = NoText /\ Decisive(stores, token, env) = {} /\ preview # NoText ->
         Acquired(preview, "preview_api")
    [] OTHER -> Missing("exhausted", FALSE)
=============================================================================
