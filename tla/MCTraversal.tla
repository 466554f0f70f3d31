----------------------------- MODULE MCTraversal -----------------------------
(***************************************************************************)
(* Inputs for Traversal: repositories a, b and c, reachable at hosts of    *)
(* the same names, a host "d" that b and c both claim, and a repository x  *)
(* whose id has not the form that the traversal follows.                   *)
(***************************************************************************)
EXTENDS Traversal

MCRepos  == {"a", "b", "c", "x"}
MCNameOf == [r \in MCRepos |-> r]
MCHosts  == {"a", "b", "c", "d", "x"}
MCEnvs   == {"prod", "production", "staging"}
MCCanon  == [e \in MCEnvs |-> IF e = "production" THEN "prod" ELSE e]

Url(h, path) == [scheme |-> TRUE, host |-> h, spelling |-> "plain", port |-> "", path |-> path]

Identity(r, h, env) ==
  [value |-> Url(h, ""), class |-> "network", repo |-> r, env |-> env, of |-> 0]

MCIndex == {Identity(r, r, NoEnv) : r \in MCRepos}
             \cup {Identity(r, "d", NoEnv) : r \in {"b", "c"}}

Token(name) == [raw |-> [Url(Hole, "") EXCEPT !.scheme = FALSE], tokens |-> <<name>>,
                curly |-> TRUE, hint |-> NoEnv]
Literal(h)  == [raw |-> Url(h, ""), tokens |-> <<>>, curly |-> TRUE, hint |-> NoEnv]

Variable(name, value) ==
  [key |-> name, value |-> value, secret |-> FALSE, scope |-> NoEnv]

Lists(set, n) == UNION {[1 .. k -> set] : k \in 0 .. n}

\* Nothing but a reverse index and a store that has a URL for every token.
Plain ==
  [envs        |-> <<"prod">>,
   anchor      |-> "a",
   refs        |-> [n \in MCRepos |-> [k \in Commits |-> <<>>]],
   declared    |-> [n \in MCRepos |-> MCHosts],
   deployments |-> [n \in MCRepos |-> <<>>],
   stores      |-> [n \in MCRepos |->
                      <<<<Variable("a", Url("a", "")), Variable("b", Url("b", "")),
                          Variable("c", Url("c", "")), Variable("d", Url("d", "/x"))>>>>],
   intra       |-> [r \in MCRepos |-> [t \in MCHosts |-> NoText]],
   preview     |-> [r \in MCRepos |-> [t \in MCHosts |-> [e \in MCEnvs |-> NoText]]],
   profile     |-> [r \in MCRepos |-> 3],
   index       |-> MCIndex]

At(k, lists) == [n \in MCRepos |-> [j \in Commits |-> IF j = k THEN lists[n] ELSE <<>>]]

-----------------------------------------------------------------------------
Graph(ra, rb, rc) ==
  [Plain EXCEPT !.refs = At("HEAD", [n \in MCRepos |->
                            IF n = "a" THEN ra ELSE IF n = "b" THEN rb ELSE rc])]

\* Every shape of three repositories with up to two references in a and one in
\* b and c: chains, cycles, self-references, two ways to one target, an
\* ambiguous host, a reference without a token.
Shapes ==
  LET tokens == {Token(h) : h \in {"a", "b", "c", "d"}}
  IN  {Graph(ra, rb, rc) : ra \in Lists(tokens \cup {Literal("c")}, 2),
                           rb \in Lists(tokens, 1), rc \in Lists(tokens, 1)}

\* The cycles among them, in two environments.
Cycles ==
  LET back == {Token(h) : h \in {"a", "b"}}
  IN  {[Graph(<<Token(h)>>, rb, rc) EXCEPT !.envs = <<"prod", "staging">>] :
         h \in {"b", "d"}, rb \in Lists(back, 1), rc \in Lists(back, 1)}

GraphWorlds == Shapes \cup Cycles

\* Everything the ladder can meet on the way from one token to its value:
\* up to two stores with scoped, secret and empty variables, two commits with
\* other references in them, undeclared tokens, rung 0 and rung 3.
V(h, secret, env) == [Variable("a", Url(h, "")) EXCEPT !.secret = secret, !.scope = env]

\* Stores that do not decide the token in "prod", and such as do.
Silent == {<<>>, <<V("x", FALSE, "staging")>>, <<Variable("a", NoText)>>}

Stores ==
  Silent \cup
    {<<V("b", FALSE, NoEnv)>>, <<V("x", FALSE, "prod")>>, <<V("c", TRUE, NoEnv)>>,
     <<V("d", FALSE, "prod"), V("b", FALSE, NoEnv)>>, <<V("b", FALSE, NoEnv), V("d", FALSE, "prod")>>}

Deployed ==
  {<<>>, <<[env |-> "production", sha |-> "sha1"]>>,
   <<[env |-> "production", sha |-> ""], [env |-> "staging", sha |-> "sha0"],
     [env |-> "prod", sha |-> "sha1"]>>}

\* https://{token} in the configuration file of one environment.
Hinted(name, env) == [Token(name) EXCEPT !.hint = env, !.raw.scheme = TRUE]

OnBranch ==
  <<Literal("b"), [Literal("c") EXCEPT !.raw.path = "/far"], [Literal("d") EXCEPT !.hint = "staging"],
    Token("a"), [Token("a") EXCEPT !.curly = FALSE]>>

\* With its own values for stores, declared tokens, rung 0 and rung 3.
Ladder(s1, s2, decl, i, p) ==
  {[Plain EXCEPT !.stores["a"] = <<s1, s2>>, !.deployments["a"] = d,
                 !.refs["a"] = [k \in Commits |->
                    IF k = "HEAD" THEN OnBranch
                    ELSE <<[Token("a") EXCEPT !.tokens = <<"a", "b">>]>> \o extra],
                 !.declared["a"] = decl, !.intra["a"]["a"] = i, !.preview["a"]["a"]["prod"] = p,
                 !.envs = envs] :
     d \in Deployed, extra \in {<<>>, <<Hinted("a", "prod")>>},
     envs \in {<<"prod">>, <<"production", "staging">>}}

\* What an earlier rung decides is tried with one value of the later ones.
LadderWorlds ==
  UNION ({Ladder(s1, s2, {"a"}, NoText, NoText) : s1 \in Silent, s2 \in Stores}
    \cup {Ladder(s1, s2, {"a"}, NoText, NoText) :
            s1 \in Stores \ Silent, s2 \in {<<>>, <<V("x", FALSE, "prod")>>}}
    \cup {Ladder(s1, s2, {"a"}, NoText, Url("c", "")) : s1 \in Silent, s2 \in Silent}
    \cup {Ladder(s1, <<>>, decl, i, Url("c", "")) :
            s1 \in {<<>>, <<V("b", FALSE, NoEnv)>>}, decl \in {{"a"}, {"b"}},
            i \in {NoText, Url("d", ""), Url(Hole, "")}})

MCWorlds == GraphWorlds \cup LadderWorlds
=============================================================================
