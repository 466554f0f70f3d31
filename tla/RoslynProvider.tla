--------------------------- MODULE RoslynProvider ---------------------------
(***************************************************************************)
(* RoslynIntraRepoProvider (tendril/connectors/intra/roslyn_subprocess.py) *)
(* in the hands of several threads: a bridge that the first call makes,    *)
(* the three operations over it, and close().  The bridge itself is what   *)
(* SubprocessBridge is shown to be: it serves one call at a time and ends  *)
(* each with a result, a SubprocessError or the exception of a line that   *)
(* it cannot decode or that is no object; a call that a _close() of the    *)
(* same bridge overlaps may end with another exception and may leave a     *)
(* child that the bridge has lost.                                         *)
(*                                                                         *)
(* Steps are the accesses to self._bridge (lines 157, 159, 164, 168, 169   *)
(* and 170).                                                               *)
(***************************************************************************)
EXTENDS Naturals, FiniteSets

CONSTANTS Threads,
          Bridges,    \* bound: slots for bridge objects, reused once done with
          NoBridge,   \* None
          Keys,       \* keys of configuration values
          SecretKeys, \* those for which is_secret_key holds
          MaxCloses   \* bound: calls of close() that find a bridge

ASSUME BridgeAssumption == NoBridge \notin Bridges
ASSUME KeysAssumption   == SecretKeys \subseteq Keys /\ "none" \notin Keys
ASSUME ThreadAssumption == IsFiniteSet(Threads) /\ Threads # {} /\ IsFiniteSet(Bridges)
ASSUME ClosesAssumption == MaxCloses \in Nat

VARIABLES
  configured, \* is there a binary path
  bridge,     \* self._bridge
  pc,         \* where each thread is
  task,       \* the operation it executes
  held,       \* the bridge it has in hand
  stirred,    \* its exchange and a _close() of the same bridge overlapped
  server,     \* server[b]: the child of bridge b runs
  lost,       \* children that run and that their bridge has lost
  outcome,    \* how each thread's last operation ended
  closes,     \* number of calls of close() that found a bridge
  sent,       \* history: keys that were sent to a server
  raced,      \* history: two threads were about to make a bridge at once
  met         \* history: a close() overlapped a call or another close()

threadVars == <<pc, task, held, stirred, outcome>>
vars == <<configured, bridge, threadVars, server, lost, closes, sent, raced, met>>

-----------------------------------------------------------------------------
Task == [op : {"capabilities", "analyze"}, key : {"none"}] \cup [op : {"resolve"}, key : Keys]

InCall(t)  == pc[t] \in {"test", "make", "get", "call", "served"}
InClose(t) == pc[t] \in {"pick", "closing", "clear"}

NoTask == [op |-> "none", key |-> "none"]
Ended(kind, keys) == [kind |-> kind, keys |-> keys]
NoOutcome == Ended("none", {})

Init ==
  /\ configured \in BOOLEAN
  /\ bridge = NoBridge
  /\ pc = [t \in Threads |-> "idle"]
  /\ task = [t \in Threads |-> NoTask]
  /\ held = [t \in Threads |-> NoBridge]
  /\ stirred = [t \in Threads |-> FALSE]
  /\ outcome = [t \in Threads |-> NoOutcome]
  /\ server = [b \in Bridges |-> FALSE]
  /\ lost = 0
  /\ closes = 0
  /\ sent = {}
  /\ raced = FALSE
  /\ met = FALSE

Goto(t, where) == pc' = [pc EXCEPT ![t] = where]

\* An operation is over; its frame and the reference to the bridge are gone.
Leave(t, result) ==
  /\ Goto(t, "idle")
  /\ task' = [task EXCEPT ![t] = NoTask]
  /\ held' = [held EXCEPT ![t] = NoBridge]
  /\ stirred' = [stirred EXCEPT ![t] = FALSE]
  /\ outcome' = [outcome EXCEPT ![t] = result]

Raised   == Ended("raised", {})
Garbled  == Ended("garbled", {})   \* raised over what the server wrote
Degraded == Ended("degraded", {})  \* all flags false, no facts, not found

-----------------------------------------------------------------------------
(***************************************************************************)
(* capabilities(), analyze() and resolve_value().                          *)
(***************************************************************************)
\* A secret key is refused before anything else, and without a binary there
\* is nothing to ask.
Begin(t, job) ==
  /\ pc[t] = "idle"
  /\ LET secret == job.op = "resolve" /\ job.key \in SecretKeys
     IN  IF secret \/ ~configured
         THEN Leave(t, IF secret THEN Ended("is-secret", {}) ELSE Degraded)
         ELSE /\ Goto(t, "test")
              /\ task' = [task EXCEPT ![t] = job]
              /\ UNCHANGED <<held, stirred, outcome>>
  /\ UNCHANGED <<configured, bridge, server, lost, closes, sent>>

Test(t) ==
  /\ pc[t] = "test"
  /\ Goto(t, IF bridge = NoBridge THEN "make" ELSE "get")
  /\ UNCHANGED <<configured, bridge, task, held, stirred, outcome, server, lost, closes, sent>>

\* A slot that nobody refers to and whose child, if it had one, is gone.
Free(b) == b # bridge /\ ~server[b] /\ \A t \in Threads : held[t] # b

\* The constructor starts no process.
Make(t) ==
  /\ pc[t] = "make"
  /\ \E b \in Bridges : Free(b) /\ bridge' = b
  /\ Goto(t, "get")
  /\ UNCHANGED <<configured, task, held, stirred, outcome, server, lost, closes, sent>>

\* _get_bridge returns what self._bridge is by now; None has no call().
Get(t) ==
  /\ pc[t] = "get"
  /\ IF bridge = NoBridge
     THEN Leave(t, Raised)
     ELSE /\ held' = [held EXCEPT ![t] = bridge]
          /\ Goto(t, "call")
          /\ UNCHANGED <<task, stirred, outcome>>
  /\ UNCHANGED <<configured, bridge, server, lost, closes, sent>>

\* bridge.call() gets the bridge's lock; its child is started when none runs.
Enter(t) ==
  /\ pc[t] = "call"
  /\ \A u \in Threads : pc[u] = "served" => held[u] # held[t]
  /\ LET closing == {u \in Threads : pc[u] = "closing" /\ held[u] = held[t]}
     IN  stirred' = [u \in Threads |-> stirred[u] \/ u \in closing \/ (u = t /\ closing # {})]
  /\ server' = [server EXCEPT ![held[t]] = TRUE]
  /\ sent' = sent \cup (Keys \cap {task[t].key})
  /\ Goto(t, "served")
  /\ UNCHANGED <<configured, bridge, task, held, outcome, lost, closes>>

\* Mutant: secret keys are dropped from the value sets only.
Facts_ValuesOnly(values, chains) == Ended("answer", (values \ SecretKeys) \cup chains)

\* _deserialize_facts: keys of value sets and def-use chains, without secrets.
Facts(values, chains) == Ended("answer", (values \cup chains) \ SecretKeys)

Results(t) ==
  CASE task[t].op = "capabilities" -> {Ended("answer", {}), Degraded}
    [] task[t].op = "analyze"      -> {Facts(v, c) : v \in SUBSET Keys, c \in SUBSET Keys}
    [] task[t].op = "resolve"      -> {Ended("answer", {task[t].key}), Degraded}

\* A call that reads a line leaves the child running, if no close() saw to it.
ChildStays(t) ==
  IF stirred[t] THEN \E on \in BOOLEAN : server' = [server EXCEPT ![held[t]] = on]
  ELSE UNCHANGED server

\* The call returns a result, which may be that the version is incompatible or
\* that the key is not found.
Answer(t) ==
  /\ pc[t] = "served"
  /\ \E result \in Results(t) : Leave(t, result)
  /\ ChildStays(t)
  /\ UNCHANGED <<configured, bridge, lost, closes, sent>>

\* The line is none that the bridge can decode or take for an object, or the
\* result in it has not the shape that is taken apart here (it is no object, or
\* its value sets are none): no except clause names what is raised.
Garble(t) ==
  /\ pc[t] = "served"
  /\ Leave(t, Garbled)
  /\ ChildStays(t)
  /\ UNCHANGED <<configured, bridge, lost, closes, sent>>

\* Mutant: after a failure the provider starts over with another bridge.
Fail_Reset(t) ==
  /\ pc[t] = "served"
  /\ \E on \in BOOLEAN : server' = [server EXCEPT ![held[t]] = on]
  /\ bridge' = NoBridge
  /\ Leave(t, Degraded)
  /\ UNCHANGED <<configured, lost, closes, sent>>

\* SubprocessError, with the child dead or alive.
Fail(t) ==
  /\ pc[t] = "served"
  /\ \E on \in BOOLEAN : server' = [server EXCEPT ![held[t]] = on]
  /\ Leave(t, Degraded)
  /\ UNCHANGED <<configured, bridge, lost, closes, sent>>

\* AssertionError, AttributeError or ValueError: no except clause names them.
Escape(t) ==
  /\ pc[t] = "served"
  /\ stirred[t]
  /\ \E on \in BOOLEAN : server' = [server EXCEPT ![held[t]] = on]
  /\ Leave(t, Raised)
  /\ UNCHANGED <<configured, bridge, lost, closes, sent>>

-----------------------------------------------------------------------------
(***************************************************************************)
(* close()                                                                 *)
(***************************************************************************)
Close(t) ==
  /\ pc[t] = "idle"
  /\ bridge # NoBridge
  /\ closes < MaxCloses
  /\ closes' = closes + 1
  /\ Goto(t, "pick")
  /\ UNCHANGED <<configured, bridge, task, held, stirred, outcome, server, lost, sent>>

\* self._bridge is evaluated again, and its _close() begins.
ClosePick(t) ==
  /\ pc[t] = "pick"
  /\ IF bridge = NoBridge
     THEN Leave(t, Raised)
     ELSE /\ held' = [held EXCEPT ![t] = bridge]
          /\ Goto(t, "closing")
          /\ LET others == {u \in Threads : pc[u] \in {"served", "closing"} /\ held[u] = bridge}
             IN  stirred' = [u \in Threads |-> stirred[u] \/ u \in others \/ (u = t /\ others # {})]
          /\ UNCHANGED <<task, outcome>>
  /\ UNCHANGED <<configured, bridge, server, lost, closes, sent>>

\* Mutant: the bridge is let go of and its child left to find out.
CloseEnd_Detach(t) ==
  /\ pc[t] = "closing"
  /\ Goto(t, "clear")
  /\ UNCHANGED <<configured, bridge, task, held, stirred, outcome, server, lost, closes, sent>>

\* The child is dead.  With a call in between, one may have been started
\* since, and be lost or still be the bridge's; and kill() on None raises.
CloseEnd(t) ==
  /\ pc[t] = "closing"
  /\ \/ /\ server' = [server EXCEPT ![held[t]] = FALSE]
        /\ lost' \in {lost} \cup {lost + n : n \in {m \in {1} : stirred[t]}}
     \/ stirred[t] /\ UNCHANGED <<server, lost>>
  /\ \/ Goto(t, "clear") /\ UNCHANGED <<task, held, stirred, outcome>>
     \/ stirred[t] /\ Leave(t, Raised)
  /\ UNCHANGED <<configured, bridge, closes, sent>>

\* Whatever bridge is current by now is forgotten.
CloseClear(t) ==
  /\ pc[t] = "clear"
  /\ bridge' = NoBridge
  /\ Leave(t, NoOutcome)
  /\ UNCHANGED <<configured, server, lost, closes, sent>>

\* A server dies between two calls.
ServerDies(b) ==
  /\ server[b]
  /\ server' = [server EXCEPT ![b] = FALSE]
  /\ UNCHANGED <<configured, bridge, threadVars, lost, closes, sent>>

-----------------------------------------------------------------------------
Step ==
  \/ \E t \in Threads :
       \/ \E job \in Task : Begin(t, job)
       \/ Test(t) \/ Make(t) \/ Get(t) \/ Enter(t) \/ Answer(t)
       \/ Garble(t) \/ Fail(t) \/ Escape(t)
       \/ Close(t) \/ ClosePick(t) \/ CloseEnd(t) \/ CloseClear(t)
  \/ \E b \in Bridges : ServerDies(b)

Races == \E t, u \in Threads : t # u /\ pc[t] = "make" /\ pc[u] = "make"
Meets == \E t, u \in Threads : t # u /\ InClose(t) /\ (InCall(u) \/ InClose(u))

Next ==
  /\ Step
  /\ raced' = (raced \/ Races')
  /\ met' = (met \/ Meets')

Spec == Init /\ [][Next]_vars

-----------------------------------------------------------------------------
\* An operation raises over what the server wrote and over nothing else: not
\* when a server fails, falls silent or dies, and not however many threads make
\* the first call at once, as long as no close() comes during an operation.  The
\* docstrings (lines 76, 113, 134) promise that it never raises: the code does not
\* keep that over an answer of the server that is no object (Garble).
OnlyAnswersRaise == (\E t \in Threads : outcome[t] = Raised) => met

Serving == {b \in Bridges : server[b]}

\* As long as no close() comes during a call, every server that runs is one that
\* the provider or a call knows of, but for those of first calls that raced:
\* between two closes these are fewer than there are threads.
OneServer ==
  ~met =>
    LET known == {bridge} \cup {held[t] : t \in Threads}
    IN  /\ lost = 0
        /\ Cardinality(Serving \ known) <=
             IF raced THEN (closes + 1) * (Cardinality(Threads) - 1) ELSE 0

\* Nothing about a secret key is asked of a server, or passed on when a server
\* tells it unasked.
SecretKeysStay ==
  /\ sent \cap SecretKeys = {}
  /\ \A t \in Threads : outcome[t].keys \cap SecretKeys = {}
=============================================================================
