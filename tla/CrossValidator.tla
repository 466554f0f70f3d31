---------------------------- MODULE CrossValidator ----------------------------
(***************************************************************************)
(* What CrossValidator.reconcile (tendril/core/cross_validate.py) computes *)
(* from what telemetry delivers and what the graph holds for an            *)
(* environment.                                                            *)
(*                                                                         *)
(* Telemetry is what DatadogTelemetryProvider                              *)
(* (tendril/connectors/telemetry/datadog_provider.py) returns: which       *)
(* capabilities are active, and per capability a sequence of observed      *)
(* calls, or Raises when the call fails.  The evidence of an edge is the   *)
(* set of the capabilities that saw it.                                    *)
(***************************************************************************)
EXTENDS ServiceNames, Sequences

CONSTANT Raises   \* what a call that raises delivers

Capability == {"apm", "traces", "logs", "rum"}

Call == [from : ServiceName, to : ServiceName]

Telemetry ==
  [caps : (SUBSET Capability) \cup {Raises},        \* what probe() returns
   data : [Capability -> Seq(Call) \cup {Raises}]]

\* The provider reports every event as one observed edge with this count.
SampleCount == 1

Active(t)  == IF t.caps = Raises THEN {} ELSE t.caps
Fetched(t) == {cap \in Active(t) : t.data[cap] # Raises}

\* A failed probe makes every capability inactive and degraded as well.
FetchNotices(t) ==
  [cap : IF t.caps = Raises THEN Capability ELSE Active(t) \ Fetched(t), reason : {"error"}]
    \cup [cap : Capability \ Active(t), reason : {"inactive"}]

\* Who called whom, by name, and the signal that saw it.
Calls(t) ==
  UNION {{[cap |-> cap, from |-> t.data[cap][i].from, to |-> t.data[cap][i].to] :
            i \in DOMAIN t.data[cap]} : cap \in Fetched(t)}

\* The callee is not looked at when the caller is unknown.
Unknowns(index, env, t) ==
  LET Answer(name)  == ResolveServiceName(index, name, env)
      Blocking(c)   == IF ~Answer(c.from).known THEN c.from ELSE c.to
  IN  {[service |-> Blocking(c), reason |-> Answer(Blocking(c)).reason] :
         c \in {d \in Calls(t) : ~Answer(d.from).known \/ ~Answer(d.to).known}}

SignalConfidence(cap) == IF cap \in {"apm", "rum"} \/ SampleCount > 1 THEN "high" ELSE "medium"

\* The runtime edges: one for every pair of repositories, with the signals of
\* all its calls and the highest of their confidences.
RuntimeEdges(index, env, t) ==
  LET Answer(name) == ResolveServiceName(index, name, env)
      known  == {c \in Calls(t) : Answer(c.from).known /\ Answer(c.to).known}
      Ends(c) == <<Answer(c.from).repo, Answer(c.to).repo>>
      Signals(p) == {c.cap : c \in {d \in known : Ends(d) = p}}
  IN  {[from |-> p[1], to |-> p[2], signals |-> Signals(p),
        confidence |-> IF \E cap \in Signals(p) : SignalConfidence(cap) = "high"
                       THEN "high" ELSE "medium"] : p \in {Ends(c) : c \in known}}

Between(e) == <<e.from, e.to>>

\* Three-way reconciliation with the edges the graph holds.
Confirmed(static, runtime)   == {e \in static : \E r \in runtime : Between(r) = Between(e)}
StaticOnly(static, runtime)  == static \ Confirmed(static, runtime)
RuntimeOnly(static, runtime) == {r \in runtime : \A e \in static : Between(e) # Between(r)}
=============================================================================
