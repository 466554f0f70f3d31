---------------------------- MODULE RoslynServer ----------------------------
(***************************************************************************)
(* The TendrilRoslyn child process as its Python client can observe it     *)
(* (tendril/analyzers/roslyn/Server.cs): a table of operating-system       *)
(* processes, each with a stdin and a stdout pipe.  A server reads one     *)
(* request line at a time, answers with one line, and leaves its read loop *)
(* when stdin reaches end of file.                                         *)
(*                                                                         *)
(* What the analysis computes is not modelled: a request is identified by  *)
(* the call that sent it and a response by the request it answers.  Faults *)
(* selects how a server may misbehave; a server that is merely slow or     *)
(* hangs needs no fault, because no action below is ever forced.           *)
(***************************************************************************)
EXTENDS Naturals, Sequences

CONSTANTS Procs,    \* bound: slots for processes, reused once nobody refers to them
          Callers,  \* the threads that use the bridge
          MaxCalls, \* bound: calls one thread makes
          Faults    \* the misbehaviour a run allows

\* Responses that no server of this repository writes: bytes that are not UTF-8,
\* and JSON in which the client does not find the objects it looks for (a list,
\* a null result, an error that is a text).
BadLines == {"undecodable", "malformed"}

AllFaults == {"crash", "error", "incompatible", "garbage", "noise"} \cup BadLines

ASSUME ProcsAssumption  == Procs \subseteq Nat \ {0}
ASSUME CallsAssumption  == MaxCalls \in Nat
ASSUME FaultsAssumption == Faults \subseteq AllFaults

VARIABLE child  \* child[p]: the state of process p and of its two pipes

-----------------------------------------------------------------------------
\* The bridge sends a handshake on every start and one request per attempt.
\* `from' and `nth' stand for the request id, fresh for every call.
Request == [method : {"handshake", "call"}, from : Callers, nth : 1 .. MaxCalls]

\* A stdout line: a response to request `to', or text that is not JSON
\* ("garbage"), or one of BadLines in a run that allows it.
Line == [kind : {"result", "incompatible", "error", "garbage"}
                  \cup (Faults \cap BadLines),
         to : Request]

State == {"running", "exited"}

\* `greeted' is history: a compatible handshake was completed.
Process == [state : State, in : Seq(Request), out : Seq(Line), eof : BOOLEAN,
            greeted : BOOLEAN]

Blank == [state |-> "exited", in |-> <<>>, out |-> <<>>, eof |-> FALSE,
          greeted |-> FALSE]

Running(p) == child[p].state = "running"

-----------------------------------------------------------------------------
(***************************************************************************)
(* What the server may write for one request.  A well-behaved server       *)
(* writes one response line.  "garbage" replaces that line by one the      *)
(* client cannot parse (the byte order mark a UTF-8 StreamWriter puts in   *)
(* front of its first line is one), as do BadLines by lines it cannot      *)
(* decode or take apart; "noise" writes garbage before the response        *)
(* (MSBuild or NuGet text on stdout).                                      *)
(***************************************************************************)
Answer(kind, req) == [kind |-> kind, to |-> req]

Replies(req) ==
  {<<Answer("result", req)>>}
    \cup {<<Answer(f, req)>> : f \in Faults \cap ({"error", "garbage"} \cup BadLines)}
    \cup {<<Answer("incompatible", req)>> :
            f \in {g \in Faults \cap {"incompatible"} : req.method = "handshake"}}
    \cup {<<Answer("garbage", req), Answer("result", req)>> :
            f \in Faults \cap {"noise"}}

\* One turn of the read loop: take a line, dispatch it, write the response.
Serve(p) ==
  /\ Running(p)
  /\ child[p].in # <<>>
  /\ \E lines \in Replies(Head(child[p].in)) :
       child' = [child EXCEPT ![p].in = Tail(@), ![p].out = @ \o lines]

\* ReadLineAsync returns null: every request was read and stdin is closed.
ExitOnEof(p) ==
  /\ Running(p)
  /\ child[p].in = <<>>
  /\ child[p].eof
  /\ child' = [child EXCEPT ![p].state = "exited"]

\* What a dead process had already written stays readable.
Died(table, p) ==
  [table EXCEPT ![p].state = "exited", ![p].in = <<>>]

\* The process dies by itself (out of memory, unhandled exception).
Crash(p) ==
  /\ "crash" \in Faults
  /\ Running(p)
  /\ child' = Died(child, p)

ServerStep(p) == Serve(p) \/ ExitOnEof(p) \/ Crash(p)

-----------------------------------------------------------------------------
(***************************************************************************)
(* What the client does to a process, as functions of the process table.   *)
(***************************************************************************)
Spawned(table, p) == [table EXCEPT ![p] = [Blank EXCEPT !.state = "running"]]

Sent(table, p, req) == [table EXCEPT ![p].in = Append(@, req)]

\* _kill(): the process dies, and what it wrote is dropped with its pipe.
Killed(table, p) ==
  IF p \in DOMAIN table THEN [Died(table, p) EXCEPT ![p].out = <<>>] ELSE table

-----------------------------------------------------------------------------
ChildInit == child = [p \in Procs |-> Blank]

ChildTypeOK == child \in [Procs -> Process]
=============================================================================
