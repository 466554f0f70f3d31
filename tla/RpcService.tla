----------------------------- MODULE RpcService -----------------------------
(***************************************************************************)
(* What SubprocessBridge.call() promises the threads that share a bridge,  *)
(* with no process, pipe or lock in sight: calls are served one at a time, *)
(* each is tried at most twice, and each ends with the answer to that very *)
(* call or with a failure.                                                 *)
(***************************************************************************)
EXTENDS Naturals

CONSTANTS Clients,  \* the threads that call
          Limit,    \* bound: calls one client makes
          MaxTries, \* how often one call may be tried: 1 or more
          Failures  \* the ways in which a call may fail

VARIABLES status,  \* status[c]: is c's call waiting, being served, or over
          calls,   \* calls[c]: number of calls c has made
          tries,   \* tries[c]: how often its current call was tried
          reply    \* reply[c]: how its last call ended

vars == <<status, calls, tries, reply>>

Init ==
  /\ status = [c \in Clients |-> "idle"]
  /\ calls = [c \in Clients |-> 0]
  /\ tries = [c \in Clients |-> 1]
  /\ reply = [c \in Clients |-> "none"]

Request(c) ==
  /\ status[c] = "idle"
  /\ calls[c] < Limit
  /\ status' = [status EXCEPT ![c] = "waiting"]
  /\ calls' = [calls EXCEPT ![c] = @ + 1]
  /\ UNCHANGED <<tries, reply>>

Serve(c) ==
  /\ status[c] = "waiting"
  /\ \A d \in Clients : status[d] # "served"
  /\ status' = [status EXCEPT ![c] = "served"]
  /\ tries' = [tries EXCEPT ![c] = 1]
  /\ UNCHANGED <<calls, reply>>

Retry(c) ==
  /\ status[c] = "served"
  /\ tries[c] < MaxTries
  /\ tries' = [tries EXCEPT ![c] = @ + 1]
  /\ UNCHANGED <<status, calls, reply>>

Finish(c) ==
  /\ status[c] = "served"
  /\ status' = [status EXCEPT ![c] = "idle"]
  /\ \E r \in {"answer"} \cup Failures : reply' = [reply EXCEPT ![c] = r]
  /\ UNCHANGED <<calls, tries>>

Next == \E c \in Clients : Request(c) \/ Serve(c) \/ Retry(c) \/ Finish(c)

Spec == Init /\ [][Next]_vars

\* A waiting call is served while nobody else is, and a served call ends.
FairSpec ==
  Spec /\ \A c \in Clients : WF_vars(Serve(c)) /\ WF_vars(Finish(c))
=============================================================================
