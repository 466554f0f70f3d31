-------------------------- MODULE SubprocessBridge --------------------------
(***************************************************************************)
(* The thread-safe tendril-rpc/v1 client                                   *)
(* (tendril/connectors/intra/subprocess_bridge.py) with the child          *)
(* processes it starts.  Threads share one bridge: call() holds the        *)
(* internal lock for the whole exchange, starts the child lazily, shakes   *)
(* hands, writes one request, reads one line under a timeout, and restarts *)
(* the child once when that fails.  _close() takes no lock.                *)
(*                                                                         *)
(* Each step of a thread is one access to the shared attribute self._proc  *)
(* (lines 208, 98, 141-143, 157, 166-168), so that another thread's        *)
(* _close() can come between any two of them.  The reads of self._proc by  *)
(* _close() at 87 and 88 are one step, as are the two at 208.              *)
(***************************************************************************)
EXTENDS RoslynServer, FiniteSets

CONSTANTS NoCaller,        \* nobody holds the lock
          MaxCloses,       \* bound: how often _close() is called
          ConcurrentClose  \* may _close() run while a call is in progress

ASSUME NoCallerAssumption == NoCaller \notin Callers
ASSUME ClosesAssumption   == MaxCloses \in Nat /\ ConcurrentClose \in BOOLEAN

NoProc == 0

VARIABLES
  lock,     \* holder of self._lock
  proc,     \* self._proc
  pc,       \* where each thread is
  phase,    \* which exchange it is in: the handshake or the call itself
  attempt,  \* 1, or 2 after the restart
  reading,  \* the process whose stdout its reader thread blocks on
  nth,      \* number of calls it has begun
  outcome,  \* how its last call ended
  closer,   \* where the thread in _close() is, and the process it waits for
  closes    \* number of _close() calls begun

callerVars == <<pc, phase, attempt, reading, nth, outcome>>
closerVars == <<closer, closes>>
vars == <<child, lock, proc, callerVars, closerVars>>

-----------------------------------------------------------------------------
PC == {"idle", "queued", "check", "spawn", "send", "read", "recv"}

\* Holding the lock, by position in the code.
InCall(c) == pc[c] \in {"check", "spawn", "send", "read", "recv"}

Result(req) == [kind |-> "result", to |-> req]
Error(flag) == [kind |-> "SubprocessError", restarted |-> flag]
Uncaught    == [kind |-> "uncaught"]
NoOutcome   == [kind |-> "none"]

Outcome == {Result(req) : req \in Request} \cup {Error(b) : b \in BOOLEAN}
             \cup {Uncaught, NoOutcome}

CurrentRequest(c) ==
  [method |-> IF phase[c] = "handshake" THEN "handshake" ELSE "call",
   from |-> c, nth |-> nth[c]]

Init ==
  /\ ChildInit
  /\ lock = NoCaller
  /\ proc = NoProc
  /\ pc = [c \in Callers |-> "idle"]
  /\ phase = [c \in Callers |-> "call"]
  /\ attempt = [c \in Callers |-> 1]
  /\ reading = [c \in Callers |-> NoProc]
  /\ nth = [c \in Callers |-> 0]
  /\ outcome = [c \in Callers |-> NoOutcome]
  /\ closer = [at |-> "out", on |-> NoProc]
  /\ closes = 0

-----------------------------------------------------------------------------
(***************************************************************************)
(* Leaving call(): the lock is released however the call ends.             *)
(***************************************************************************)
Return(c, result) ==
  /\ outcome' = [outcome EXCEPT ![c] = result]
  /\ pc' = [pc EXCEPT ![c] = "idle"]
  /\ reading' = [reading EXCEPT ![c] = NoProc]
  /\ lock' = NoCaller
  /\ phase' = [phase EXCEPT ![c] = "call"]
  /\ UNCHANGED <<attempt, nth>>

Goto(c, where, what, try) ==
  /\ pc' = [pc EXCEPT ![c] = where]
  /\ phase' = [phase EXCEPT ![c] = what]
  /\ attempt' = [attempt EXCEPT ![c] = try]
  /\ reading' = [reading EXCEPT ![c] = NoProc]
  /\ UNCHANGED <<lock, nth, outcome>>

\* Mutant: the restart drops the old child without killing it.
Raise_NoKill(c, exn, table, current) ==
  \/ /\ attempt[c] = 1 /\ exn = "caught"
     /\ child' = table
     /\ proc' = NoProc
     /\ Goto(c, "spawn", "handshake", 2)
  \/ /\ attempt[c] = 2 \/ exn # "caught"
     /\ child' = table
     /\ proc' = current
     /\ Return(c, Error(FALSE))

(***************************************************************************)
(* An exception inside _call_locked.  During the first attempt the types   *)
(* the except clause names kill the child and begin the second attempt;    *)
(* any other type leaves call() as it is, which for the version mismatch   *)
(* is a SubprocessError.  The second attempt turns every exception into a  *)
(* SubprocessError and leaves the child alone.  `table' is the process     *)
(* table and `current' the value of self._proc when the exception is       *)
(* raised.                                                                 *)
(***************************************************************************)
Raise(c, exn, table, current) ==
  \/ /\ attempt[c] = 1 /\ exn = "caught"
     /\ child' = Killed(table, current)
     /\ proc' = NoProc
     /\ Goto(c, "spawn", "handshake", 2)
  \/ /\ attempt[c] = 1 /\ exn # "caught"
     /\ child' = table
     /\ proc' = current
     /\ Return(c, IF exn = "version" THEN Error(FALSE) ELSE Uncaught)
  \/ /\ attempt[c] = 2
     /\ child' = table
     /\ proc' = current
     /\ Return(c, Error(FALSE))

-----------------------------------------------------------------------------
(***************************************************************************)
(* call()                                                                  *)
(***************************************************************************)
Call(c) ==
  /\ pc[c] = "idle"
  /\ nth[c] < MaxCalls
  /\ ConcurrentClose \/ closer.at = "out"
  /\ nth' = [nth EXCEPT ![c] = @ + 1]
  /\ pc' = [pc EXCEPT ![c] = "queued"]
  /\ UNCHANGED <<child, lock, proc, phase, attempt, reading, outcome, closerVars>>

Acquire(c) ==
  /\ pc[c] = "queued"
  /\ lock = NoCaller
  /\ lock' = c
  /\ pc' = [pc EXCEPT ![c] = "check"]
  /\ attempt' = [attempt EXCEPT ![c] = 1]
  /\ UNCHANGED <<child, proc, phase, reading, nth, outcome, closerVars>>

\* Mutant: a child is started for every call.
CheckChild_Fresh(c) ==
  /\ pc[c] = "check"
  /\ Goto(c, "spawn", "handshake", 1)
  /\ UNCHANGED <<child, proc, closerVars>>

\* A live child is reused; otherwise one is started (an exited child's
\* Popen object is overwritten).
CheckChild(c) ==
  /\ pc[c] = "check"
  /\ IF proc # NoProc /\ Running(proc)
     THEN Goto(c, "send", "call", 1)
     ELSE Goto(c, "spawn", "handshake", 1)
  /\ UNCHANGED <<child, proc, closerVars>>

\* A slot whose process is dead and that no attribute or thread refers to.
Free(p) ==
  /\ ~Running(p)
  /\ p # proc
  /\ p # closer.on
  /\ \A c \in Callers : reading[c] # p

\* subprocess.Popen: a new process, or OSError when the binary is missing.
Spawn(c) ==
  /\ pc[c] = "spawn"
  /\ \/ \E p \in Procs :
          /\ Free(p)
          /\ \A q \in Procs : Free(q) => p <= q
          /\ child' = Spawned(child, p)
          /\ proc' = p
          /\ pc' = [pc EXCEPT ![c] = "send"]
          /\ UNCHANGED <<lock, phase, attempt, reading, nth, outcome>>
     \/ Raise(c, "caught", child, proc)
  /\ UNCHANGED closerVars

\* self._proc is there and its stdin was not closed on our side.
Writable == proc # NoProc /\ ~child[proc].eof

\* Write one line.  Without a child, or on a pipe _close() has closed, the
\* exception is not one call() expects; on a dead child it is BrokenPipeError.
Send(c) ==
  /\ pc[c] = "send"
  /\ \/ /\ ~Writable
        /\ Raise(c, "unexpected", child, proc)
     \/ /\ Writable /\ ~Running(proc)
        /\ Raise(c, "caught", child, proc)
     \/ /\ Writable /\ Running(proc)
        /\ child' = Sent(child, proc, CurrentRequest(c))
        /\ Goto(c, "read", phase[c], attempt[c])
        /\ UNCHANGED proc
  /\ UNCHANGED closerVars

\* The reader thread evaluates self._proc for itself.
StartReader(c) ==
  /\ pc[c] = "read"
  /\ \/ /\ proc = NoProc
        /\ Raise(c, "unexpected", child, proc)
     \/ /\ proc # NoProc
        /\ reading' = [reading EXCEPT ![c] = proc]
        /\ pc' = [pc EXCEPT ![c] = "recv"]
        /\ UNCHANGED <<child, lock, proc, phase, attempt, nth, outcome>>
  /\ UNCHANGED closerVars

\* How a call ends on a response to its request.
Reply(line) ==
  CASE line.kind = "error"     -> Error(FALSE)
    [] line.kind = "malformed" -> Uncaught
    [] OTHER                   -> Result(line.to)

\* Mutant: an incompatible child is reported but not killed.
Deliver_NoKill(c, line, table) ==
  \/ /\ line.kind = "garbage"
     /\ Raise(c, "caught", table, proc)
  \/ /\ \/ line.kind = "undecodable"
        \/ line.kind = "malformed" /\ phase[c] = "handshake"
     /\ Raise(c, "unexpected", table, proc)
  \/ /\ line.kind \in {"result", "error", "incompatible"} /\ phase[c] = "handshake"
     /\ \/ /\ line.kind = "result"
           /\ child' = [table EXCEPT ![reading[c]].greeted = TRUE]
           /\ Goto(c, "send", "call", attempt[c])
           /\ UNCHANGED proc
        \/ /\ line.kind # "result"
           /\ Raise(c, "version", table, proc)
  \/ /\ line.kind \notin {"garbage", "undecodable"} /\ phase[c] = "call"
     /\ child' = table
     /\ Return(c, Reply(line))
     /\ UNCHANGED proc

(***************************************************************************)
(* readline() returned a line.  It is taken for the response whatever id   *)
(* it carries.  What is not JSON is caught; bytes that are no UTF-8 are a  *)
(* UnicodeDecodeError, which the except clause does not name.  A malformed *)
(* response is one on which `.get' or `in' raises: to a handshake inside   *)
(* the try (line 115), to a request after it (lines 248-258), where        *)
(* nothing is caught in either attempt.                                    *)
(***************************************************************************)
Deliver(c, line, table) ==
  \/ /\ line.kind = "garbage"
     /\ Raise(c, "caught", table, proc)
  \/ /\ \/ line.kind = "undecodable"
        \/ line.kind = "malformed" /\ phase[c] = "handshake"
     /\ Raise(c, "unexpected", table, proc)
  \/ /\ line.kind \in {"result", "error", "incompatible"} /\ phase[c] = "handshake"
     /\ \/ /\ line.kind = "result"
           /\ child' = [table EXCEPT ![reading[c]].greeted = TRUE]
           /\ Goto(c, "send", "call", attempt[c])
           /\ UNCHANGED proc
        \/ /\ line.kind # "result"
           /\ Raise(c, "version", Killed(table, proc), NoProc)
  \/ /\ line.kind \notin {"garbage", "undecodable"} /\ phase[c] = "call"
     /\ child' = table
     /\ Return(c, Reply(line))
     /\ UNCHANGED proc

Receive(c) ==
  /\ pc[c] = "recv"
  /\ LET p == reading[c] IN
     /\ child[p].out # <<>>
     /\ Deliver(c, Head(child[p].out), [child EXCEPT ![p].out = Tail(@)])
  /\ UNCHANGED closerVars

\* Mutant: EOFError is missing from the except clause.
ReceiveEof_Uncaught(c) ==
  /\ pc[c] = "recv"
  /\ child[reading[c]].out = <<>>
  /\ ~Running(reading[c])
  /\ Raise(c, "unexpected", child, proc)
  /\ UNCHANGED closerVars

\* readline() returned nothing: the child is gone (EOFError).
ReceiveEof(c) ==
  /\ pc[c] = "recv"
  /\ child[reading[c]].out = <<>>
  /\ ~Running(reading[c])
  /\ Raise(c, "caught", child, proc)
  /\ UNCHANGED closerVars

\* Mutant: the child is not killed when it is too slow.
Timeout_NoKill(c) ==
  /\ pc[c] = "recv"
  /\ Raise(c, "caught", child, proc)
  /\ UNCHANGED closerVars

\* Mutant: join() without a timeout.
Timeout_Never(c) == pc[c] = "recv" /\ FALSE /\ UNCHANGED vars

\* The reader thread is still blocked after the timeout: kill, TimeoutError.
Timeout(c) ==
  /\ pc[c] = "recv"
  /\ Raise(c, "caught", Killed(child, proc), NoProc)
  /\ UNCHANGED closerVars

-----------------------------------------------------------------------------
(***************************************************************************)
(* _close(), from any thread and without the lock.                         *)
(***************************************************************************)
Close ==
  /\ closer.at = "out"
  /\ closes < MaxCloses
  /\ ConcurrentClose \/ \A c \in Callers : pc[c] = "idle"
  /\ closes' = closes + 1
  /\ closer' = [closer EXCEPT !.at = IF proc = NoProc THEN "out" ELSE "eof"]
  /\ UNCHANGED <<child, lock, proc, callerVars>>

CloseStdin ==
  /\ closer.at = "eof"
  /\ \/ /\ proc = NoProc
        /\ closer' = [at |-> "clear", on |-> NoProc]
        /\ UNCHANGED child
     \/ /\ proc # NoProc
        /\ child' = [child EXCEPT ![proc].eof = TRUE]
        /\ closer' = [at |-> "wait", on |-> proc]
  /\ UNCHANGED <<lock, proc, callerVars, closes>>

\* Mutant: the timeout of wait() is swallowed and the child left running.
CloseWait_NoKill ==
  /\ closer.at = "wait"
  /\ closer' = [at |-> "clear", on |-> NoProc]
  /\ UNCHANGED <<child, lock, proc, callerVars, closes>>

\* wait(timeout=5) ends, or it times out and the child that is current by
\* then is killed.
CloseWait ==
  /\ closer.at = "wait"
  /\ \/ ~Running(closer.on) /\ UNCHANGED child
     \/ Running(closer.on) /\ proc = NoProc /\ UNCHANGED child
     \/ Running(closer.on) /\ proc # NoProc /\ child' = Died(child, proc)
  /\ closer' = [at |-> "clear", on |-> NoProc]
  /\ UNCHANGED <<lock, proc, callerVars, closes>>

\* Clearing self._proc drops the reference to whatever child it now names.  A
\* Popen whose child still runs is kept by the subprocess module, pipes open:
\* the child is not told.
CloseClear ==
  /\ closer.at = "clear"
  /\ proc' = NoProc
  /\ closer' = [closer EXCEPT !.at = "out"]
  /\ UNCHANGED <<child, lock, callerVars, closes>>

-----------------------------------------------------------------------------
Exchange(c) ==
  CheckChild(c) \/ Spawn(c) \/ Send(c) \/ StartReader(c)
    \/ Receive(c) \/ ReceiveEof(c) \/ Timeout(c)

Closing == CloseStdin \/ CloseWait \/ CloseClear

Server(p) ==
  ServerStep(p) /\ UNCHANGED <<lock, proc, callerVars, closerVars>>

Next ==
  \/ \E c \in Callers : Call(c) \/ Acquire(c) \/ Exchange(c)
  \/ Close \/ Closing
  \/ \E p \in Procs : Server(p)

Spec == Init /\ [][Next]_vars

\* Threads are scheduled, a free lock is eventually handed to a waiting
\* thread, and join(timeout) and wait(timeout) return.  The server owes
\* nothing: it may hang for ever.
Fairness ==
  /\ \A c \in Callers : WF_vars(Acquire(c)) /\ WF_vars(Exchange(c))
  /\ WF_vars(Closing)

FairSpec == Spec /\ Fairness

-----------------------------------------------------------------------------
TypeOK ==
  /\ ChildTypeOK
  /\ lock \in Callers \cup {NoCaller}
  /\ proc \in Procs \cup {NoProc}
  /\ pc \in [Callers -> PC]
  /\ phase \in [Callers -> {"handshake", "call"}]
  /\ attempt \in [Callers -> {1, 2}]
  /\ reading \in [Callers -> Procs \cup {NoProc}]
  /\ nth \in [Callers -> 0 .. MaxCalls]
  /\ outcome \in [Callers -> Outcome]
  /\ closer \in [at : {"out", "eof", "wait", "clear"}, on : Procs \cup {NoProc}]
  /\ closes \in 0 .. MaxCloses

\* A call that returns a result returns the response to its own request,
\* although nothing in _send_recv compares ids.
AnswersMatch ==
  \A c \in Callers :
    pc[c] = "idle" /\ outcome[c].kind = "result" =>
      outcome[c].to = [method |-> "call", from |-> c, nth |-> nth[c]]

\* The pipes of the current child hold nothing but the one exchange the
\* lock holder is in: between calls both are empty.
OneInFlight ==
  proc # NoProc /\ Running(proc) =>
    LET pending == {child[proc].in[i] : i \in DOMAIN child[proc].in}
                     \cup {child[proc].out[i].to : i \in DOMAIN child[proc].out}
    IN  /\ Cardinality(pending) <= 1
        /\ \A req \in pending : /\ req.from = lock
                                 /\ pc[lock] \in {"read", "recv"}
                                 /\ req = CurrentRequest(lock)

\* No child is left behind: a running child is the one self._proc names.
NoOrphan == \A p \in Procs : Running(p) => p = proc

\* A child that is running and that the bridge has lost sight of was lost by a
\* _close() of its own: calls, their restarts and their failures lose none.
LostByClose == Cardinality({p \in Procs : Running(p) /\ p # proc}) <= closes

\* A request other than the handshake is sent only to a child with which a
\* compatible handshake was completed.
HandshakeFirst ==
  \A p \in Procs : \A i \in DOMAIN child[p].in :
    child[p].in[i].method = "call" => child[p].greeted

(***************************************************************************)
(* A call ends with another exception than SubprocessError only in the     *)
(* step that reads a line which cannot be decoded or taken apart, and in   *)
(* the second attempt only if that line answers the request itself.  No    *)
(* crash, end of file, timeout, missing binary or other unreadable line    *)
(* does it, nor what an earlier call left behind.  The docstring has no    *)
(* such exception: "Raises SubprocessError on unrecoverable failure."      *)
(***************************************************************************)
OnlyBadLinesEscape ==
  [][\A c \in Callers :
       pc[c] # "idle" /\ pc'[c] = "idle" /\ outcome'[c] = Uncaught =>
         /\ pc[c] = "recv"
         /\ child[reading[c]].out # <<>>
         /\ LET kind == Head(child[reading[c]].out).kind
            IN  \/ kind = "malformed" /\ phase[c] = "call"
                \/ kind \in BadLines /\ attempt[c] = 1]_vars

\* _close() ends, and leaves no child running.
CloseKills ==
  closer.at = "eof" ~> closer.at = "out" /\ \A p \in Procs : ~Running(p)

-----------------------------------------------------------------------------
(***************************************************************************)
(* The bridge implements the service it promises.                          *)
(***************************************************************************)
ServiceStatus ==
  [c \in Callers |-> CASE pc[c] = "idle"   -> "idle"
                       [] pc[c] = "queued" -> "waiting"
                       [] OTHER            -> "served"]

ServiceReply ==
  [c \in Callers |->
     CASE outcome[c] = NoOutcome              -> "none"
       [] outcome[c].kind = "SubprocessError" -> "error"
       [] outcome[c].kind = "uncaught"        -> "uncaught"
       [] outcome[c].kind = "result"          ->
            IF \/ outcome[c].to = [method |-> "call", from |-> c, nth |-> nth[c]]
               \/ pc[c] # "idle"
            THEN "answer" ELSE "foreign answer"]

Service == INSTANCE RpcService
             WITH Clients <- Callers, Limit <- MaxCalls, MaxTries <- 2,
                  Failures <- {"error"} \cup {"uncaught" : f \in Faults \cap BadLines},
                  status <- ServiceStatus, calls <- nth, tries <- attempt,
                  reply <- ServiceReply

ImplementsFairService == Service!FairSpec
=============================================================================
