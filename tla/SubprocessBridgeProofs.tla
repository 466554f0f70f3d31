----------------------- MODULE SubprocessBridgeProofs -----------------------
(***************************************************************************)
(* What the bridge guarantees for every number of threads, calls and       *)
(* process slots, whatever Faults allows unless a theorem says otherwise.  *)
(***************************************************************************)
EXTENDS SubprocessBridge, FiniteSetTheorems, TLAPS

\* The fields of a child.
LEMMA ChildFields ==
  ASSUME TypeOK, NEW p \in Procs
  PROVE  /\ child[p] \in Process
         /\ child[p].state \in State
         /\ child[p].in \in Seq(Request)
         /\ child[p].out \in Seq(Line)
         /\ child[p].eof \in BOOLEAN
         /\ child[p].greeted \in BOOLEAN
  BY DEF TypeOK, ChildTypeOK, Process

\* No child is none.
LEMMA NoProcNotProc == NoProc \notin Procs
  BY ProcsAssumption DEF NoProc

\* A slot without a child is typed as one.
LEMMA BlankType == Blank \in Process
  BY DEF Blank, Process, State

\* So is a child that was just started,
LEMMA SpawnedType ==
  ASSUME NEW table \in [Procs -> Process], NEW p \in Procs
  PROVE  Spawned(table, p) \in [Procs -> Process]
  BY BlankType DEF Spawned, Process, State

\* one that was sent a request,
LEMMA SentType ==
  ASSUME NEW table \in [Procs -> Process], NEW p \in Procs, NEW req \in Request
  PROVE  Sent(table, p, req) \in [Procs -> Process]
<1>1. Append(table[p].in, req) \in Seq(Request)
  BY DEF Process
<1> QED BY <1>1 DEF Sent, Process

\* one that died,
LEMMA DiedType ==
  ASSUME NEW table \in [Procs -> Process], NEW p \in Procs
  PROVE  Died(table, p) \in [Procs -> Process]
<1>1. <<>> \in Seq(Request) /\ "exited" \in State
  BY DEF State
<1>2. table[p] \in Process
  OBVIOUS
<1>3. [table EXCEPT ![p].state = "exited"] \in [Procs -> Process]
  BY <1>1, <1>2 DEF Process
<1> QED BY <1>1, <1>3 DEF Died, Process

\* and one that was killed.
LEMMA KilledType ==
  ASSUME NEW table \in [Procs -> Process], NEW p
  PROVE  Killed(table, p) \in [Procs -> Process]
<1>1. CASE p \in Procs
  <2>1. Died(table, p) \in [Procs -> Process]
    BY <1>1, DiedType
  <2>2. <<>> \in Seq(Line)
    OBVIOUS
  <2>3. [Died(table, p) EXCEPT ![p].out = <<>>] \in [Procs -> Process]
    BY <1>1, <2>1, <2>2 DEF Process
  <2> QED BY <1>1, <2>3 DEF Killed
<1>2. CASE p \notin Procs
  BY <1>2 DEF Killed
<1> QED BY <1>1, <1>2

\* What a server may write in answer to a request are lines.
LEMMA RepliesType ==
  ASSUME NEW req \in Request, NEW lines \in Replies(req)
  PROVE  lines \in Seq(Line)
<1> DEFINE Kinds == {"result", "incompatible", "error", "garbage"} \cup (Faults \cap BadLines)
<1>1. \A k \in Kinds : Answer(k, req) \in Line
  BY DEF Answer, Line
<1>2. \/ \E k \in Kinds : lines = <<Answer(k, req)>>
      \/ lines = <<Answer("garbage", req), Answer("result", req)>>
  BY DEF Replies
<1>3. CASE \E k \in Kinds : lines = <<Answer(k, req)>>
  BY <1>1, <1>3
<1>4. CASE lines = <<Answer("garbage", req), Answer("result", req)>>
  BY <1>1, <1>4
<1> QED BY <1>2, <1>3, <1>4


-----------------------------------------------------------------------------
(***************************************************************************)
(* Type correctness.                                                       *)
(***************************************************************************)
CallerTypeOK ==
  /\ lock \in Callers \cup {NoCaller}
  /\ pc \in [Callers -> PC]
  /\ phase \in [Callers -> {"handshake", "call"}]
  /\ attempt \in [Callers -> {1, 2}]
  /\ reading \in [Callers -> Procs \cup {NoProc}]
  /\ nth \in [Callers -> 0 .. MaxCalls]
  /\ outcome \in [Callers -> Outcome]

\* The children and self._proc.
ProcTypeOK == ChildTypeOK /\ proc \in Procs \cup {NoProc}

\* The thread in _close().
CloserTypeOK ==
  /\ closer \in [at : {"out", "eof", "wait", "clear"}, on : Procs \cup {NoProc}]
  /\ closes \in 0 .. MaxCloses

\* The type invariant by whose state it is.
LEMMA TypeParts == TypeOK <=> CallerTypeOK /\ ProcTypeOK /\ CloserTypeOK
  BY DEF TypeOK, CallerTypeOK, ProcTypeOK, CloserTypeOK

\* A call that returns keeps the types,
LEMMA ReturnType ==
  ASSUME CallerTypeOK, NEW c \in Callers, NEW result \in Outcome, Return(c, result)
  PROVE  CallerTypeOK'
  BY DEF CallerTypeOK, Return, PC

\* and so does one that goes on.
LEMMA GotoType ==
  ASSUME CallerTypeOK, NEW c \in Callers, NEW where \in PC,
         NEW what \in {"handshake", "call"}, NEW try \in {1, 2},
         Goto(c, where, what, try)
  PROVE  CallerTypeOK'
  BY DEF CallerTypeOK, Goto

\* Errors are outcomes.
LEMMA ErrorType == (\A b \in BOOLEAN : Error(b) \in Outcome) /\ Uncaught \in Outcome
  BY DEF Outcome

\* A response to a request ends its call with a result or a failure, and with an
\* exception that is no SubprocessError only if it cannot be taken apart.
LEMMA ReplyCases ==
  ASSUME NEW line
  PROVE  \/ Reply(line) = Error(FALSE)
         \/ Reply(line) = Result(line.to)
         \/ Reply(line) = Uncaught /\ line.kind = "malformed"
  BY Zenon DEF Reply

\* Whatever an exception leads to keeps the types.
LEMMA RaiseType ==
  ASSUME CallerTypeOK, NEW c \in Callers, NEW exn,
         NEW table \in [Procs -> Process], NEW current \in Procs \cup {NoProc},
         Raise(c, exn, table, current)
  PROVE  CallerTypeOK' /\ ProcTypeOK'
<1>1. CASE attempt[c] = 1 /\ exn = "caught"
  <2>1. Goto(c, "spawn", "handshake", 2) /\ child' = Killed(table, current) /\ proc' = NoProc
    BY <1>1 DEF Raise
  <2> QED BY <2>1, GotoType, KilledType DEF PC, ProcTypeOK, ChildTypeOK
<1>2. CASE attempt[c] = 1 /\ exn # "caught"
  <2> DEFINE r == IF exn = "version" THEN Error(FALSE) ELSE Uncaught
  <2>0. attempt[c] # 2
    BY <1>2
  <2>1. Return(c, r) /\ child' = table /\ proc' = current
    BY <1>2, <2>0, Zenon DEF Raise
  <2>2. r \in Outcome
    BY ErrorType
  <2> QED BY <2>1, <2>2, ReturnType DEF ProcTypeOK, ChildTypeOK
<1>3. CASE attempt[c] = 2
  <2>0. attempt[c] # 1
    BY <1>3
  <2>1. Return(c, Error(FALSE)) /\ child' = table /\ proc' = current
    BY <1>3, <2>0, Zenon DEF Raise
  <2> QED BY <2>1, ErrorType, ReturnType DEF ProcTypeOK, ChildTypeOK
<1> QED BY <1>1, <1>2, <1>3 DEF CallerTypeOK

\* What a thread sends is a request.
LEMMA CurrentRequestType ==
  ASSUME CallerTypeOK, NEW c \in Callers, nth[c] # 0
  PROVE  CurrentRequest(c) \in Request
  BY CallsAssumption DEF CallerTypeOK, CurrentRequest, Request

\* A line that is read keeps the types, whatever it says.
LEMMA DeliverType ==
  ASSUME CallerTypeOK, ProcTypeOK, NEW c \in Callers, NEW line \in Line,
         NEW table \in [Procs -> Process], reading[c] \in Procs,
         Deliver(c, line, table)
  PROVE  CallerTypeOK' /\ ProcTypeOK'
<1>1. proc \in Procs \cup {NoProc}
  BY DEF ProcTypeOK
<1>2. CASE \/ Raise(c, "caught", table, proc)
           \/ Raise(c, "unexpected", table, proc)
  BY <1>1, <1>2, RaiseType
<1>3. CASE Raise(c, "version", Killed(table, proc), NoProc)
  BY <1>1, <1>3, KilledType, RaiseType
<1>4. CASE /\ child' = [table EXCEPT ![reading[c]].greeted = TRUE]
           /\ Goto(c, "send", "call", attempt[c])
           /\ UNCHANGED proc
  <2>1. [table EXCEPT ![reading[c]].greeted = TRUE] \in [Procs -> Process]
    BY DEF Process
  <2>2. attempt[c] \in {1, 2}
    BY DEF CallerTypeOK
  <2> QED BY <1>1, <1>4, <2>1, <2>2, GotoType DEF PC, ProcTypeOK, ChildTypeOK
<1>5. CASE /\ child' = table
           /\ Return(c, Reply(line))
           /\ UNCHANGED proc
  <2>0. Result(line.to) \in Outcome
    BY DEF Outcome, Line
  <2>1. Reply(line) \in Outcome
    BY <2>0, ErrorType, ReplyCases
  <2> QED BY <1>1, <1>5, <2>1, ReturnType DEF ProcTypeOK, ChildTypeOK
<1> QED BY <1>2, <1>3, <1>4, <1>5 DEF Deliver

\* A thread inside a call has begun one, and it reads from a real process.
Engaged ==
  /\ \A c \in Callers : pc[c] # "idle" => nth[c] # 0
  /\ \A c \in Callers : pc[c] = "recv" => reading[c] \in Procs

\* Every step of an exchange keeps the types.
LEMMA ExchangeType ==
  ASSUME TypeOK, Engaged, NEW c \in Callers, Exchange(c)
  PROVE  TypeOK'
<1>0. CallerTypeOK /\ ProcTypeOK /\ CloserTypeOK
  BY TypeParts
<1> USE <1>0
<1> SUFFICES CallerTypeOK' /\ ProcTypeOK' /\ CloserTypeOK'
  BY DEF TypeOK, CallerTypeOK, ProcTypeOK, CloserTypeOK
<1>1. CASE CheckChild(c)
  <2>1. CallerTypeOK'
    BY <1>1, GotoType DEF CheckChild, PC
  <2> QED BY <1>1, <2>1 DEF CheckChild, ProcTypeOK, ChildTypeOK, CloserTypeOK, closerVars
<1>2. CASE Spawn(c)
  <2>1. CASE Raise(c, "caught", child, proc)
    BY <1>2, <2>1, RaiseType DEF Spawn, ProcTypeOK, ChildTypeOK, CloserTypeOK, closerVars
  <2>2. CASE ~Raise(c, "caught", child, proc)
    <3>1. PICK p \in Procs :
            /\ child' = Spawned(child, p)
            /\ proc' = p
            /\ pc' = [pc EXCEPT ![c] = "send"]
            /\ UNCHANGED <<lock, phase, attempt, reading, nth, outcome>>
      BY <1>2, <2>2 DEF Spawn
    <3>2. ProcTypeOK'
      BY <3>1, SpawnedType DEF ProcTypeOK, ChildTypeOK
    <3>3. CallerTypeOK'
      BY <3>1 DEF CallerTypeOK, PC
    <3> QED BY <1>2, <3>2, <3>3 DEF Spawn, CloserTypeOK, closerVars
  <2> QED BY <2>1, <2>2
<1>3. CASE Send(c)
  <2>1. CASE \E exn : Raise(c, exn, child, proc)
    BY <1>3, <2>1, RaiseType DEF Send, ProcTypeOK, ChildTypeOK, CloserTypeOK, closerVars
  <2>2. CASE ~ \E exn : Raise(c, exn, child, proc)
    <3>1. /\ Writable /\ pc[c] = "send"
          /\ child' = Sent(child, proc, CurrentRequest(c))
          /\ Goto(c, "read", phase[c], attempt[c])
          /\ UNCHANGED proc
      BY <1>3, <2>2 DEF Send
    <3>2. CurrentRequest(c) \in Request
      BY <3>1, CurrentRequestType DEF Engaged
    <3>3. ProcTypeOK'
      BY <3>1, <3>2, SentType DEF ProcTypeOK, ChildTypeOK, Writable
    <3>4. phase[c] \in {"handshake", "call"} /\ attempt[c] \in {1, 2} /\ "read" \in PC
      BY DEF CallerTypeOK, PC
    <3>5. CallerTypeOK'
      BY <3>1, <3>4, GotoType
    <3> QED BY <1>3, <3>3, <3>5 DEF Send, CloserTypeOK, closerVars
  <2> QED BY <2>1, <2>2
<1>4. CASE StartReader(c)
  <2>1. CASE Raise(c, "unexpected", child, proc)
    BY <1>4, <2>1, RaiseType DEF StartReader, ProcTypeOK, ChildTypeOK, CloserTypeOK, closerVars
  <2>2. CASE ~Raise(c, "unexpected", child, proc)
    <3>1. /\ proc # NoProc
          /\ reading' = [reading EXCEPT ![c] = proc]
          /\ pc' = [pc EXCEPT ![c] = "recv"]
          /\ UNCHANGED <<child, lock, proc, phase, attempt, nth, outcome>>
      BY <1>4, <2>2 DEF StartReader
    <3>2. CallerTypeOK'
      BY <3>1 DEF CallerTypeOK, ProcTypeOK, PC
    <3> QED BY <1>4, <3>1, <3>2 DEF StartReader, ProcTypeOK, ChildTypeOK, CloserTypeOK, closerVars
  <2> QED BY <2>1, <2>2
<1>5. CASE Receive(c)
  <2> DEFINE p == reading[c]
             line == Head(child[p].out)
             table == [child EXCEPT ![p].out = Tail(@)]
  <2>1. p \in Procs /\ child[p].out # <<>> /\ Deliver(c, line, table)
    BY <1>5 DEF Receive, Engaged
  <2>2. child[p].out \in Seq(Line)
    BY <2>1, ChildFields
  <2>3. line \in Line /\ Tail(child[p].out) \in Seq(Line)
    BY <2>1, <2>2
  <2>4. table \in [Procs -> Process]
    BY <2>3 DEF ProcTypeOK, ChildTypeOK, Process
  <2>5. CallerTypeOK' /\ ProcTypeOK'
    BY <2>1, <2>3, <2>4, DeliverType
  <2> QED BY <1>5, <2>5 DEF Receive, CloserTypeOK, closerVars
<1>6. CASE ReceiveEof(c)
  BY <1>6, RaiseType DEF ReceiveEof, ProcTypeOK, ChildTypeOK, CloserTypeOK, closerVars
<1>7. CASE Timeout(c)
  <2>1. Killed(child, proc) \in [Procs -> Process]
    BY KilledType DEF ProcTypeOK, ChildTypeOK
  <2> QED BY <1>7, <2>1, RaiseType DEF Timeout, CloserTypeOK, closerVars
<1> QED BY <1>1, <1>2, <1>3, <1>4, <1>5, <1>6, <1>7 DEF Exchange

\* So does every other step.
LEMMA OtherTypes ==
  ASSUME TypeOK,
         \/ \E c \in Callers : Call(c) \/ Acquire(c)
         \/ Close \/ Closing
         \/ \E p \in Procs : Server(p)
  PROVE  TypeOK'
<1>0. CallerTypeOK /\ ProcTypeOK /\ CloserTypeOK
  BY TypeParts
<1> USE <1>0
<1> SUFFICES CallerTypeOK' /\ ProcTypeOK' /\ CloserTypeOK'
  BY DEF TypeOK, CallerTypeOK, ProcTypeOK, CloserTypeOK
<1> USE DEF ProcTypeOK, ChildTypeOK
<1>1. ASSUME NEW c \in Callers, Call(c)
      PROVE  CallerTypeOK' /\ ProcTypeOK' /\ CloserTypeOK'
  BY <1>1, CallsAssumption DEF Call, CallerTypeOK, CloserTypeOK, closerVars, PC
<1>2. ASSUME NEW c \in Callers, Acquire(c)
      PROVE  CallerTypeOK' /\ ProcTypeOK' /\ CloserTypeOK'
  BY <1>2 DEF Acquire, CallerTypeOK, CloserTypeOK, closerVars, PC
<1>3. CASE Close
  BY <1>3, ClosesAssumption DEF Close, CallerTypeOK, CloserTypeOK, callerVars
<1>4. CASE CloseStdin
  <2>1. child' \in [Procs -> Process]
    BY <1>4 DEF CloseStdin, Process
  <2> QED BY <1>4, <2>1 DEF CloseStdin, CallerTypeOK, CloserTypeOK, callerVars
<1>5. CASE CloseWait
  <2>1. child' \in [Procs -> Process]
    BY <1>5, DiedType DEF CloseWait
  <2> QED BY <1>5, <2>1 DEF CloseWait, CallerTypeOK, CloserTypeOK, callerVars
<1>6. CASE CloseClear
  BY <1>6 DEF CloseClear, CallerTypeOK, CloserTypeOK, callerVars
<1>7. ASSUME NEW p \in Procs, Server(p)
      PROVE  CallerTypeOK' /\ ProcTypeOK' /\ CloserTypeOK'
  <2>1. CASE Serve(p)
    <3>1. child[p].in \in Seq(Request) /\ child[p].in # <<>> /\ child[p].out \in Seq(Line)
      BY <2>1, ChildFields DEF Serve
    <3>2. PICK lines \in Replies(Head(child[p].in)) :
            child' = [child EXCEPT ![p].in = Tail(@), ![p].out = @ \o lines]
      BY <2>1 DEF Serve
    <3>3. lines \in Seq(Line) /\ Tail(child[p].in) \in Seq(Request)
      BY <3>1, RepliesType
    <3>4. child[p].out \o lines \in Seq(Line)
      BY <3>1, <3>3
    <3>5. child' \in [Procs -> Process]
      <4>1. child[p] \in Process
        OBVIOUS
      <4>2. [child EXCEPT ![p].in = Tail(@)] \in [Procs -> Process]
        BY <3>3, <4>1 DEF Process
      <4> QED BY <3>2, <3>4, <4>2 DEF Process
    <3> QED BY <1>7, <3>5 DEF Server, CallerTypeOK, CloserTypeOK, callerVars, closerVars
  <2>2. CASE ExitOnEof(p)
    <3>1. child' \in [Procs -> Process]
      BY <2>2 DEF ExitOnEof, Process, State
    <3> QED BY <1>7, <3>1 DEF Server, CallerTypeOK, CloserTypeOK, callerVars, closerVars
  <2>3. CASE Crash(p)
    <3>1. child' \in [Procs -> Process]
      BY <2>3, DiedType DEF Crash
    <3> QED BY <1>7, <3>1 DEF Server, CallerTypeOK, CloserTypeOK, callerVars, closerVars
  <2> QED BY <1>7, <2>1, <2>2, <2>3 DEF Server, ServerStep
<1> QED BY <1>1, <1>2, <1>3, <1>4, <1>5, <1>6, <1>7 DEF Closing

-----------------------------------------------------------------------------
(***************************************************************************)
(* Mutual exclusion: exactly the lock holder is inside the exchange.       *)
(***************************************************************************)
HolderInCall == \A c \in Callers : InCall(c) <=> lock = c

\* The types, and who is between acquiring and releasing the lock.
ControlInv == TypeOK /\ Engaged /\ HolderInCall

\* A call that returns gives the lock back.
LEMMA ReturnControl ==
  ASSUME TypeOK, Engaged, HolderInCall, NEW c \in Callers, lock = c, NEW result,
         Return(c, result)
  PROVE  Engaged' /\ HolderInCall'
  BY NoCallerAssumption DEF TypeOK, Engaged, HolderInCall, InCall, Return, PC

\* One that goes on keeps it.
LEMMA GotoControl ==
  ASSUME TypeOK, Engaged, HolderInCall, NEW c \in Callers, lock = c,
         NEW where \in {"check", "spawn", "send", "read"}, NEW what, NEW try,
         Goto(c, where, what, try)
  PROVE  Engaged' /\ HolderInCall'
  BY DEF TypeOK, Engaged, HolderInCall, InCall, Goto, PC

\* The two ways an exception can go.
LEMMA RaiseCases ==
  ASSUME NEW c \in Callers, NEW exn, NEW table, NEW current, Raise(c, exn, table, current)
  PROVE  \/ /\ Goto(c, "spawn", "handshake", 2)
            /\ child' = Killed(table, current) /\ proc' = NoProc
         \/ \E result \in {Error(FALSE), Uncaught} :
              Return(c, result) /\ child' = table /\ proc' = current
<1>1. CASE attempt[c] = 1 /\ exn = "caught" /\ Goto(c, "spawn", "handshake", 2)
           /\ child' = Killed(table, current) /\ proc' = NoProc
  BY <1>1
<1>2. CASE Return(c, IF exn = "version" THEN Error(FALSE) ELSE Uncaught)
           /\ child' = table /\ proc' = current
  BY <1>2
<1>3. CASE Return(c, Error(FALSE)) /\ child' = table /\ proc' = current
  BY <1>3
<1> QED BY <1>1, <1>2, <1>3 DEF Raise

\* An exception does one or the other.
LEMMA RaiseControl ==
  ASSUME TypeOK, Engaged, HolderInCall, NEW c \in Callers, lock = c, NEW exn, NEW table,
         NEW current, Raise(c, exn, table, current)
  PROVE  Engaged' /\ HolderInCall'
  BY RaiseCases, ReturnControl, GotoControl

\* So does every step of an exchange.
LEMMA ExchangeControl ==
  ASSUME TypeOK, Engaged, HolderInCall, NEW c \in Callers, Exchange(c)
  PROVE  Engaged' /\ HolderInCall'
<1>0. lock = c
  BY DEF Exchange, CheckChild, Spawn, Send, StartReader, Receive, ReceiveEof, Timeout,
         HolderInCall, InCall
<1> USE <1>0
<1>1. CASE CheckChild(c)
  BY <1>1, GotoControl DEF CheckChild
<1>2. CASE Spawn(c)
  <2>1. CASE Raise(c, "caught", child, proc)
    BY <2>1, RaiseControl
  <2>2. CASE /\ pc' = [pc EXCEPT ![c] = "send"]
             /\ UNCHANGED <<lock, phase, attempt, reading, nth, outcome>>
    BY <1>2, <2>2 DEF Spawn, TypeOK, Engaged, HolderInCall, InCall
  <2> QED BY <1>2, <2>1, <2>2 DEF Spawn
<1>3. CASE Send(c)
  BY <1>3, RaiseControl, GotoControl DEF Send
<1>4. CASE StartReader(c)
  <2>1. CASE Raise(c, "unexpected", child, proc)
    BY <2>1, RaiseControl
  <2>2. CASE /\ proc # NoProc
             /\ reading' = [reading EXCEPT ![c] = proc]
             /\ pc' = [pc EXCEPT ![c] = "recv"]
             /\ UNCHANGED <<child, lock, proc, phase, attempt, nth, outcome>>
    BY <1>4, <2>2 DEF StartReader, TypeOK, Engaged, HolderInCall, InCall
  <2> QED BY <1>4, <2>1, <2>2 DEF StartReader
<1>5. CASE Receive(c)
  BY <1>5, RaiseControl, ReturnControl, GotoControl DEF Receive, Deliver
<1>6. CASE ReceiveEof(c)
  BY <1>6, RaiseControl DEF ReceiveEof
<1>7. CASE Timeout(c)
  BY <1>7, RaiseControl DEF Timeout
<1> QED BY <1>1, <1>2, <1>3, <1>4, <1>5, <1>6, <1>7 DEF Exchange

\* At first nobody has the lock.
LEMMA ControlInit == Init => ControlInv
<1> SUFFICES ASSUME Init PROVE ControlInv
  OBVIOUS
<1>1. TypeOK
  BY BlankType, CallsAssumption, ClosesAssumption
     DEF Init, TypeOK, ChildInit, ChildTypeOK, PC, Outcome
<1> QED BY <1>1, NoCallerAssumption DEF Init, ControlInv, Engaged, HolderInCall, InCall

\* Every step keeps both.
LEMMA ControlStep == ControlInv /\ [Next]_vars => ControlInv'
<1> SUFFICES ASSUME ControlInv, [Next]_vars PROVE ControlInv'
  OBVIOUS
<1>0. TypeOK /\ Engaged /\ HolderInCall
  BY DEF ControlInv
<1> USE <1>0
<1>1. ASSUME NEW c \in Callers, Call(c) PROVE ControlInv'
  <2>1. TypeOK'
    BY <1>1, OtherTypes
  <2>2. Engaged' /\ HolderInCall'
    BY <1>1, CallsAssumption DEF Call, TypeOK, Engaged, HolderInCall, InCall, PC
  <2> QED BY <2>1, <2>2 DEF ControlInv
<1>2. ASSUME NEW c \in Callers, Acquire(c) PROVE ControlInv'
  <2>1. TypeOK'
    BY <1>2, OtherTypes
  <2>2. Engaged' /\ HolderInCall'
    BY <1>2, NoCallerAssumption DEF Acquire, TypeOK, Engaged, HolderInCall, InCall, PC
  <2> QED BY <2>1, <2>2 DEF ControlInv
<1>3. ASSUME NEW c \in Callers, Exchange(c) PROVE ControlInv'
  BY <1>3, ExchangeType, ExchangeControl DEF ControlInv
<1>4. ASSUME Close \/ Closing \/ \E p \in Procs : Server(p) PROVE ControlInv'
  <2>1. TypeOK'
    BY <1>4, OtherTypes
  <2>2. UNCHANGED <<lock, callerVars>>
    BY <1>4 DEF Close, Closing, CloseStdin, CloseWait, CloseClear, Server
  <2> QED BY <2>1, <2>2 DEF ControlInv, Engaged, HolderInCall, InCall, callerVars
<1>5. CASE UNCHANGED vars
  BY <1>5 DEF vars, callerVars, closerVars, ControlInv, TypeOK, ChildTypeOK, Engaged,
              HolderInCall, InCall
<1> QED BY <1>1, <1>2, <1>3, <1>4, <1>5 DEF Next

\* TypeOK holds in every reachable state: no exception path, restart or
\* close leaves an attribute of the bridge outside its range.
THEOREM TypeCorrect == Spec => []TypeOK
<1>1. ControlInv => TypeOK
  BY DEF ControlInv
<1> QED BY <1>1, ControlInit, ControlStep, PTL DEF Spec

\* At most one thread is between writing a request and having its answer,
\* also while another thread closes the bridge.
THEOREM MutualExclusion ==
  Spec => [](\A c, d \in Callers : InCall(c) /\ InCall(d) => c = d)
<1>1. ControlInv => \A c, d \in Callers : InCall(c) /\ InCall(d) => c = d
  BY DEF ControlInv, HolderInCall
<1> QED BY <1>1, ControlInit, ControlStep, PTL DEF Spec

-----------------------------------------------------------------------------
(***************************************************************************)
(* Answers match requests.  Nothing in the code compares ids, so what      *)
(* makes it true is an invariant about the pipes: the current child's      *)
(* pipes are empty except during the one exchange of the lock holder, and  *)
(* then they hold that exchange's request or its answer.  It needs a       *)
(* server that writes one line per request, which "noise" is not.          *)
(***************************************************************************)
Quiet(s) == s.in = <<>> /\ s.out = <<>>

\* The pipes of a child hold nothing but req or its answer.
Awaiting(s, req) ==
  \/ Quiet(s)
  \/ s.in = <<req>> /\ s.out = <<>>
  \/ s.in = <<>> /\ \E line \in Line : line.to = req /\ s.out = <<line>>

\* A dead process has no unread input.
DeadRead(table) == \A p \in Procs : table[p].state # "running" => table[p].in = <<>>

\* Between exchanges the pipes of the child in use are empty; during one they hold
\* the request of the thread that has the lock, or its answer.
PipeInv ==
  /\ DeadRead(child)
  /\ (\A c \in Callers : pc[c] \notin {"read", "recv"}) /\ proc # NoProc =>
       Quiet(child[proc])
  /\ \A c \in Callers : pc[c] = "read" /\ proc # NoProc =>
       Awaiting(child[proc], CurrentRequest(c))
  /\ \A c \in Callers : pc[c] = "recv" =>
       /\ Awaiting(child[reading[c]], CurrentRequest(c))
       /\ proc \in {NoProc, reading[c]}

\* What makes AnswersMatch inductive.
AnswerInv == ControlInv /\ PipeInv /\ AnswersMatch

\* Without noise a server writes one line, to the request it read.
LEMMA OneReply ==
  ASSUME "noise" \notin Faults, NEW req \in Request, NEW lines \in Replies(req)
  PROVE  \E line \in Line : line.to = req /\ lines = <<line>>
  BY DEF Replies, Answer, Line

\* A kill leaves the pipes of the dead empty.
LEMMA KilledPipes ==
  ASSUME NEW table \in [Procs -> Process], DeadRead(table), NEW p
  PROVE  DeadRead(Killed(table, p))
  BY DEF DeadRead, Killed, Died, Process

\* The step leaves the exchange, or has not yet written, and the child that
\* is current afterwards has empty pipes.
LEMMA Settled ==
  ASSUME TypeOK, HolderInCall, NEW c \in Callers, lock = c,
         pc'[c] \notin {"read", "recv"},
         \A d \in Callers \ {c} : pc'[d] = pc[d],
         DeadRead(child'), proc' # NoProc => Quiet(child'[proc'])
  PROVE  PipeInv'
<1>1. \A d \in Callers : pc'[d] \notin {"read", "recv"}
  BY DEF HolderInCall, InCall
<1>2. (DeadRead(child))'
  BY DEF DeadRead
<1>3. ((\A d \in Callers : pc[d] \notin {"read", "recv"}) /\ proc # NoProc =>
        Quiet(child[proc]))'
  BY DEF Quiet, NoProc
<1> QED BY <1>1, <1>2, <1>3 DEF PipeInv

\* A call that goes on leaves the outcomes,
LEMMA GotoAnswers ==
  ASSUME TypeOK, AnswersMatch, NEW c \in Callers, NEW where \in PC \ {"idle"},
         NEW what, NEW try, Goto(c, where, what, try)
  PROVE  /\ AnswersMatch'
         /\ pc'[c] = where /\ \A d \in Callers \ {c} : pc'[d] = pc[d]
  BY DEF TypeOK, AnswersMatch, Goto

\* and one that returns adds its own.
LEMMA ReturnAnswers ==
  ASSUME TypeOK, AnswersMatch, NEW c \in Callers, NEW result, Return(c, result),
         result.kind = "result" =>
           result.to = [method |-> "call", from |-> c, nth |-> nth[c]]
  PROVE  /\ AnswersMatch'
         /\ pc'[c] = "idle" /\ \A d \in Callers \ {c} : pc'[d] = pc[d]
  BY DEF TypeOK, AnswersMatch, Return

\* An exception leaves the child that stays current with empty pipes.
LEMMA RaiseAnswers ==
  ASSUME TypeOK, HolderInCall, AnswersMatch, NEW c \in Callers, lock = c, NEW exn,
         NEW table \in [Procs -> Process], DeadRead(table),
         NEW current \in Procs \cup {NoProc}, current # NoProc => Quiet(table[current]),
         Raise(c, exn, table, current)
  PROVE  PipeInv' /\ AnswersMatch'
<1>1. CASE /\ Goto(c, "spawn", "handshake", 2)
           /\ child' = Killed(table, current) /\ proc' = NoProc
  BY <1>1, GotoAnswers, Settled, KilledPipes DEF PC
<1>2. ASSUME NEW result \in {Error(FALSE), Uncaught},
             Return(c, result), child' = table, proc' = current
      PROVE  PipeInv' /\ AnswersMatch'
  <2>1. result.kind # "result"
    BY DEF Error, Uncaught
  <2>2. AnswersMatch' /\ pc'[c] = "idle" /\ \A d \in Callers \ {c} : pc'[d] = pc[d]
    BY <1>2, <2>1, ReturnAnswers
  <2> QED BY <1>2, <2>2, Settled
<1> QED BY <1>1, <1>2, RaiseCases

\* What the reader finds: a line, and then nothing more; or nothing at all.
LEMMA ReadAwaited ==
  ASSUME NEW s, NEW req, Awaiting(s, req), s.out # <<>>
  PROVE  /\ s.in = <<>> /\ Head(s.out) \in Line /\ Head(s.out).to = req
         /\ Tail(s.out) = <<>>
<1>1. PICK line \in Line : s.in = <<>> /\ line.to = req /\ s.out = <<line>>
  BY DEF Awaiting, Quiet
<1>2. Head(<<line>>) = line /\ Tail(<<line>>) = <<>>
  OBVIOUS
<1> QED BY <1>1, <1>2

\* A line that is delivered was the only one.
LEMMA DeliverAnswers ==
  ASSUME ControlInv, AnswersMatch, NEW c \in Callers, lock = c, NEW line \in Line,
         line.to = CurrentRequest(c), reading[c] \in Procs,
         NEW table \in [Procs -> Process], DeadRead(table), Quiet(table[reading[c]]),
         proc \in {NoProc, reading[c]}, Deliver(c, line, table)
  PROVE  PipeInv' /\ AnswersMatch'
<1> USE DEF ControlInv
<1>0. NoProc \notin Procs
  BY NoProcNotProc
<1>1. CASE Raise(c, "caught", table, proc) \/ Raise(c, "unexpected", table, proc)
  BY <1>1, RaiseAnswers
<1>2. CASE Raise(c, "version", Killed(table, proc), NoProc)
  <2>1. DeadRead(Killed(table, proc)) /\ Killed(table, proc) \in [Procs -> Process]
    BY KilledPipes, KilledType
  <2> QED BY <1>2, <2>1, RaiseAnswers
<1>3. CASE /\ child' = [table EXCEPT ![reading[c]].greeted = TRUE]
           /\ Goto(c, "send", "call", attempt[c])
           /\ UNCHANGED proc
  <2>1. DeadRead(child') /\ Quiet(child'[reading[c]])
    BY <1>3 DEF DeadRead, Quiet, Process
  <2>2. AnswersMatch' /\ pc'[c] = "send" /\ \A d \in Callers \ {c} : pc'[d] = pc[d]
    BY <1>3, GotoAnswers DEF PC
  <2>3. proc' # NoProc => Quiet(child'[proc'])
    BY <1>3, <2>1
  <2> QED BY <2>1, <2>2, <2>3, Settled
<1>4. CASE /\ phase[c] = "call" /\ child' = table
           /\ Return(c, Reply(line))
           /\ UNCHANGED proc
  <2> DEFINE r == Reply(line)
  <2>1. r.kind = "result" => r.to = [method |-> "call", from |-> c, nth |-> nth[c]]
    BY <1>4, ReplyCases DEF Error, Result, Uncaught, CurrentRequest
  <2>2. AnswersMatch' /\ pc'[c] = "idle" /\ \A d \in Callers \ {c} : pc'[d] = pc[d]
    BY <1>4, <2>1, ReturnAnswers
  <2> QED BY <1>4, <2>2, Settled
<1> QED BY <1>1, <1>2, <1>3, <1>4 DEF Deliver

\* Every step of an exchange keeps the pipes and the outcomes right.
LEMMA ExchangeAnswers ==
  ASSUME AnswerInv, NEW c \in Callers, Exchange(c)
  PROVE  PipeInv' /\ AnswersMatch'
<1> USE DEF AnswerInv, ControlInv
<1>0. NoProc \notin Procs /\ DeadRead(child) /\ child \in [Procs -> Process]
  BY NoProcNotProc DEF PipeInv, TypeOK, ChildTypeOK
<1>1. lock = c
  BY DEF Exchange, CheckChild, Spawn, Send, StartReader, Receive, ReceiveEof, Timeout,
         HolderInCall, InCall
<1>2. \A d \in Callers \ {c} : pc[d] \notin {"read", "recv"}
  BY <1>1 DEF HolderInCall, InCall
<1>3. proc \in Procs \cup {NoProc}
  BY DEF TypeOK
<1>4. pc[c] \notin {"read", "recv"} => (proc # NoProc => Quiet(child[proc]))
  BY <1>2 DEF PipeInv
<1>5. CASE CheckChild(c)
  <2>1. /\ AnswersMatch' /\ pc'[c] \in {"send", "spawn"}
        /\ \A d \in Callers \ {c} : pc'[d] = pc[d]
    BY <1>5, GotoAnswers DEF CheckChild, PC
  <2>2. UNCHANGED <<child, proc>> /\ pc[c] = "check"
    BY <1>5 DEF CheckChild
  <2> QED BY <1>0, <1>1, <1>4, <2>1, <2>2, Settled
<1>6. CASE Spawn(c)
  <2>1. CASE Raise(c, "caught", child, proc)
    BY <1>0, <1>1, <1>3, <1>4, <1>6, <2>1, RaiseAnswers DEF Spawn
  <2>2. CASE ~Raise(c, "caught", child, proc)
    <3>1. PICK p \in Procs :
            /\ child' = Spawned(child, p)
            /\ proc' = p
            /\ pc' = [pc EXCEPT ![c] = "send"]
            /\ UNCHANGED <<lock, phase, attempt, reading, nth, outcome>>
      BY <1>6, <2>2 DEF Spawn
    <3>2. DeadRead(child') /\ Quiet(child'[p])
      BY <1>0, <3>1 DEF Spawned, Blank, DeadRead, Quiet
    <3>3. pc'[c] = "send" /\ \A d \in Callers \ {c} : pc'[d] = pc[d]
      BY <3>1 DEF TypeOK
    <3>4. PipeInv'
      BY <1>1, <3>1, <3>2, <3>3, Settled
    <3>5. AnswersMatch'
      BY <1>6, <3>1 DEF AnswersMatch, TypeOK, Spawn
    <3> QED BY <3>4, <3>5
  <2> QED BY <2>1, <2>2
<1>7. CASE Send(c)
  <2>1. CASE \E exn : Raise(c, exn, child, proc)
    BY <1>0, <1>1, <1>3, <1>4, <1>7, <2>1, RaiseAnswers DEF Send
  <2>2. CASE ~ \E exn : Raise(c, exn, child, proc)
    <3>1. /\ proc # NoProc /\ Running(proc) /\ pc[c] = "send"
          /\ child' = Sent(child, proc, CurrentRequest(c))
          /\ Goto(c, "read", phase[c], attempt[c])
          /\ UNCHANGED proc
      BY <1>7, <2>2 DEF Send, Writable
    <3>2. proc \in Procs /\ Quiet(child[proc])
      BY <1>3, <1>4, <3>1
    <3>3. Append(child[proc].in, CurrentRequest(c)) = <<CurrentRequest(c)>>
      BY <3>2 DEF Quiet
    <3>4. /\ child'[proc].in = <<CurrentRequest(c)>> /\ child'[proc].out = <<>>
          /\ DeadRead(child')
      BY <1>0, <3>1, <3>2, <3>3 DEF Sent, Quiet, DeadRead, Running, Process
    <3>5. CurrentRequest(c)' = CurrentRequest(c)
      BY <3>1 DEF CurrentRequest, Goto, TypeOK
    <3>6. AnswersMatch' /\ pc'[c] = "read" /\ \A d \in Callers \ {c} : pc'[d] = pc[d]
      BY <3>1, GotoAnswers DEF PC
    <3>7. \A d \in Callers : pc'[d] \in {"read", "recv"} => d = c
      BY <1>2, <3>6
    <3>8. Awaiting(child'[proc'], CurrentRequest(c)')
      BY <3>1, <3>4, <3>5 DEF Awaiting
    <3>9. PipeInv'
      <4>1. (DeadRead(child))'
        BY <3>4 DEF DeadRead
      <4>2. \A d \in Callers : pc'[d] = "read" => Awaiting(child'[proc'], CurrentRequest(d)')
        BY <3>7, <3>8
      <4>3. (\A d \in Callers : pc[d] = "read" /\ proc # NoProc =>
               Awaiting(child[proc], CurrentRequest(d)))'
        BY <4>2 DEF Awaiting, Quiet
      <4> QED BY <3>6, <3>7, <4>1, <4>3 DEF PipeInv
    <3> QED BY <3>6, <3>9
  <2> QED BY <2>1, <2>2
<1>8. CASE StartReader(c)
  <2>1. CASE proc = NoProc /\ Raise(c, "unexpected", child, proc)
    BY <1>0, <1>1, <1>3, <2>1, RaiseAnswers
  <2>2. CASE /\ proc # NoProc
             /\ reading' = [reading EXCEPT ![c] = proc]
             /\ pc' = [pc EXCEPT ![c] = "recv"]
             /\ UNCHANGED <<child, lock, proc, phase, attempt, nth, outcome>>
    <3>1. Awaiting(child[proc], CurrentRequest(c))
      BY <1>8, <2>2 DEF StartReader, PipeInv
    <3>2. \A d \in Callers : pc'[d] \in {"read", "recv"} => d = c
      BY <1>2, <2>2 DEF TypeOK
    <3>3. pc'[c] = "recv" /\ reading'[c] = proc
      BY <2>2 DEF TypeOK
    <3>4. UNCHANGED <<child, proc, phase, nth>>
      BY <2>2
    <3>5. PipeInv'
      BY <1>0, <3>1, <3>2, <3>3, <3>4 DEF PipeInv, CurrentRequest, DeadRead, Awaiting, Quiet
    <3>6. AnswersMatch'
      BY <1>8, <2>2 DEF AnswersMatch, TypeOK, StartReader
    <3> QED BY <3>5, <3>6
  <2> QED BY <1>8, <2>1, <2>2 DEF StartReader
<1>9. CASE Receive(c)
  <2> DEFINE p == reading[c]
             line == Head(child[p].out)
             table == [child EXCEPT ![p].out = Tail(@)]
  <2>1. /\ p \in Procs /\ child[p].out # <<>> /\ Deliver(c, line, table)
        /\ Awaiting(child[p], CurrentRequest(c)) /\ proc \in {NoProc, p}
    BY <1>9 DEF Receive, Engaged, PipeInv
  <2>2. /\ line \in Line /\ line.to = CurrentRequest(c)
        /\ child[p].in = <<>> /\ Tail(child[p].out) = <<>>
    BY <2>1, ReadAwaited
  <2>3. <<>> \in Seq(Line)
    OBVIOUS
  <2>4. table \in [Procs -> Process] /\ DeadRead(table) /\ Quiet(table[p])
    BY <1>0, <2>1, <2>2, <2>3 DEF Process, DeadRead, Quiet
  <2> HIDE DEF table
  <2> QED BY <1>1, <2>1, <2>2, <2>4, DeliverAnswers
<1>10. CASE ReceiveEof(c)
  <2>1. /\ reading[c] \in Procs /\ child[reading[c]].out = <<>> /\ ~Running(reading[c])
        /\ proc \in {NoProc, reading[c]} /\ Raise(c, "caught", child, proc)
    BY <1>10 DEF ReceiveEof, Engaged, PipeInv
  <2>2. Quiet(child[reading[c]])
    BY <1>0, <2>1 DEF DeadRead, Running, Quiet
  <2> QED BY <1>0, <1>1, <1>3, <2>1, <2>2, RaiseAnswers
<1>11. CASE Timeout(c)
  <2>1. Killed(child, proc) \in [Procs -> Process] /\ DeadRead(Killed(child, proc))
    BY <1>0, KilledType, KilledPipes
  <2> QED BY <1>1, <1>11, <2>1, RaiseAnswers DEF Timeout
<1> QED BY <1>5, <1>6, <1>7, <1>8, <1>9, <1>10, <1>11 DEF Exchange

\* No thread enters or leaves the reading of a response, or returns.
Elsewhere ==
  /\ UNCHANGED <<phase, reading, outcome>>
  /\ \A c \in Callers :
       \/ pc'[c] = pc[c] /\ nth'[c] = nth[c]
       \/ pc[c] \notin {"read", "recv"} /\ pc'[c] \notin {"read", "recv", "idle"}

\* Such a step is harmless when every pipe stays quiet or awaiting.
LEMMA TableAnswers ==
  ASSUME PipeInv, AnswersMatch, TypeOK, Engaged, Elsewhere, proc' \in {NoProc, proc},
         DeadRead(child'),
         \A p \in Procs : Quiet(child[p]) => Quiet(child'[p]),
         \A p \in Procs, req \in Request : Awaiting(child[p], req) => Awaiting(child'[p], req)
  PROVE  PipeInv' /\ AnswersMatch'
<1>1. ASSUME NEW c \in Callers, pc'[c] \in {"read", "recv"}
      PROVE  /\ pc[c] = pc'[c] /\ CurrentRequest(c)' = CurrentRequest(c)
             /\ CurrentRequest(c) \in Request
  <2>1. pc[c] = pc'[c] /\ nth'[c] = nth[c] /\ UNCHANGED phase
    BY <1>1 DEF Elsewhere
  <2>2. nth[c] # 0
    BY <1>1, <2>1 DEF Engaged
  <2> QED BY <2>1, <2>2, CurrentRequestType DEF CurrentRequest, TypeOK, CallerTypeOK
<1>3. (DeadRead(child))'
  BY DEF DeadRead
<1>4. ((\A c \in Callers : pc[c] \notin {"read", "recv"}) /\ proc # NoProc =>
         Quiet(child[proc]))'
  <2>1. (\A c \in Callers : pc'[c] \notin {"read", "recv"}) =>
          \A c \in Callers : pc[c] \notin {"read", "recv"}
    BY DEF Elsewhere
  <2>2. (\A c \in Callers : pc'[c] \notin {"read", "recv"}) /\ proc' # NoProc =>
          Quiet(child'[proc'])
    BY <2>1 DEF PipeInv, TypeOK
  <2> QED BY <2>2 DEF Quiet, NoProc
<1>5. ASSUME NEW c \in Callers, pc'[c] = "read", proc' # NoProc
      PROVE  Awaiting(child'[proc'], CurrentRequest(c)')
  <2>1. pc[c] = "read" /\ proc # NoProc /\ proc' = proc /\ proc \in Procs
    BY <1>1, <1>5 DEF TypeOK
  <2>2. Awaiting(child[proc], CurrentRequest(c))
    BY <2>1 DEF PipeInv
  <2> QED BY <1>1, <1>5, <2>1, <2>2
<1>6. ASSUME NEW c \in Callers, pc'[c] = "recv"
      PROVE  /\ Awaiting(child'[reading'[c]], CurrentRequest(c)')
             /\ proc' \in {NoProc, reading'[c]}
  <2>1. pc[c] = "recv" /\ reading'[c] = reading[c]
    BY <1>1, <1>6 DEF Elsewhere
  <2>2. /\ Awaiting(child[reading[c]], CurrentRequest(c))
        /\ reading[c] \in Procs /\ proc \in {NoProc, reading[c]}
    BY <2>1 DEF PipeInv, Engaged
  <2> QED BY <1>1, <1>6, <2>1, <2>2
<1>7. PipeInv'
  <2>1. (\A c \in Callers : pc[c] = "read" /\ proc # NoProc =>
           Awaiting(child[proc], CurrentRequest(c)))'
    BY <1>5 DEF Awaiting, Quiet, NoProc
  <2>2. (\A c \in Callers : pc[c] = "recv" =>
           /\ Awaiting(child[reading[c]], CurrentRequest(c))
           /\ proc \in {NoProc, reading[c]})'
    BY <1>6 DEF Awaiting, Quiet, NoProc
  <2> QED BY <1>3, <1>4, <2>1, <2>2 DEF PipeInv
<1>8. AnswersMatch'
  BY DEF AnswersMatch, Elsewhere
<1> QED BY <1>7, <1>8

\* A child that dies loses what is in its pipes, and no other does.
LEMMA DiedPipes ==
  ASSUME TypeOK, DeadRead(child), NEW q \in Procs, child' = Died(child, q)
  PROVE  /\ DeadRead(child')
         /\ \A p \in Procs : Quiet(child[p]) => Quiet(child'[p])
         /\ \A p \in Procs, req \in Request :
              Awaiting(child[p], req) => Awaiting(child'[p], req)
<1>1. child'[q].in = <<>> /\ child'[q].out = child[q].out
  BY DEF Died, TypeOK, ChildTypeOK, Process
<1>2. \A p \in Procs \ {q} : child'[p] = child[p]
  BY DEF Died, TypeOK, ChildTypeOK
<1> QED BY <1>1, <1>2 DEF DeadRead, Quiet, Awaiting

\* Where no pipe changes, what is said of them stays.
LEMMA SamePipes ==
  ASSUME DeadRead(child),
         \A p \in Procs : /\ child'[p].in = child[p].in /\ child'[p].out = child[p].out
                          /\ child'[p].state = "running" \/ child'[p].in = <<>>
  PROVE  /\ DeadRead(child')
         /\ \A p \in Procs : Quiet(child[p]) => Quiet(child'[p])
         /\ \A p \in Procs, req \in Request :
              Awaiting(child[p], req) => Awaiting(child'[p], req)
  BY DEF DeadRead, Quiet, Awaiting

\* A server that answers turns a request into its answer.
LEMMA ServePipes ==
  ASSUME "noise" \notin Faults, TypeOK, DeadRead(child), NEW q \in Procs, Serve(q)
  PROVE  /\ DeadRead(child')
         /\ \A p \in Procs : Quiet(child[p]) => Quiet(child'[p])
         /\ \A p \in Procs, req \in Request :
              Awaiting(child[p], req) => Awaiting(child'[p], req)
<1>1. child[q].in # <<>> /\ child[q].in \in Seq(Request) /\ Running(q)
  BY ChildFields DEF Serve
<1>2. Head(child[q].in) \in Request
  BY <1>1
<1>3. PICK lines \in Replies(Head(child[q].in)) :
        child' = [child EXCEPT ![q].in = Tail(@), ![q].out = @ \o lines]
  BY DEF Serve
<1>4. PICK line \in Line : line.to = Head(child[q].in) /\ lines = <<line>>
  BY <1>2, OneReply
<1>5. /\ child'[q].in = Tail(child[q].in) /\ child'[q].out = child[q].out \o <<line>>
      /\ child'[q].state = "running"
      /\ \A p \in Procs \ {q} : child'[p] = child[p]
  <2>1. child \in [Procs -> Process]
    BY DEF TypeOK, ChildTypeOK
  <2>2. child[q] \in [state : State, in : Seq(Request), out : Seq(Line), eof : BOOLEAN, greeted : BOOLEAN]
    BY <2>1 DEF Process
  <2>3. \A p \in Procs \ {q} : child'[p] = child[p]
    BY <1>3, <2>1
  <2>4. child'[q] = [child[q] EXCEPT !.in = Tail(child[q].in), !.out = child[q].out \o lines]
    BY <1>3, <2>1, <2>2
  <2>5. child'[q].in = Tail(child[q].in) /\ child'[q].out = child[q].out \o <<line>>
    BY <1>4, <2>2, <2>4
  <2>6. child'[q].state = "running"
    BY <1>1, <2>2, <2>4 DEF Running
  <2> QED BY <2>3, <2>5, <2>6
<1>6. ASSUME NEW req \in Request, Awaiting(child[q], req)
      PROVE  Awaiting(child'[q], req)
  <2>1. child[q].in = <<req>> /\ child[q].out = <<>>
    BY <1>1, <1>6 DEF Awaiting, Quiet
  <2>2. Tail(<<req>>) = <<>> /\ Head(<<req>>) = req /\ <<>> \o <<line>> = <<line>>
    OBVIOUS
  <2> QED BY <1>4, <1>5, <2>1, <2>2 DEF Awaiting
<1> QED BY <1>1, <1>5, <1>6 DEF DeadRead, Quiet

\* Every step keeps what is in the pipes and what was returned.
LEMMA AnswerStep ==
  ASSUME "noise" \notin Faults
  PROVE  AnswerInv /\ [Next]_vars => AnswerInv'
<1> SUFFICES ASSUME AnswerInv, [Next]_vars PROVE PipeInv' /\ AnswersMatch'
  BY ControlStep DEF AnswerInv
<1> USE DEF AnswerInv, ControlInv
<1>0. DeadRead(child) /\ NoProc \notin Procs
  BY NoProcNotProc DEF PipeInv
<1>1. ASSUME NEW c \in Callers, Call(c) PROVE PipeInv' /\ AnswersMatch'
  <2>1. Elsewhere
    BY <1>1 DEF Call, Elsewhere, TypeOK
  <2>2. UNCHANGED <<child, proc>>
    BY <1>1 DEF Call
  <2> QED BY <1>0, <2>1, <2>2, TableAnswers
<1>2. ASSUME NEW c \in Callers, Acquire(c) PROVE PipeInv' /\ AnswersMatch'
  <2>1. Elsewhere
    BY <1>2 DEF Acquire, Elsewhere, TypeOK
  <2>2. UNCHANGED <<child, proc>>
    BY <1>2 DEF Acquire
  <2> QED BY <1>0, <2>1, <2>2, TableAnswers
<1>3. ASSUME NEW c \in Callers, Exchange(c) PROVE PipeInv' /\ AnswersMatch'
  BY <1>3, ExchangeAnswers
<1>4. CASE Close
  <2>1. UNCHANGED <<child, proc>> /\ Elsewhere
    BY <1>4 DEF Close, callerVars, Elsewhere
  <2> QED BY <1>0, <2>1, TableAnswers
<1>5. CASE CloseStdin
  <2>1. UNCHANGED proc /\ Elsewhere
    BY <1>5 DEF CloseStdin, callerVars, Elsewhere
  <2>2. \A p \in Procs : /\ child'[p].in = child[p].in /\ child'[p].out = child[p].out
                         /\ child'[p].state = "running" \/ child'[p].in = <<>>
    <3>1. child \in [Procs -> Process] /\ proc \in Procs \cup {NoProc}
      BY DEF TypeOK, ChildTypeOK
    <3>2. CASE UNCHANGED child
      BY <1>0, <3>1, <3>2 DEF DeadRead
    <3>3. CASE proc \in Procs /\ child' = [child EXCEPT ![proc].eof = TRUE]
      BY <1>0, <3>1, <3>3 DEF DeadRead, Process
    <3> QED BY <1>5, <3>1, <3>2, <3>3 DEF CloseStdin
  <2> QED BY <1>0, <2>1, <2>2, SamePipes, TableAnswers
<1>6. CASE CloseWait
  <2>1. UNCHANGED proc /\ Elsewhere
    BY <1>6 DEF CloseWait, callerVars, Elsewhere
  <2>2. CASE UNCHANGED child
    BY <1>0, <2>1, <2>2, TableAnswers
  <2>3. CASE proc \in Procs /\ child' = Died(child, proc)
    BY <1>0, <2>1, <2>3, DiedPipes, TableAnswers
  <2> QED BY <1>6, <2>2, <2>3 DEF CloseWait, TypeOK
<1>7. CASE CloseClear
  <2>1. proc' = NoProc /\ Elsewhere
    BY <1>7 DEF CloseClear, callerVars, Elsewhere
  <2>2. \A p \in Procs : /\ child'[p].in = child[p].in /\ child'[p].out = child[p].out
                         /\ child'[p].state = "running" \/ child'[p].in = <<>>
    BY <1>0, <1>7 DEF CloseClear, DeadRead
  <2> QED BY <1>0, <2>1, <2>2, SamePipes, TableAnswers
<1>8. ASSUME NEW p \in Procs, Server(p) PROVE PipeInv' /\ AnswersMatch'
  <2>1. UNCHANGED proc /\ Elsewhere
    BY <1>8 DEF Server, callerVars, Elsewhere
  <2>2. CASE Serve(p)
    BY <1>0, <2>1, <2>2, ServePipes, TableAnswers
  <2>3. CASE ExitOnEof(p)
    <3>1. \A q \in Procs : /\ child'[q].in = child[q].in /\ child'[q].out = child[q].out
                           /\ child'[q].state = "running" \/ child'[q].in = <<>>
      BY <1>0, <2>3 DEF ExitOnEof, TypeOK, ChildTypeOK, Process, DeadRead
    <3> QED BY <1>0, <2>1, <3>1, SamePipes, TableAnswers
  <2>4. CASE Crash(p)
    <3>1. child' = Died(child, p)
      BY <2>4 DEF Crash
    <3> QED BY <1>0, <2>1, <3>1, DiedPipes, TableAnswers
  <2> QED BY <1>8, <2>2, <2>3, <2>4 DEF Server, ServerStep
<1>9. CASE UNCHANGED vars
  <2>1. UNCHANGED <<child, proc>> /\ Elsewhere
    BY <1>9 DEF vars, callerVars, Elsewhere
  <2> QED BY <1>0, <2>1, TableAnswers
<1> QED BY <1>1, <1>2, <1>3, <1>4, <1>5, <1>6, <1>7, <1>8, <1>9 DEF Next, Closing

\* At first there is neither child nor outcome.
LEMMA AnswerInit == Init => AnswerInv
<1> SUFFICES ASSUME Init PROVE PipeInv /\ AnswersMatch
  BY ControlInit DEF AnswerInv
<1> QED BY DEF Init, ChildInit, Blank, PipeInv, DeadRead, AnswersMatch, NoOutcome

\* A call that returns a result returns the answer to its own request, for
\* any number of threads and children, with crashes, hangs, error responses,
\* unreadable answers, restarts and concurrent _close() calls, as long as no
\* server writes a line beside its response.
THEOREM AnswersCorrect ==
  ASSUME "noise" \notin Faults
  PROVE  Spec => []AnswersMatch
<1>1. AnswerInv => AnswersMatch
  BY DEF AnswerInv
<1>2. AnswerInv /\ [Next]_vars => AnswerInv'
  BY AnswerStep
<1> QED BY <1>1, <1>2, AnswerInit, PTL DEF Spec

\* Between calls the pipes of the current child are empty, and during one they
\* hold its request or its answer: at most one exchange is under way, also
\* while _close() runs.  As for AnswersCorrect, a server that writes a line
\* beside its response is excluded.
THEOREM OneExchange ==
  ASSUME "noise" \notin Faults
  PROVE  Spec => []OneInFlight
<1>1. ASSUME AnswerInv, proc # NoProc, Running(proc)
      PROVE  LET pending == {child[proc].in[i] : i \in DOMAIN child[proc].in}
                              \cup {child[proc].out[i].to : i \in DOMAIN child[proc].out}
             IN  /\ Cardinality(pending) <= 1
                 /\ \A req \in pending : /\ req.from = lock
                                          /\ pc[lock] \in {"read", "recv"}
                                          /\ req = CurrentRequest(lock)
  <2> USE <1>1 DEF AnswerInv, ControlInv
  <2> DEFINE pending == {child[proc].in[i] : i \in DOMAIN child[proc].in}
                          \cup {child[proc].out[i].to : i \in DOMAIN child[proc].out}
  <2>1. ASSUME NEW req, Awaiting(child[proc], req) PROVE pending \subseteq {req}
    <3>1. CASE Quiet(child[proc])
      BY <3>1 DEF Quiet
    <3>2. CASE child[proc].in = <<req>> /\ child[proc].out = <<>>
      BY <3>2
    <3>3. ASSUME NEW line \in Line, line.to = req, child[proc].in = <<>>,
                 child[proc].out = <<line>>
          PROVE  pending \subseteq {req}
      BY <3>3
    <3> QED BY <2>1, <3>1, <3>2, <3>3 DEF Awaiting
  <2>2. CASE \A c \in Callers : pc[c] \notin {"read", "recv"}
    <3>1. pending = {}
      BY <2>2 DEF PipeInv, Quiet
    <3>2. Cardinality(pending) <= 1
      BY <3>1, FS_EmptySet
    <3> QED BY <3>1, <3>2
  <2>3. ASSUME NEW c \in Callers, pc[c] \in {"read", "recv"}
        PROVE  /\ Cardinality(pending) <= 1
               /\ \A req \in pending : /\ req.from = lock
                                        /\ pc[lock] \in {"read", "recv"}
                                        /\ req = CurrentRequest(lock)
    <3>1. lock = c
      BY <2>3 DEF HolderInCall, InCall
    <3>2. Awaiting(child[proc], CurrentRequest(c))
      BY <2>3 DEF PipeInv
    <3>3. pending \subseteq {CurrentRequest(c)}
      BY <2>1, <3>2
    <3>4. IsFiniteSet({CurrentRequest(c)}) /\ Cardinality({CurrentRequest(c)}) = 1
      BY FS_Singleton
    <3>5. Cardinality(pending) <= 1
      BY <3>3, <3>4, FS_Subset
    <3>6. CurrentRequest(c).from = c
      BY DEF CurrentRequest
    <3> QED BY <2>3, <3>1, <3>3, <3>5, <3>6
  <2> QED BY <2>2, <2>3
<1>2. AnswerInv => OneInFlight
  BY <1>1 DEF OneInFlight
<1>3. AnswerInv /\ [Next]_vars => AnswerInv'
  BY AnswerStep
<1> QED BY <1>2, <1>3, AnswerInit, PTL DEF Spec

-----------------------------------------------------------------------------
(***************************************************************************)
(* Children lost sight of.  CloseClear forgets whatever child self._proc   *)
(* names by then, so with concurrent calls a _close() can lose a running   *)
(* child; nothing else does, because a child is started only where none    *)
(* runs and every path that forgets one kills it first.                    *)
(***************************************************************************)
\* The children that run and that the bridge has lost sight of.
Lost == {p \in Procs : Running(p) /\ p # proc}

\* A child is started only where none runs.
SpawnFree == \A c \in Callers : pc[c] = "spawn" => proc = NoProc \/ ~Running(proc)

\* A _close() that is under way has lost none yet.
LostInv ==
  /\ SpawnFree
  /\ IsFiniteSet(Lost)
  /\ Cardinality(Lost) + (IF closer.at = "out" THEN 0 ELSE 1) <= closes

\* A kill stops one process and starts none.
LEMMA KilledStops ==
  ASSUME NEW table \in [Procs -> Process], NEW p, NEW q \in Procs,
         Killed(table, p)[q].state = "running"
  PROVE  q # p /\ table[q].state = "running"
  BY DEF Killed, Died, Process

\* Fewer children are lost sight of, and closes and pending ones stay.
LEMMA LostLess ==
  ASSUME TypeOK, LostInv, SpawnFree', Lost' \subseteq Lost, UNCHANGED closes,
         closer.at = "out" => closer'.at = "out"
  PROVE  LostInv'
<1>1. /\ IsFiniteSet(Lost') /\ Cardinality(Lost') \in Nat /\ Cardinality(Lost) \in Nat
      /\ Cardinality(Lost') <= Cardinality(Lost)
  BY FS_Subset, FS_CardinalityType DEF LostInv
<1>2. closes \in Nat
  BY ClosesAssumption DEF TypeOK
<1> QED BY <1>1, <1>2 DEF LostInv

\* An exception loses no child.
LEMMA RaiseLost ==
  ASSUME TypeOK, HolderInCall, LostInv, NEW c \in Callers, lock = c, NEW exn,
         NEW table \in [Procs -> Process], NEW current,
         \A p \in Procs : table[p].state = "running" /\ p # current => p \in Lost,
         Raise(c, exn, table, current), UNCHANGED closerVars
  PROVE  LostInv'
<1>1. CASE /\ Goto(c, "spawn", "handshake", 2)
           /\ child' = Killed(table, current) /\ proc' = NoProc
  <2>1. SpawnFree'
    BY <1>1 DEF SpawnFree
  <2>2. Lost' \subseteq Lost
    BY <1>1, KilledStops DEF Lost, Running
  <2> QED BY <2>1, <2>2, LostLess DEF closerVars
<1>2. ASSUME NEW result, Return(c, result), child' = table, proc' = current
      PROVE  LostInv'
  <2>1. \A d \in Callers : pc'[d] # "spawn"
    BY <1>2 DEF Return, TypeOK, HolderInCall, InCall
  <2>2. SpawnFree' /\ Lost' \subseteq Lost
    BY <1>2, <2>1 DEF SpawnFree, Lost, Running
  <2> QED BY <2>2, LostLess DEF closerVars
<1> QED BY <1>1, <1>2, RaiseCases

\* The table as it is, and with the current child killed, have lost no more.
LEMMA LostTables ==
  ASSUME TypeOK
  PROVE  /\ \A p \in Procs : child[p].state = "running" /\ p # proc => p \in Lost
         /\ \A p \in Procs : Killed(child, proc)[p].state = "running" => p \in Lost
  BY KilledStops DEF Lost, Running, TypeOK, ChildTypeOK

\* Nor does any step of an exchange.
LEMMA ExchangeLost ==
  ASSUME ControlInv, LostInv, NEW c \in Callers, Exchange(c)
  PROVE  LostInv'
<1> USE DEF ControlInv
<1>0. /\ lock = c /\ UNCHANGED closerVars /\ child \in [Procs -> Process]
      /\ \A d \in Callers \ {c} : ~InCall(d)
  BY DEF Exchange, CheckChild, Spawn, Send, StartReader, Receive, ReceiveEof, Timeout,
         HolderInCall, InCall, TypeOK, ChildTypeOK
<1>1. ASSUME UNCHANGED proc, pc'[c] # "spawn", \A d \in Callers \ {c} : pc'[d] = pc[d],
             \A p \in Procs : child'[p].state = child[p].state
      PROVE  LostInv'
  <2>1. SpawnFree' /\ Lost' = Lost
    BY <1>0, <1>1 DEF SpawnFree, Lost, Running, InCall
  <2> QED BY <1>0, <2>1, LostLess DEF closerVars
<1>2. ASSUME NEW exn, Raise(c, exn, child, proc) PROVE LostInv'
  BY <1>0, <1>2, LostTables, RaiseLost
<1>3. CASE CheckChild(c)
  <2>1. SpawnFree'
    BY <1>0, <1>3 DEF CheckChild, Goto, SpawnFree, InCall, TypeOK, Running
  <2>2. Lost' = Lost
    BY <1>3 DEF CheckChild, Lost, Running
  <2> QED BY <1>0, <2>1, <2>2, LostLess DEF closerVars
<1>4. CASE Spawn(c)
  <2>1. ASSUME NEW p \in Procs, Free(p), child' = Spawned(child, p), proc' = p,
               pc' = [pc EXCEPT ![c] = "send"]
        PROVE  LostInv'
    <3>1. SpawnFree'
      BY <1>0, <2>1 DEF SpawnFree, TypeOK, InCall
    <3>2. Lost' \subseteq Lost
      <4>1. \A q \in Procs \ {p} : child'[q] = child[q]
        BY <1>0, <2>1 DEF Spawned
      <4>2. proc = NoProc \/ ~Running(proc)
        BY <1>4 DEF Spawn, LostInv, SpawnFree
      <4>3. ASSUME NEW q \in Procs, child'[q].state = "running", q # p
            PROVE  q # proc /\ child[q].state = "running"
        BY <4>1, <4>2, <4>3, NoProcNotProc DEF Running
      <4> QED BY <2>1, <4>3 DEF Lost, Running
    <3> QED BY <1>0, <3>1, <3>2, LostLess DEF closerVars
  <2> QED BY <1>2, <1>4, <2>1 DEF Spawn
<1>5. CASE Send(c)
  <2>1. ASSUME child' = Sent(child, proc, CurrentRequest(c)), UNCHANGED proc, Writable,
               Goto(c, "read", phase[c], attempt[c])
        PROVE  LostInv'
    <3>1. \A p \in Procs : child'[p].state = child[p].state
      BY <1>0, <2>1 DEF Sent, Process
    <3> QED BY <1>1, <2>1, <3>1 DEF Goto, TypeOK
  <2> QED BY <1>2, <1>5, <2>1 DEF Send
<1>6. CASE StartReader(c)
  BY <1>1, <1>2, <1>6 DEF StartReader, TypeOK
<1>7. CASE Receive(c)
  <2> DEFINE p == reading[c]
             line == Head(child[p].out)
             table == [child EXCEPT ![p].out = Tail(@)]
  <2>1. p \in Procs /\ child[p].out # <<>> /\ Deliver(c, line, table)
    BY <1>7 DEF Receive, Engaged
  <2>2. Tail(child[p].out) \in Seq(Line)
    BY <2>1, ChildFields
  <2>3. table \in [Procs -> Process] /\ \A q \in Procs : table[q].state = child[q].state
    BY <1>0, <2>2 DEF Process
  <2> HIDE DEF table
  <2>4. ASSUME NEW exn, Raise(c, exn, table, proc) PROVE LostInv'
    BY <1>0, <2>3, <2>4, LostTables, RaiseLost
  <2>5. CASE Raise(c, "version", Killed(table, proc), NoProc)
    <3>1. Killed(table, proc) \in [Procs -> Process]
      BY <2>3, KilledType
    <3>2. \A q \in Procs : Killed(table, proc)[q].state = "running" => q \in Lost
      BY <2>3, KilledStops, LostTables
    <3> QED BY <1>0, <2>5, <3>1, <3>2, RaiseLost
  <2>6. CASE /\ child' = [table EXCEPT ![p].greeted = TRUE]
             /\ Goto(c, "send", "call", attempt[c]) /\ UNCHANGED proc
    <3>1. \A q \in Procs : child'[q].state = child[q].state
      BY <2>3, <2>6 DEF Process
    <3> QED BY <1>1, <2>6, <3>1 DEF Goto, TypeOK
  <2>7. ASSUME NEW result, child' = table, Return(c, result), UNCHANGED proc
        PROVE  LostInv'
    BY <1>1, <2>3, <2>7 DEF Return, TypeOK
  <2> QED BY <2>1, <2>4, <2>5, <2>6, <2>7 DEF Deliver
<1>8. CASE ReceiveEof(c)
  BY <1>2, <1>8 DEF ReceiveEof
<1>9. CASE Timeout(c)
  <2>1. Killed(child, proc) \in [Procs -> Process]
    BY <1>0, KilledType
  <2> QED BY <1>0, <1>9, <2>1, LostTables, RaiseLost DEF Timeout
<1> QED BY <1>3, <1>4, <1>5, <1>6, <1>7, <1>8, <1>9 DEF Exchange

\* No process is started, and what is current stays or is forgotten.
LEMMA LostElsewhere ==
  ASSUME TypeOK, LostInv, UNCHANGED <<proc, closes>>,
         closer.at = "out" => closer'.at = "out",
         \A c \in Callers : pc'[c] = "spawn" => pc[c] = "spawn",
         \A p \in Procs : child'[p].state = "running" => child[p].state = "running"
  PROVE  LostInv'
<1>1. SpawnFree'
  BY DEF LostInv, SpawnFree, Running, TypeOK
<1>2. Lost' \subseteq Lost
  BY DEF Lost, Running
<1> QED BY <1>1, <1>2, LostLess

\* A server that is not running does not come back.
LEMMA ServerStops ==
  ASSUME TypeOK, NEW q \in Procs, ServerStep(q)
  PROVE  \A p \in Procs : child'[p].state = "running" => child[p].state = "running"
<1>1. CASE Serve(q)
  BY <1>1 DEF Serve, TypeOK, ChildTypeOK, Process
<1>2. CASE ExitOnEof(q)
  BY <1>2 DEF ExitOnEof, TypeOK, ChildTypeOK, Process
<1>3. CASE Crash(q)
  BY <1>3 DEF Crash, Died, TypeOK, ChildTypeOK, Process
<1> QED BY <1>1, <1>2, <1>3 DEF ServerStep

\* Closing the stdin of a child does not end it by itself.
LEMMA StdinStates ==
  ASSUME TypeOK, CloseStdin
  PROVE  \A p \in Procs : child'[p].state = child[p].state
<1>1. CASE UNCHANGED child
  BY <1>1
<1>2. CASE proc \in Procs /\ child' = [child EXCEPT ![proc].eof = TRUE]
  BY <1>2 DEF TypeOK, ChildTypeOK, Process
<1> QED BY <1>1, <1>2 DEF CloseStdin, TypeOK

\* Waiting for a child ends at most one and starts none.
LEMMA WaitStates ==
  ASSUME TypeOK, CloseWait
  PROVE  \A p \in Procs : child'[p].state = "running" => child[p].state = "running"
<1>1. CASE UNCHANGED child
  BY <1>1
<1>2. CASE proc \in Procs /\ child' = Died(child, proc)
  BY <1>2 DEF Died, TypeOK, ChildTypeOK, Process
<1> QED BY <1>1, <1>2 DEF CloseWait, TypeOK

\* Only _close() can lose one, and counts.
LEMMA LostStep == ControlInv /\ LostInv /\ [Next]_vars => LostInv'
<1> SUFFICES ASSUME ControlInv, LostInv, [Next]_vars PROVE LostInv'
  OBVIOUS
<1> USE DEF ControlInv
<1>1. ASSUME NEW c \in Callers, Call(c) \/ Acquire(c) PROVE LostInv'
  BY <1>1, LostElsewhere DEF Call, Acquire, TypeOK, closerVars
<1>2. ASSUME NEW c \in Callers, Exchange(c) PROVE LostInv'
  BY <1>2, ExchangeLost
<1>3. CASE Close
  <2>1. SpawnFree' /\ Lost' = Lost
    BY <1>3 DEF Close, callerVars, LostInv, SpawnFree, Lost, Running
  <2>2. Cardinality(Lost) \in Nat /\ closes \in Nat
    BY FS_CardinalityType, ClosesAssumption DEF LostInv, TypeOK
  <2>3. closes' = closes + 1 /\ closer.at = "out"
    BY <1>3 DEF Close
  <2> QED BY <2>1, <2>2, <2>3 DEF LostInv
<1>4. CASE CloseStdin
  <2>1. \A p \in Procs : child'[p].state = child[p].state
    BY <1>4, StdinStates
  <2> QED BY <1>4, <2>1, LostElsewhere DEF CloseStdin, callerVars
<1>5. CASE CloseWait
  <2>1. \A p \in Procs : child'[p].state = "running" => child[p].state = "running"
    BY <1>5, WaitStates
  <2> QED BY <1>5, <2>1, LostElsewhere DEF CloseWait, callerVars
<1>6. CASE CloseClear
  <2>1. SpawnFree' /\ Lost' \subseteq Lost \cup {proc}
    BY <1>6 DEF CloseClear, callerVars, SpawnFree, Lost, Running
  <2>2. IsFiniteSet(Lost) /\ Cardinality(Lost) \in Nat /\ closes \in Nat
    BY FS_CardinalityType, ClosesAssumption DEF LostInv, TypeOK
  <2>3. /\ IsFiniteSet(Lost \cup {proc})
        /\ Cardinality(Lost \cup {proc}) = IF proc \in Lost THEN Cardinality(Lost)
                                           ELSE Cardinality(Lost) + 1
    BY <2>2, FS_AddElement
  <2>4. Cardinality(Lost \cup {proc}) \in Nat /\ Cardinality(Lost \cup {proc}) <= Cardinality(Lost) + 1
    BY <2>2, <2>3
  <2>5. /\ IsFiniteSet(Lost') /\ Cardinality(Lost') \in Nat
        /\ Cardinality(Lost') <= Cardinality(Lost \cup {proc})
    BY <2>1, <2>3, FS_Subset, FS_CardinalityType
  <2>6. Cardinality(Lost) + 1 <= closes /\ UNCHANGED closes /\ closer'.at = "out"
    BY <1>6 DEF CloseClear, LostInv, TypeOK
  <2>7. Cardinality(Lost') + 0 <= closes'
    BY <2>2, <2>4, <2>5, <2>6
  <2> QED BY <2>1, <2>5, <2>6, <2>7 DEF LostInv
<1>7. ASSUME NEW p \in Procs, Server(p) PROVE LostInv'
  BY <1>7, ServerStops, LostElsewhere DEF Server, callerVars, closerVars
<1>8. CASE UNCHANGED vars
  BY <1>8, LostElsewhere DEF vars, callerVars, closerVars
<1> QED BY <1>1, <1>2, <1>3, <1>4, <1>5, <1>6, <1>7, <1>8 DEF Next, Closing

\* At first none is lost.
LEMMA LostInit == Init => LostInv
<1> SUFFICES ASSUME Init PROVE LostInv
  OBVIOUS
<1>1. Lost = {}
  BY DEF Init, ChildInit, Blank, Lost, Running
<1> QED BY <1>1, FS_EmptySet DEF Init, LostInv, SpawnFree

\* Only a _close() loses sight of a child, and one at most.
THEOREM ChildrenKept == Spec => []LostByClose
<1>1. ControlInv /\ LostInv => LostByClose
  <2> SUFFICES ASSUME ControlInv, LostInv PROVE LostByClose
    OBVIOUS
  <2>1. Cardinality(Lost) \in Nat /\ closes \in Nat
    BY FS_CardinalityType, ClosesAssumption DEF LostInv, ControlInv, TypeOK
  <2>2. Cardinality(Lost) <= closes
    BY <2>1 DEF LostInv
  <2> QED BY <2>2 DEF LostByClose, Lost
<1> QED BY <1>1, ControlInit, ControlStep, LostInit, LostStep, PTL DEF Spec

-----------------------------------------------------------------------------
(***************************************************************************)
(* The handshake comes first.  A child is known to be greeted when a       *)
(* thread takes it for its call, because the only ones that are not are    *)
(* those a handshake is under way with, and those that are dead or that    *)
(* _close() has told to stop.  An answer that cannot be read breaks this:  *)
(* the second attempt, and an exception that call() lets out of the first, *)
(* leave the child they started as it is, so such answers are excluded.    *)
(***************************************************************************)
Ordered(table) ==
  \A p \in Procs : \A i \in DOMAIN table[p].in :
    table[p].in[i].method = "call" => table[p].greeted

\* Misbehaviour after which a line is no response.
Illegible == {"garbage", "noise"} \cup BadLines

\* What waits to be read can be.
Legible(table) ==
  \A p \in Procs : \A i \in DOMAIN table[p].out : table[p].out[i].kind # "garbage"

\* No call can be written to it any more.
Shut(table, current) ==
  current = NoProc \/ table[current].eof \/ table[current].state # "running"

\* The thread is in a handshake.
Greeting(c) == pc[c] \in {"send", "read", "recv"} /\ phase[c] = "handshake"

\* A child that a request can be written to has been greeted or is being greeted.
GreetInv ==
  /\ Ordered(child)
  /\ Legible(child)
  /\ SpawnFree
  /\ \A c \in Callers : pc[c] = "spawn" => phase[c] = "handshake"
  /\ \A c \in Callers :
       pc[c] = "send" /\ phase[c] = "call" => ~Writable \/ child[proc].greeted
  /\ Shut(child, proc) \/ child[proc].greeted \/ \E c \in Callers : Greeting(c)

\* A kill leaves nothing in the pipes.
LEMMA KilledTables ==
  ASSUME NEW table \in [Procs -> Process], Ordered(table), Legible(table), NEW p
  PROVE  Ordered(Killed(table, p)) /\ Legible(Killed(table, p))
<1>1. CASE p \in Procs
  <2>1. Killed(table, p)[p].in = <<>> /\ Killed(table, p)[p].out = <<>>
    BY <1>1 DEF Killed, Died, Process
  <2>2. \A q \in Procs \ {p} : Killed(table, p)[q] = table[q]
    BY <1>1 DEF Killed, Died
  <2> QED BY <2>1, <2>2 DEF Ordered, Legible
<1>2. CASE p \notin Procs
  BY <1>2 DEF Killed
<1> QED BY <1>1, <1>2

\* A thread that is about to start a child, or that has left its call, leaves
\* a child no call can reach any more.
LEMMA RaiseGreet ==
  ASSUME TypeOK, HolderInCall, GreetInv, NEW c \in Callers, lock = c, NEW exn,
         NEW table \in [Procs -> Process], Ordered(table), Legible(table),
         NEW current, Shut(table, current), Raise(c, exn, table, current)
  PROVE  GreetInv'
<1>0. \A d \in Callers \ {c} : pc[d] \notin {"spawn", "send", "read", "recv"}
  BY DEF HolderInCall, InCall
<1>1. CASE /\ Goto(c, "spawn", "handshake", 2)
           /\ child' = Killed(table, current) /\ proc' = NoProc
  <2>1. Ordered(child') /\ Legible(child')
    BY <1>1, KilledTables
  <2>2. /\ pc'[c] = "spawn" /\ phase'[c] = "handshake"
        /\ \A d \in Callers \ {c} : pc'[d] = pc[d]
    BY <1>1 DEF Goto, TypeOK
  <2> QED BY <1>0, <1>1, <2>1, <2>2
          DEF GreetInv, SpawnFree, Ordered, Legible, Shut, Writable, NoProc
<1>2. ASSUME NEW result, Return(c, result), child' = table, proc' = current
      PROVE  GreetInv'
  <2>1. pc'[c] = "idle" /\ \A d \in Callers \ {c} : pc'[d] = pc[d]
    BY <1>2 DEF Return, TypeOK
  <2> QED BY <1>0, <1>2, <2>1
          DEF GreetInv, SpawnFree, Ordered, Legible, Shut, Writable, NoProc
<1> QED BY <1>1, <1>2, RaiseCases

\* A step that starts no child and moves no thread within its exchange.
LEMMA GreetElsewhere ==
  ASSUME TypeOK, GreetInv, proc' \in {NoProc, proc}, UNCHANGED phase,
         Ordered(child'), Legible(child'),
         \A c \in Callers :
           pc'[c] = pc[c] \/ {pc[c], pc'[c]} \subseteq {"idle", "queued", "check"},
         \A p \in Procs : /\ child'[p].state = "running" => child[p].state = "running"
                          /\ child[p].eof => child'[p].eof
                          /\ child'[p].greeted = child[p].greeted
  PROVE  GreetInv'
<1>1. SpawnFree'
  BY DEF GreetInv, SpawnFree, Running, TypeOK, NoProc
<1>2. (\A c \in Callers : pc[c] = "send" /\ phase[c] = "call" =>
         ~Writable \/ child[proc].greeted)'
  BY DEF GreetInv, Writable, TypeOK, NoProc
<1>3. (Shut(child, proc) \/ child[proc].greeted \/ \E c \in Callers : Greeting(c))'
  <2>1. \A c \in Callers : Greeting(c) => Greeting(c)'
    BY DEF Greeting
  <2>2. Shut(child, proc) => Shut(child', proc')
    BY DEF Shut, TypeOK
  <2>3. proc' # NoProc => proc' = proc /\ proc \in Procs
    BY DEF TypeOK
  <2> QED BY <2>1, <2>2, <2>3 DEF GreetInv, Shut, NoProc
<1> QED BY <1>1, <1>2, <1>3 DEF GreetInv, Ordered, Legible

\* Every step of an exchange greets first, or leaves a child that is dead or told
\* to stop.
LEMMA ExchangeGreet ==
  ASSUME Faults \cap Illegible = {}, AnswerInv, GreetInv,
         NEW c \in Callers, Exchange(c)
  PROVE  GreetInv'
<1> USE DEF AnswerInv, ControlInv
<1>0. /\ lock = c /\ child \in [Procs -> Process] /\ NoProc \notin Procs
      /\ proc \in Procs \cup {NoProc} /\ Ordered(child) /\ Legible(child)
  BY NoProcNotProc
     DEF Exchange, CheckChild, Spawn, Send, StartReader, Receive, ReceiveEof, Timeout,
         HolderInCall, InCall, TypeOK, ChildTypeOK, GreetInv
<1>1. \A d \in Callers \ {c} : pc[d] \notin {"spawn", "send", "read", "recv"}
  BY <1>0 DEF HolderInCall, InCall
<1>2. ASSUME NEW exn, Raise(c, exn, child, proc), Shut(child, proc) PROVE GreetInv'
  BY <1>0, <1>2, RaiseGreet
<1>3. CASE CheckChild(c)
  <2>1. /\ \A d \in Callers \ {c} : pc'[d] = pc[d]
        /\ UNCHANGED <<child, proc>> /\ pc[c] = "check"
    BY <1>3 DEF CheckChild, Goto, TypeOK
  <2>2. CASE proc # NoProc /\ Running(proc)
    <3>1. pc'[c] = "send" /\ phase'[c] = "call"
      BY <1>3, <2>2 DEF CheckChild, Goto, TypeOK
    <3>2. Shut(child, proc) \/ child[proc].greeted
      BY <1>1, <2>1 DEF GreetInv, Greeting
    <3> QED BY <1>0, <1>1, <2>1, <2>2, <3>1, <3>2
            DEF GreetInv, SpawnFree, Ordered, Legible, Shut, Writable, Running
  <2>3. CASE ~(proc # NoProc /\ Running(proc))
    <3>1. pc'[c] = "spawn" /\ phase'[c] = "handshake"
      BY <1>3, <2>3 DEF CheckChild, Goto, TypeOK
    <3> QED BY <1>0, <1>1, <2>1, <2>3, <3>1
            DEF GreetInv, SpawnFree, Ordered, Legible, Shut, Writable, Running
  <2> QED BY <2>2, <2>3
<1>4. CASE Spawn(c)
  <2>1. ASSUME NEW p \in Procs, child' = Spawned(child, p), proc' = p,
               pc' = [pc EXCEPT ![c] = "send"], UNCHANGED phase
        PROVE  GreetInv'
    <3>1. /\ \A q \in Procs \ {p} : child'[q] = child[q]
          /\ child'[p].in = <<>> /\ child'[p].out = <<>>
      BY <1>0, <2>1 DEF Spawned, Blank
    <3>2. Ordered(child') /\ Legible(child')
      BY <1>0, <3>1 DEF Ordered, Legible
    <3>3. pc'[c] = "send" /\ phase'[c] = "handshake"
          /\ \A d \in Callers \ {c} : pc'[d] = pc[d] /\ phase'[d] = phase[d]
      BY <1>4, <2>1 DEF Spawn, GreetInv, TypeOK
    <3>4. (\E d \in Callers : Greeting(d))'
      BY <3>3 DEF Greeting
    <3>5. SpawnFree'
      BY <1>1, <3>3 DEF SpawnFree
    <3> QED BY <1>1, <3>2, <3>3, <3>4, <3>5 DEF GreetInv, Ordered, Legible
  <2>2. CASE Raise(c, "caught", child, proc)
    <3>1. Shut(child, proc)
      BY <1>4 DEF Spawn, GreetInv, SpawnFree, Shut, Running
    <3> QED BY <1>2, <2>2, <3>1
  <2> QED BY <1>4, <2>1, <2>2 DEF Spawn
<1>5. CASE Send(c)
  <2>1. CASE ~(Writable /\ Running(proc))
    <3>1. Shut(child, proc)
      BY <1>0, <2>1, ChildFields DEF Shut, Writable, Running
    <3> QED BY <1>2, <1>5, <2>1, <3>1 DEF Send
  <2>2. CASE Writable /\ Running(proc)
    <3>1. /\ pc[c] = "send" /\ proc \in Procs
          /\ child' = Sent(child, proc, CurrentRequest(c))
          /\ Goto(c, "read", phase[c], attempt[c])
          /\ UNCHANGED proc
      BY <1>0, <1>5, <2>2 DEF Send, Writable
    <3>2. Quiet(child[proc])
      BY <1>1, <3>1, <1>0 DEF PipeInv
    <3>3. Append(child[proc].in, CurrentRequest(c)) = <<CurrentRequest(c)>>
      BY <3>2 DEF Quiet
    <3>4. /\ child'[proc].in = <<CurrentRequest(c)>> /\ child'[proc].out = <<>>
          /\ child'[proc].greeted = child[proc].greeted
          /\ child'[proc].eof = child[proc].eof /\ child'[proc].state = child[proc].state
          /\ \A q \in Procs \ {proc} : child'[q] = child[q]
      BY <1>0, <3>1, <3>2, <3>3 DEF Sent, Quiet, Process
    <3>5. phase[c] = "call" => child[proc].greeted
      BY <2>2, <3>1 DEF GreetInv
    <3>6. CurrentRequest(c).method = "call" => phase[c] = "call"
      BY DEF CurrentRequest, TypeOK
    <3>7. Ordered(child') /\ Legible(child')
      BY <1>0, <3>4, <3>5, <3>6 DEF Ordered, Legible
    <3>8. /\ pc'[c] = "read" /\ phase'[c] = phase[c]
          /\ \A d \in Callers \ {c} : pc'[d] = pc[d] /\ phase'[d] = phase[d]
      BY <3>1 DEF Goto, TypeOK
    <3>9. (child[proc].greeted \/ \E d \in Callers : Greeting(d))'
      BY <3>1, <3>4, <3>5, <3>8 DEF Greeting, TypeOK
    <3> QED BY <1>1, <3>7, <3>8, <3>9 DEF GreetInv, SpawnFree, Ordered, Legible
  <2> QED BY <2>1, <2>2
<1>6. CASE StartReader(c)
  <2>1. CASE proc = NoProc /\ Raise(c, "unexpected", child, proc)
    BY <1>2, <2>1 DEF Shut
  <2>2. CASE /\ proc # NoProc
             /\ reading' = [reading EXCEPT ![c] = proc]
             /\ pc' = [pc EXCEPT ![c] = "recv"]
             /\ UNCHANGED <<child, lock, proc, phase, attempt, nth, outcome>>
    <3>1. pc[c] = "read" /\ pc'[c] = "recv" /\ \A d \in Callers \ {c} : pc'[d] = pc[d]
      BY <1>6, <2>2 DEF StartReader, TypeOK
    <3>2. \A d \in Callers : Greeting(d) => Greeting(d)'
      BY <2>2, <3>1 DEF Greeting
    <3> QED BY <1>1, <2>2, <3>1, <3>2
            DEF GreetInv, SpawnFree, Ordered, Legible, Shut, Writable, Running
  <2> QED BY <1>6, <2>1, <2>2 DEF StartReader
<1>7. CASE Receive(c)
  <2> DEFINE p == reading[c]
             line == Head(child[p].out)
             table == [child EXCEPT ![p].out = Tail(@)]
  <2>1. /\ p \in Procs /\ child[p].out # <<>> /\ Deliver(c, line, table)
        /\ Awaiting(child[p], CurrentRequest(c)) /\ proc \in {NoProc, p} /\ pc[c] = "recv"
    BY <1>7 DEF Receive, Engaged, PipeInv
  <2>2. child[p].in = <<>> /\ Tail(child[p].out) = <<>> /\ child[p].out \in Seq(Line)
    BY <2>1, ReadAwaited, ChildFields
  <2>3. line.kind \in {"result", "incompatible", "error"}
    <3>1. line.kind # "garbage" /\ line \in Line
      BY <1>0, <2>1, <2>2 DEF Legible
    <3> QED BY <3>1 DEF Line, Illegible
  <2>4. <<>> \in Seq(Line)
    OBVIOUS
  <2>5. /\ table \in [Procs -> Process] /\ \A q \in Procs \ {p} : table[q] = child[q]
        /\ table[p].in = <<>> /\ table[p].out = <<>>
        /\ table[p].greeted = child[p].greeted
        /\ table[p].eof = child[p].eof /\ table[p].state = child[p].state
    BY <1>0, <2>1, <2>2, <2>4 DEF Process
  <2> HIDE DEF table
  <2>6. Ordered(table) /\ Legible(table)
    BY <1>0, <2>5 DEF Ordered, Legible
  <2>7. CASE Raise(c, "version", Killed(table, proc), NoProc)
    BY <1>0, <2>5, <2>6, <2>7, KilledTables, KilledType, RaiseGreet DEF Shut
  <2>8. CASE /\ child' = [table EXCEPT ![p].greeted = TRUE]
             /\ Goto(c, "send", "call", attempt[c]) /\ UNCHANGED proc
    <3>1. /\ pc'[c] = "send" /\ \A d \in Callers \ {c} : pc'[d] = pc[d]
          /\ phase'[c] = "call"
      BY <2>8 DEF Goto, TypeOK
    <3>2. /\ child'[p].greeted /\ child'[p].in = <<>> /\ child'[p].out = <<>>
          /\ \A q \in Procs \ {p} : child'[q] = table[q]
      BY <2>1, <2>5, <2>8 DEF Process
    <3>3. Ordered(child') /\ Legible(child')
      BY <2>6, <3>2 DEF Ordered, Legible
    <3>4. proc' = NoProc \/ child'[proc'].greeted
      BY <2>1, <2>8, <3>2
    <3> QED BY <1>1, <3>1, <3>3, <3>4
            DEF GreetInv, SpawnFree, Ordered, Legible, Shut, Writable, NoProc
  <2>9. ASSUME NEW result, phase[c] = "call", child' = table, Return(c, result),
               UNCHANGED proc
        PROVE  GreetInv'
    <3>1. pc'[c] = "idle" /\ \A d \in Callers \ {c} : pc'[d] = pc[d]
      BY <2>9 DEF Return, TypeOK
    <3>2. Shut(child, proc) \/ child[proc].greeted
      BY <1>1, <2>9 DEF GreetInv, Greeting
    <3>3. Shut(child', proc') \/ child'[proc'].greeted
      BY <1>0, <2>5, <2>9, <3>2 DEF Shut
    <3> QED BY <1>1, <2>6, <2>9, <3>1, <3>3
            DEF GreetInv, SpawnFree, Ordered, Legible, Shut, NoProc
  <2> QED BY <2>1, <2>3, <2>7, <2>8, <2>9 DEF Deliver
<1>8. CASE ReceiveEof(c)
  <2>1. Shut(child, proc) /\ Raise(c, "caught", child, proc)
    BY <1>8 DEF ReceiveEof, PipeInv, Shut, Running
  <2> QED BY <1>2, <2>1
<1>9. CASE Timeout(c)
  BY <1>0, <1>9, KilledTables, KilledType, RaiseGreet DEF Timeout, Shut
<1> QED BY <1>3, <1>4, <1>5, <1>6, <1>7, <1>8, <1>9 DEF Exchange

\* What a dead process had written stays as it was.
LEMMA DiedTables ==
  ASSUME TypeOK, Ordered(child), Legible(child), NEW q \in Procs, child' = Died(child, q)
  PROVE  /\ Ordered(child') /\ Legible(child')
         /\ \A p \in Procs : child'[p].eof = child[p].eof
                            /\ child'[p].greeted = child[p].greeted
<1>1. /\ child'[q].in = <<>> /\ child'[q].out = child[q].out
      /\ child'[q].eof = child[q].eof /\ child'[q].greeted = child[q].greeted
  BY DEF Died, TypeOK, ChildTypeOK, Process
<1>2. \A p \in Procs \ {q} : child'[p] = child[p]
  BY DEF Died, TypeOK, ChildTypeOK
<1> QED BY <1>1, <1>2 DEF Ordered, Legible

\* What a server, or the end of one, does to the pipes.
LEMMA ServerTables ==
  ASSUME Faults \cap Illegible = {}, TypeOK, Ordered(child), Legible(child),
         NEW q \in Procs, ServerStep(q)
  PROVE  /\ Ordered(child') /\ Legible(child')
         /\ \A p \in Procs : child'[p].eof = child[p].eof
                            /\ child'[p].greeted = child[p].greeted
<1>0. child \in [Procs -> Process]
  BY DEF TypeOK, ChildTypeOK
<1>1. CASE Serve(q)
  <2>1. child[q].in # <<>> /\ child[q].in \in Seq(Request) /\ child[q].out \in Seq(Line)
    BY <1>1, ChildFields DEF Serve
  <2>2. PICK lines \in Replies(Head(child[q].in)) :
          child' = [child EXCEPT ![q].in = Tail(@), ![q].out = @ \o lines]
    BY <1>1 DEF Serve
  <2>3. PICK line \in Line : lines = <<line>>
    BY <2>1, OneReply DEF Illegible
  <2>4. line.kind # "garbage"
    BY <2>2, <2>3 DEF Replies, Answer, Illegible, BadLines
  <2>5. /\ child'[q] = [child[q] EXCEPT !.in = Tail(child[q].in), !.out = child[q].out \o lines]
        /\ \A p \in Procs \ {q} : child'[p] = child[p]
    BY <1>0, <2>2 DEF Process
  <2>6. child[q] \in Process
    BY <1>0
  <2>7. /\ child'[q].in = Tail(child[q].in) /\ child'[q].out = Append(child[q].out, line)
        /\ child'[q].eof = child[q].eof /\ child'[q].greeted = child[q].greeted
    BY <2>1, <2>3, <2>5, <2>6 DEF Process
  <2>8. ASSUME NEW i \in DOMAIN Tail(child[q].in)
        PROVE  i + 1 \in DOMAIN child[q].in /\ Tail(child[q].in)[i] = child[q].in[i + 1]
    BY <2>1
  <2>9. ASSUME NEW i \in DOMAIN Append(child[q].out, line)
        PROVE  \/ i \in DOMAIN child[q].out /\ Append(child[q].out, line)[i] = child[q].out[i]
               \/ Append(child[q].out, line)[i] = line
    BY <2>1
  <2>10. ASSUME NEW i \in DOMAIN child'[q].in, child'[q].in[i].method = "call"
         PROVE  child'[q].greeted
    BY <2>7, <2>8, <2>10 DEF Ordered
  <2>11. \A i \in DOMAIN child'[q].out : child'[q].out[i].kind # "garbage"
    BY <2>4, <2>7, <2>9 DEF Legible
  <2>12. \A p \in Procs : child'[p].eof = child[p].eof /\ child'[p].greeted = child[p].greeted
    BY <2>5, <2>7
  <2>13. Ordered(child')
    BY <2>5, <2>10 DEF Ordered
  <2>14. Legible(child')
    <3>1. ASSUME NEW p \in Procs \ {q}, NEW i \in DOMAIN child'[p].out
          PROVE  child'[p].out[i].kind # "garbage"
      <4>1. child'[p] = child[p]
        BY <2>5
      <4> QED BY <3>1, <4>1 DEF Legible
    <3> QED BY <2>11, <3>1, Zenon DEF Legible
  <2> QED BY <2>12, <2>13, <2>14
<1>2. CASE ExitOnEof(q)
  <2>1. /\ child'[q].in = child[q].in /\ child'[q].out = child[q].out
        /\ child'[q].eof = child[q].eof /\ child'[q].greeted = child[q].greeted
        /\ \A p \in Procs \ {q} : child'[p] = child[p]
    BY <1>0, <1>2 DEF ExitOnEof, Process
  <2> QED BY <2>1 DEF Ordered, Legible
<1>3. CASE Crash(q)
  BY <1>3, DiedTables DEF Crash
<1> QED BY <1>1, <1>2, <1>3 DEF ServerStep

\* No other step undoes that.
LEMMA GreetStep ==
  ASSUME Faults \cap Illegible = {}
  PROVE  AnswerInv /\ GreetInv /\ [Next]_vars => GreetInv'
<1> SUFFICES ASSUME AnswerInv, GreetInv, [Next]_vars PROVE GreetInv'
  OBVIOUS
<1> USE DEF AnswerInv, ControlInv
<1>0. Ordered(child) /\ Legible(child) /\ child \in [Procs -> Process]
  BY DEF GreetInv, TypeOK, ChildTypeOK
<1>1. ASSUME NEW c \in Callers, Call(c) \/ Acquire(c) PROVE GreetInv'
  <2>1. /\ UNCHANGED <<child, proc, phase>>
        /\ \A d \in Callers :
             pc'[d] = pc[d] \/ {pc[d], pc'[d]} \subseteq {"idle", "queued", "check"}
    BY <1>1 DEF Call, Acquire, TypeOK
  <2> QED BY <1>0, <2>1, GreetElsewhere
<1>2. ASSUME NEW c \in Callers, Exchange(c) PROVE GreetInv'
  BY <1>2, ExchangeGreet
<1>3. CASE Close
  BY <1>0, <1>3, GreetElsewhere DEF Close, callerVars
<1>4. CASE CloseStdin
  <2>1. CASE UNCHANGED child
    BY <1>0, <1>4, <2>1, GreetElsewhere DEF CloseStdin, callerVars
  <2>2. CASE proc \in Procs /\ child' = [child EXCEPT ![proc].eof = TRUE]
    <3>1. /\ Ordered(child') /\ Legible(child')
          /\ \A p \in Procs : /\ child'[p].state = child[p].state
                              /\ child[p].eof => child'[p].eof
                              /\ child'[p].greeted = child[p].greeted
      BY <1>0, <2>2 DEF Ordered, Legible, Process
    <3> QED BY <1>4, <3>1, GreetElsewhere DEF CloseStdin, callerVars
  <2> QED BY <1>4, <2>1, <2>2 DEF CloseStdin, TypeOK
<1>5. CASE CloseWait
  <2>1. CASE UNCHANGED child
    BY <1>0, <1>5, <2>1, GreetElsewhere DEF CloseWait, callerVars
  <2>2. CASE proc \in Procs /\ child' = Died(child, proc)
    BY <1>0, <1>5, <2>2, DiedTables, WaitStates, GreetElsewhere DEF CloseWait, callerVars
  <2> QED BY <1>5, <2>1, <2>2 DEF CloseWait, TypeOK
<1>6. CASE CloseClear
  BY <1>0, <1>6, GreetElsewhere DEF CloseClear, callerVars
<1>7. ASSUME NEW p \in Procs, Server(p) PROVE GreetInv'
  <2>1. /\ Ordered(child') /\ Legible(child')
        /\ \A q \in Procs : child'[q].eof = child[q].eof
                           /\ child'[q].greeted = child[q].greeted
    BY <1>0, <1>7, ServerTables DEF Server
  <2>2. \A q \in Procs : child'[q].state = "running" => child[q].state = "running"
    BY <1>7, ServerStops DEF Server
  <2> QED BY <1>7, <2>1, <2>2, GreetElsewhere DEF Server, callerVars
<1>8. CASE UNCHANGED vars
  BY <1>0, <1>8, GreetElsewhere DEF vars, callerVars
<1> QED BY <1>1, <1>2, <1>3, <1>4, <1>5, <1>6, <1>7, <1>8 DEF Next, Closing

\* At first there is no child.
LEMMA GreetInit == Init => GreetInv
  BY NoProcNotProc
     DEF Init, ChildInit, Blank, GreetInv, Ordered, Legible, SpawnFree, Shut, Writable

\* A request is written only to a child with which a compatible handshake was
\* completed, also when crashes, timeouts, restarts and concurrent _close()
\* calls come between the handshake and the request, as long as every line a
\* server writes can be read.
THEOREM HandshakesFirst ==
  ASSUME Faults \cap Illegible = {}
  PROVE  Spec => []HandshakeFirst
<1>1. AnswerInv /\ GreetInv /\ [Next]_vars => (AnswerInv /\ GreetInv)'
  BY AnswerStep, GreetStep DEF Illegible
<1>2. AnswerInv /\ GreetInv => HandshakeFirst
  BY DEF GreetInv, Ordered, HandshakeFirst
<1> QED BY <1>1, <1>2, AnswerInit, GreetInit, PTL DEF Spec

-----------------------------------------------------------------------------
(***************************************************************************)
(* The bridge when nobody calls _close() while a call is in progress.      *)
(* Then a child in use is never told to stop, no child is lost, and a call *)
(* meets no exception it does not expect.                                  *)
(***************************************************************************)
\* _close() is called when no call is in progress, and no call begins before
\* it ends; so self._proc stays what it was when _close() looked at it.
ClosingAlone ==
  /\ closer.at # "out" => \A c \in Callers : pc[c] = "idle"
  /\ closer.at = "eof" => proc # NoProc
  /\ closer.at = "wait" => closer.on = proc
  /\ closer.at = "clear" => proc = NoProc \/ ~Running(proc)

\* What holds then: nobody closes beside a call, the child in use is not told to
\* stop, and an access to self._proc finds a child.
ServiceInv ==
  /\ ClosingAlone
  /\ closer.at = "out" /\ proc # NoProc => ~child[proc].eof
  /\ \A c \in Callers : pc[c] \in {"send", "read", "recv"} => proc # NoProc
  /\ \A c \in Callers : pc[c] = "check" => attempt[c] = 1
  /\ SpawnFree
  /\ NoOrphan

\* Whatever an exception leads to.
LEMMA RaiseService ==
  ASSUME TypeOK, HolderInCall, ServiceInv, NEW c \in Callers, lock = c,
         NEW exn, NEW table \in [Procs -> Process], NEW current \in Procs \cup {NoProc},
         \A p \in Procs : table[p].state = "running" => p = current,
         current # NoProc => ~table[current].eof,
         Raise(c, exn, table, current), UNCHANGED closerVars
  PROVE  ServiceInv'
<1>0. /\ \A d \in Callers \ {c} : pc[d] \notin {"check", "spawn", "send", "read", "recv"}
      /\ pc[c] # "idle"
  BY DEF HolderInCall, InCall
<1>1. closer'.at = "out"
  BY <1>0 DEF ServiceInv, ClosingAlone, closerVars, TypeOK
<1>2. CASE /\ Goto(c, "spawn", "handshake", 2)
           /\ child' = Killed(table, current) /\ proc' = NoProc
  <2>1. \A p \in Procs : child'[p].state # "running"
    BY <1>2, KilledStops
  <2>2. /\ pc'[c] = "spawn" /\ \A d \in Callers \ {c} : pc'[d] = pc[d]
        /\ UNCHANGED outcome
    BY <1>2 DEF Goto, TypeOK
  <2> QED BY <1>0, <1>1, <1>2, <2>1, <2>2
          DEF ServiceInv, ClosingAlone, SpawnFree, NoOrphan, Running
<1>3. ASSUME NEW result, Return(c, result), child' = table, proc' = current
      PROVE  ServiceInv'
  <2>1. pc'[c] = "idle" /\ \A d \in Callers \ {c} : pc'[d] = pc[d]
    BY <1>3 DEF Return, TypeOK
  <2> QED BY <1>0, <1>1, <1>3, <2>1
          DEF ServiceInv, ClosingAlone, SpawnFree, NoOrphan, Running
<1> QED BY <1>2, <1>3 DEF Raise

\* The other steps of a call: none is started that would be a second one.
LEMMA StepService ==
  ASSUME TypeOK, HolderInCall, ServiceInv, NEW c \in Callers, lock = c,
         \A d \in Callers \ {c} : pc'[d] = pc[d] /\ attempt'[d] = attempt[d],
         pc'[c] # "check", pc'[c] = "spawn" => proc' = NoProc \/ ~Running(proc)',
         pc'[c] \in {"send", "read", "recv"} => proc' # NoProc,
         proc' # NoProc => ~child'[proc'].eof,
         \A p \in Procs : child'[p].state = "running" => p = proc',
         UNCHANGED closerVars
  PROVE  ServiceInv'
<1>0. /\ \A d \in Callers \ {c} : pc[d] \notin {"check", "spawn", "send", "read", "recv"}
      /\ pc[c] # "idle"
  BY DEF HolderInCall, InCall
<1>1. closer'.at = "out"
  BY <1>0 DEF ServiceInv, ClosingAlone, closerVars, TypeOK
<1> QED BY <1>0, <1>1
        DEF ServiceInv, ClosingAlone, SpawnFree, NoOrphan, Running

\* No step of an exchange disturbs that, however it ends.
LEMMA ExchangeService ==
  ASSUME ControlInv, ServiceInv, NEW c \in Callers, Exchange(c)
  PROVE  ServiceInv'
<1> USE DEF ControlInv
<1>0. /\ lock = c /\ UNCHANGED closerVars /\ child \in [Procs -> Process]
      /\ proc \in Procs \cup {NoProc} /\ NoProc \notin Procs
  BY NoProcNotProc
     DEF Exchange, CheckChild, Spawn, Send, StartReader, Receive, ReceiveEof, Timeout,
         HolderInCall, InCall, TypeOK, ChildTypeOK
<1>1. /\ proc # NoProc => ~child[proc].eof
      /\ \A p \in Procs : child[p].state = "running" => p = proc
  <2>1. closer.at = "out"
    BY <1>0 DEF HolderInCall, InCall, ServiceInv, ClosingAlone, TypeOK
  <2> QED BY <2>1 DEF ServiceInv, NoOrphan, Running
<1>2. ASSUME Raise(c, "caught", child, proc) PROVE ServiceInv'
  BY <1>0, <1>1, <1>2, RaiseService
<1>3. CASE CheckChild(c)
  <2>1. /\ \A d \in Callers \ {c} : pc'[d] = pc[d] /\ attempt'[d] = attempt[d]
        /\ pc'[c] = IF proc # NoProc /\ Running(proc) THEN "send" ELSE "spawn"
        /\ UNCHANGED <<child, proc, outcome>>
    BY <1>3 DEF CheckChild, Goto, TypeOK
  <2> QED BY <1>0, <1>1, <2>1, StepService DEF Running
<1>4. CASE Spawn(c)
  <2>1. ASSUME NEW p \in Procs, child' = Spawned(child, p), proc' = p,
               pc' = [pc EXCEPT ![c] = "send"], UNCHANGED <<attempt, outcome>>
        PROVE  ServiceInv'
    <3>1. /\ \A q \in Procs \ {p} : child'[q] = child[q]
          /\ child'[p].eof = FALSE
      BY <1>0, <2>1 DEF Spawned, Blank
    <3>2. proc = NoProc \/ ~Running(proc)
      BY <1>4 DEF Spawn, ServiceInv, SpawnFree
    <3>3. \A q \in Procs : child'[q].state = "running" => q = p
      BY <1>0, <1>1, <3>1, <3>2 DEF Running
    <3>4. pc'[c] = "send" /\ \A d \in Callers \ {c} : pc'[d] = pc[d] /\ attempt'[d] = attempt[d]
      BY <2>1 DEF TypeOK
    <3> QED BY <1>0, <1>1, <2>1, <3>1, <3>3, <3>4, StepService
  <2> QED BY <1>2, <1>4, <2>1 DEF Spawn
<1>5. CASE Send(c)
  <2>1. Writable
    BY <1>1, <1>5 DEF Send, ServiceInv, Writable
  <2>2. ASSUME child' = Sent(child, proc, CurrentRequest(c)), UNCHANGED proc,
               Goto(c, "read", phase[c], attempt[c])
        PROVE  ServiceInv'
    <3>1. proc \in Procs /\ \A p \in Procs : /\ child'[p].state = child[p].state
                                             /\ child'[p].eof = child[p].eof
      BY <1>0, <2>1, <2>2 DEF Sent, Process, Writable
    <3>2. /\ pc'[c] = "read" /\ \A d \in Callers \ {c} : pc'[d] = pc[d] /\ attempt'[d] = attempt[d]
          /\ UNCHANGED outcome
      BY <2>2 DEF Goto, TypeOK
    <3> QED BY <1>0, <1>1, <2>1, <2>2, <3>1, <3>2, StepService DEF Writable
  <2> QED BY <1>2, <1>5, <2>1, <2>2 DEF Send
<1>6. CASE StartReader(c)
  <2>1. /\ proc # NoProc /\ UNCHANGED <<child, proc, outcome, attempt>>
        /\ pc' = [pc EXCEPT ![c] = "recv"]
    BY <1>6 DEF StartReader, ServiceInv
  <2>2. pc'[c] = "recv" /\ \A d \in Callers \ {c} : pc'[d] = pc[d]
    BY <2>1 DEF TypeOK
  <2> QED BY <1>0, <1>1, <2>1, <2>2, StepService
<1>7. CASE Receive(c)
  <2> DEFINE p == reading[c]
             line == Head(child[p].out)
             table == [child EXCEPT ![p].out = Tail(@)]
  <2>1. /\ p \in Procs /\ child[p].out # <<>> /\ Deliver(c, line, table)
        /\ pc[c] = "recv" /\ proc # NoProc
    BY <1>7 DEF Receive, Engaged, ServiceInv
  <2>2. Tail(child[p].out) \in Seq(Line)
    BY <2>1, ChildFields
  <2>3. /\ table \in [Procs -> Process]
        /\ \A q \in Procs : table[q].state = child[q].state /\ table[q].eof = child[q].eof
    BY <1>0, <2>1, <2>2 DEF Process
  <2> HIDE DEF table
  <2>4. ASSUME NEW exn, Raise(c, exn, table, proc) PROVE ServiceInv'
    BY <1>0, <1>1, <2>3, <2>4, RaiseService
  <2>5. CASE Raise(c, "version", Killed(table, proc), NoProc)
    <3>1. /\ Killed(table, proc) \in [Procs -> Process]
          /\ \A q \in Procs : Killed(table, proc)[q].state # "running"
      BY <1>1, <2>3, KilledStops, KilledType
    <3> QED BY <1>0, <2>5, <3>1, RaiseService
  <2>6. CASE /\ child' = [table EXCEPT ![p].greeted = TRUE]
             /\ Goto(c, "send", "call", attempt[c]) /\ UNCHANGED proc
    <3>1. \A q \in Procs : child'[q].state = child[q].state /\ child'[q].eof = child[q].eof
      BY <2>1, <2>3, <2>6 DEF Process
    <3>2. /\ pc'[c] = "send" /\ \A d \in Callers \ {c} : pc'[d] = pc[d] /\ attempt'[d] = attempt[d]
          /\ UNCHANGED outcome
      BY <2>6 DEF Goto, TypeOK
    <3> QED BY <1>0, <1>1, <2>1, <2>6, <3>1, <3>2, StepService
  <2>7. ASSUME NEW result, child' = table, Return(c, result), UNCHANGED proc
        PROVE  ServiceInv'
    <3>1. /\ pc'[c] = "idle" /\ \A d \in Callers \ {c} : pc'[d] = pc[d]
          /\ UNCHANGED attempt
      BY <1>1, <2>7 DEF Return, TypeOK
    <3> QED BY <1>0, <1>1, <2>1, <2>3, <2>7, <3>1, StepService
  <2> QED BY <2>1, <2>4, <2>5, <2>6, <2>7 DEF Deliver
<1>8. CASE ReceiveEof(c)
  BY <1>2, <1>8 DEF ReceiveEof
<1>9. CASE Timeout(c)
  <2>1. /\ Killed(child, proc) \in [Procs -> Process]
        /\ \A q \in Procs : Killed(child, proc)[q].state # "running"
    BY <1>0, <1>1, KilledStops, KilledType
  <2> QED BY <1>0, <1>9, <2>1, RaiseService DEF Timeout
<1> QED BY <1>3, <1>4, <1>5, <1>6, <1>7, <1>8, <1>9 DEF Exchange

\* No call moves within its exchange and no child is started.
LEMMA ServiceElsewhere ==
  ASSUME TypeOK, ServiceInv, UNCHANGED <<proc, attempt, outcome>>, ClosingAlone',
         closer'.at = "out" => closer.at = "out",
         \A c \in Callers : pc'[c] = pc[c] \/ pc'[c] = "queued",
         \A p \in Procs : /\ child'[p].state = "running" => child[p].state = "running"
                          /\ closer'.at = "out" => child'[p].eof = child[p].eof
  PROVE  ServiceInv'
  BY DEF ServiceInv, SpawnFree, NoOrphan, Running, TypeOK

\* Only the bridge closes the stdin of a server.
LEMMA ServerKeepsStdin ==
  ASSUME TypeOK, NEW q \in Procs, ServerStep(q)
  PROVE  \A p \in Procs : child'[p].eof = child[p].eof
<1>0. child \in [Procs -> Process]
  BY DEF TypeOK, ChildTypeOK
<1>1. CASE Serve(q)
  BY <1>0, <1>1 DEF Serve, Process
<1>2. CASE ExitOnEof(q)
  BY <1>0, <1>2 DEF ExitOnEof, Process
<1>3. CASE Crash(q)
  BY <1>0, <1>3 DEF Crash, Died, Process
<1> QED BY <1>1, <1>2, <1>3 DEF ServerStep

\* Nor does any other step.
LEMMA ServiceStep ==
  ASSUME ~ConcurrentClose
  PROVE  ControlInv /\ ServiceInv /\ [Next]_vars => ServiceInv'
<1> SUFFICES ASSUME ControlInv, ServiceInv, [Next]_vars PROVE ServiceInv'
  OBVIOUS
<1> USE DEF ControlInv
<1>0. child \in [Procs -> Process] /\ proc \in Procs \cup {NoProc} /\ NoProc \notin Procs
  BY NoProcNotProc DEF TypeOK, ChildTypeOK
<1>1. ASSUME NEW c \in Callers, Call(c) PROVE ServiceInv'
  <2>1. closer.at = "out" /\ UNCHANGED <<child, proc, attempt, outcome, closer>>
        /\ \A d \in Callers : pc'[d] = pc[d] \/ pc'[d] = "queued"
    BY <1>1 DEF Call, closerVars, TypeOK
  <2> QED BY <2>1, ServiceElsewhere DEF ServiceInv, ClosingAlone
<1>2. ASSUME NEW c \in Callers, Acquire(c) PROVE ServiceInv'
  <2>1. /\ pc[c] = "queued" /\ pc'[c] = "check" /\ attempt'[c] = 1
        /\ \A d \in Callers \ {c} : pc'[d] = pc[d] /\ attempt'[d] = attempt[d]
        /\ UNCHANGED <<child, proc, outcome, closer>>
    BY <1>2 DEF Acquire, closerVars, TypeOK
  <2>2. closer.at = "out"
    BY <2>1 DEF ServiceInv, ClosingAlone
  <2> QED BY <2>1, <2>2
          DEF ServiceInv, ClosingAlone, SpawnFree, NoOrphan, Running
<1>3. ASSUME NEW c \in Callers, Exchange(c) PROVE ServiceInv'
  BY <1>3, ExchangeService
<1>4. CASE Close
  <2>1. /\ closer.at = "out" /\ closer'.at = (IF proc = NoProc THEN "out" ELSE "eof")
        /\ \A c \in Callers : pc[c] = "idle"
        /\ UNCHANGED <<child, proc, pc, attempt, outcome>>
    BY <1>4 DEF Close, callerVars, TypeOK
  <2>2. ClosingAlone'
    BY <2>1 DEF ServiceInv, ClosingAlone
  <2> QED BY <2>1, <2>2, ServiceElsewhere
<1>5. CASE CloseStdin
  <2>1. /\ proc \in Procs /\ child' = [child EXCEPT ![proc].eof = TRUE]
        /\ closer' = [at |-> "wait", on |-> proc]
        /\ \A c \in Callers : pc[c] = "idle"
        /\ UNCHANGED <<proc, pc, attempt, outcome>>
    BY <1>0, <1>5 DEF CloseStdin, callerVars, ServiceInv, ClosingAlone
  <2>2. ClosingAlone'
    BY <2>1 DEF ClosingAlone
  <2> QED BY <1>5, <2>1, <2>2, StdinStates, ServiceElsewhere
<1>6. CASE CloseWait
  <2>1. /\ closer' = [at |-> "clear", on |-> NoProc] /\ closer.on = proc
        /\ \A c \in Callers : pc[c] = "idle"
        /\ UNCHANGED <<proc, pc, attempt, outcome>>
    BY <1>6 DEF CloseWait, callerVars, ServiceInv, ClosingAlone
  <2>2. proc # NoProc => child'[proc].state # "running"
    BY <1>0, <1>6, <2>1 DEF CloseWait, Running, Died, Process
  <2>3. ClosingAlone'
    BY <2>1, <2>2 DEF ClosingAlone, Running
  <2> QED BY <1>6, <2>1, <2>3, WaitStates, ServiceElsewhere
<1>7. CASE CloseClear
  <2>1. /\ closer'.at = "out" /\ proc' = NoProc
        /\ \A c \in Callers : pc[c] = "idle"
        /\ UNCHANGED <<child, pc, outcome>>
    BY <1>7 DEF CloseClear, callerVars, ServiceInv, ClosingAlone, TypeOK
  <2>2. \A p \in Procs : ~Running(p)
    BY <1>0, <1>7 DEF CloseClear, ServiceInv, ClosingAlone, NoOrphan
  <2> QED BY <1>0, <2>1, <2>2
          DEF ServiceInv, ClosingAlone, SpawnFree, NoOrphan, Running
<1>8. ASSUME NEW p \in Procs, Server(p) PROVE ServiceInv'
  <2>1. \A q \in Procs : child'[q].state = "running" => child[q].state = "running"
    BY <1>8, ServerStops DEF Server
  <2>2. \A q \in Procs : child'[q].eof = child[q].eof
    BY <1>8, ServerKeepsStdin DEF Server
  <2>3. UNCHANGED <<proc, pc, attempt, outcome, closer>>
    BY <1>8 DEF Server, callerVars, closerVars
  <2>4. ClosingAlone'
    BY <1>0, <2>1, <2>3 DEF ServiceInv, ClosingAlone, Running
  <2> QED BY <2>1, <2>2, <2>3, <2>4, ServiceElsewhere
<1>9. CASE UNCHANGED vars
  <2>1. UNCHANGED <<child, proc, pc, attempt, outcome, closer>>
    BY <1>9 DEF vars, callerVars, closerVars
  <2> QED BY <2>1, ServiceElsewhere DEF ServiceInv, ClosingAlone, Running
<1> QED BY <1>1, <1>2, <1>3, <1>4, <1>5, <1>6, <1>7, <1>8, <1>9 DEF Next, Closing

\* It holds before the first call.
LEMMA ServiceInit == Init => ServiceInv
  BY DEF Init, ChildInit, Blank, ServiceInv, ClosingAlone, SpawnFree, NoOrphan,
         Running

\* A child that runs is the one self._proc names: crashes, timeouts, restarts
\* and refused versions leave none behind, for any number of threads sharing a
\* bridge and whatever the server writes, as long as _close() is not called
\* while a call is in progress.
THEOREM NoChildLost ==
  ASSUME ~ConcurrentClose
  PROVE  Spec => []NoOrphan
<1>1. ControlInv /\ ServiceInv /\ [Next]_vars => (ControlInv /\ ServiceInv)'
  BY ControlStep, ServiceStep
<1>2. ServiceInv => NoOrphan
  BY DEF ServiceInv
<1> QED BY <1>1, <1>2, ControlInit, ServiceInit, PTL DEF Spec

\* A call that raises had an exception of that type, and the second attempt only
\* SubprocessError.
LEMMA RaiseEscapes ==
  ASSUME TypeOK, NEW c \in Callers, NEW exn, NEW table, NEW current,
         Raise(c, exn, table, current), pc'[c] = "idle", outcome'[c] = Uncaught
  PROVE  exn \notin {"caught", "version"} /\ attempt[c] = 1
<1>1. Error(FALSE) # Uncaught
  BY DEF Error, Uncaught
<1>2. ~Return(c, Error(FALSE))
  BY <1>1 DEF Return, TypeOK
<1>3. ~Goto(c, "spawn", "handshake", 2)
  BY DEF Goto, TypeOK
<1> QED BY <1>2, <1>3 DEF Raise

\* A step of one thread leaves the others where they are.
LEMMA OthersStay ==
  ASSUME TypeOK, NEW c \in Callers, NEW d \in Callers \ {c}, Exchange(d)
  PROVE  pc'[c] = pc[c]
<1>1. ASSUME NEW where, pc' = [pc EXCEPT ![d] = where] PROVE pc'[c] = pc[c]
  BY <1>1 DEF TypeOK
<1>2. \E where : pc' = [pc EXCEPT ![d] = where]
  <2>1. ASSUME NEW exn, NEW table, NEW current, Raise(d, exn, table, current)
        PROVE  \E where : pc' = [pc EXCEPT ![d] = where]
    BY <2>1 DEF Raise, Return, Goto
  <2>2. CASE CheckChild(d) \/ Spawn(d) \/ Send(d) \/ StartReader(d)
    BY <2>1, <2>2 DEF CheckChild, Spawn, Send, StartReader, Goto
  <2>3. CASE Receive(d) \/ ReceiveEof(d) \/ Timeout(d)
    BY <2>1, <2>3 DEF Receive, ReceiveEof, Timeout, Deliver, Goto, Return
  <2> QED BY <2>2, <2>3 DEF Exchange
<1> QED BY <1>1, <1>2

\* Only a line that cannot be decoded or taken apart makes a call raise anything
\* else.
LEMMA Escaping ==
  ASSUME ControlInv, ServiceInv, NEW c \in Callers, Exchange(c),
         pc'[c] = "idle", outcome'[c] = Uncaught
  PROVE  /\ pc[c] = "recv"
         /\ child[reading[c]].out # <<>>
         /\ LET kind == Head(child[reading[c]].out).kind
            IN  \/ kind = "malformed" /\ phase[c] = "call"
                \/ kind \in BadLines /\ attempt[c] = 1
<1> USE DEF ControlInv
<1>1. ASSUME NEW table, NEW current
      PROVE  ~Raise(c, "caught", table, current) /\ ~Raise(c, "version", table, current)
  BY RaiseEscapes
<1>2. ASSUME NEW where, where # "idle", NEW what, NEW try
      PROVE  ~Goto(c, where, what, try)
  BY <1>2 DEF Goto, TypeOK
<1>3. ~CheckChild(c)
  BY <1>2 DEF CheckChild
<1>4. ~Spawn(c)
  BY <1>1 DEF Spawn, TypeOK
<1>5. ~Send(c)
  <2>1. pc[c] = "send" => Writable
    <3>1. pc[c] = "send" => closer.at = "out"
      BY DEF ServiceInv, ClosingAlone, TypeOK
    <3> QED BY <3>1 DEF ServiceInv, Writable
  <2> QED BY <1>1, <1>2, <2>1 DEF Send
<1>6. ~StartReader(c)
  BY DEF StartReader, ServiceInv, TypeOK
<1>7. ~ReceiveEof(c) /\ ~Timeout(c)
  BY <1>1 DEF ReceiveEof, Timeout
<1>8. CASE Receive(c)
  <2> DEFINE line == Head(child[reading[c]].out)
  <2>1. PICK table : Deliver(c, line, table)
    BY <1>8 DEF Receive
  <2> HIDE DEF line
  <2>2. CASE Raise(c, "unexpected", table, proc) /\ line.kind \in BadLines
    <3>1. attempt[c] = 1
      BY <2>2, RaiseEscapes
    <3> QED BY <1>8, <2>2, <3>1 DEF Receive, line
  <2>3. CASE Return(c, Reply(line)) /\ phase[c] = "call"
    <3>1. Reply(line) = Uncaught
      BY <2>3 DEF Return, TypeOK
    <3>2. line.kind = "malformed"
      BY <3>1, ReplyCases DEF Error, Result, Uncaught
    <3> QED BY <1>8, <2>3, <3>2 DEF Receive, line
  <2> QED BY <1>1, <1>2, <2>1, <2>2, <2>3 DEF Deliver, BadLines
<1> QED BY <1>3, <1>4, <1>5, <1>6, <1>7, <1>8 DEF Exchange

\* Under the same condition, what call() lets out besides SubprocessError comes
\* from a line that cannot be decoded or taken apart, and out of the second
\* attempt only from one that answers the request: nothing that an exited child,
\* a timeout, a failed start or an earlier call can do leads to an exception that
\* the except clauses do not name.
THEOREM FailuresNamed ==
  ASSUME ~ConcurrentClose
  PROVE  Spec => OnlyBadLinesEscape
<1> DEFINE Explained(c) ==
             pc[c] # "idle" /\ pc'[c] = "idle" /\ outcome'[c] = Uncaught =>
               /\ pc[c] = "recv"
               /\ child[reading[c]].out # <<>>
               /\ LET kind == Head(child[reading[c]].out).kind
                  IN  \/ kind = "malformed" /\ phase[c] = "call"
                      \/ kind \in BadLines /\ attempt[c] = 1
<1>1. ControlInv /\ ServiceInv /\ [Next]_vars => (ControlInv /\ ServiceInv)'
  BY ControlStep, ServiceStep
<1>2. ASSUME ControlInv, ServiceInv, [Next]_vars, NEW c \in Callers
      PROVE  Explained(c)
  <2>1. CASE Exchange(c)
    BY <1>2, <2>1, Escaping
  <2>2. ASSUME NEW d \in Callers \ {c}, Exchange(d) PROVE pc'[c] = pc[c]
    BY <1>2, <2>2, OthersStay DEF ControlInv
  <2>3. ASSUME NEW d \in Callers, Call(d) \/ Acquire(d)
        PROVE  pc'[c] = pc[c] \/ pc'[c] # "idle"
    BY <1>2, <2>3 DEF Call, Acquire, ControlInv, TypeOK
  <2>4. ASSUME Close \/ Closing \/ (\E p \in Procs : Server(p)) \/ UNCHANGED vars
        PROVE  pc'[c] = pc[c]
    BY <2>4 DEF Close, Closing, CloseStdin, CloseWait, CloseClear, Server, callerVars, vars
  <2> QED BY <1>2, <2>1, <2>2, <2>3, <2>4 DEF Next
<1>3. ControlInv /\ ServiceInv /\ [Next]_vars => [\A c \in Callers : Explained(c)]_vars
  BY <1>2
<1> QED BY <1>1, <1>3, ControlInit, ServiceInit, PTL DEF Spec, OnlyBadLinesEscape

-----------------------------------------------------------------------------
(***************************************************************************)
(* The bridge implements the service of RpcService, step by step: Call is  *)
(* Request, Acquire is Serve, the restart is Retry, leaving call() is      *)
(* Finish, and everything else changes nothing a client can see.           *)
(***************************************************************************)
RefineInv == AnswerInv /\ ServiceInv

\* What a caller of the service sees of where its thread is.
StatusAt(where) ==
  IF where = "idle" THEN "idle" ELSE IF where = "queued" THEN "waiting" ELSE "served"

\* And of what the call returned.
ReplyFor(result) ==
  IF result.kind = "none" THEN "none"
  ELSE IF result.kind = "SubprocessError" THEN "error"
  ELSE IF result.kind = "uncaught" THEN "uncaught" ELSE "answer"

\* What clients see depends on where a thread is and how its last call ended.
LEMMA Seen ==
  RefineInv => /\ ServiceStatus = [c \in Callers |-> StatusAt(pc[c])]
               /\ ServiceReply = [c \in Callers |-> ReplyFor(outcome[c])]
<1> SUFFICES ASSUME RefineInv
             PROVE  /\ ServiceStatus = [c \in Callers |-> StatusAt(pc[c])]
                    /\ ServiceReply = [c \in Callers |-> ReplyFor(outcome[c])]
  OBVIOUS
<1>1. ServiceStatus = [c \in Callers |-> StatusAt(pc[c])]
  BY DEF ServiceStatus, StatusAt
<1>2. ASSUME NEW c \in Callers
      PROVE  (CASE outcome[c] = NoOutcome              -> "none"
                [] outcome[c].kind = "SubprocessError" -> "error"
                [] outcome[c].kind = "uncaught"        -> "uncaught"
                [] outcome[c].kind = "result"          ->
                     IF \/ outcome[c].to = [method |-> "call", from |-> c, nth |-> nth[c]]
                        \/ pc[c] # "idle"
                     THEN "answer" ELSE "foreign answer") = ReplyFor(outcome[c])
  <2>1. outcome[c] \in Outcome
    BY DEF RefineInv, AnswerInv, ControlInv, TypeOK
  <2>2. CASE outcome[c] = NoOutcome
    BY <2>2 DEF NoOutcome, ReplyFor
  <2>3. ASSUME NEW b \in BOOLEAN, outcome[c] = Error(b)
        PROVE  outcome[c] # NoOutcome /\ outcome[c].kind = "SubprocessError"
    BY <2>3 DEF Error, NoOutcome
  <2>4. ASSUME NEW req \in Request, outcome[c] = Result(req)
        PROVE  outcome[c] # NoOutcome /\ outcome[c].kind = "result"
    BY <2>4 DEF Result, NoOutcome
  <2>5. CASE outcome[c].kind = "SubprocessError" /\ outcome[c] # NoOutcome
    BY <2>5 DEF ReplyFor
  <2>6. CASE outcome[c].kind = "result" /\ outcome[c] # NoOutcome
    <3>1. \/ outcome[c].to = [method |-> "call", from |-> c, nth |-> nth[c]]
          \/ pc[c] # "idle"
      BY <2>6 DEF RefineInv, AnswerInv, AnswersMatch
    <3> QED BY <2>6, <3>1 DEF ReplyFor
  <2>7. CASE outcome[c] = Uncaught
    <3>1. outcome[c] # NoOutcome /\ outcome[c].kind = "uncaught"
      BY <2>7 DEF Uncaught, NoOutcome
    <3> QED BY <3>1 DEF ReplyFor
  <2> QED BY <2>1, <2>2, <2>3, <2>4, <2>5, <2>6, <2>7 DEF Outcome
<1>3. ServiceReply = [c \in Callers |-> ReplyFor(outcome[c])]
  BY <1>2 DEF ServiceReply
<1> QED BY <1>1, <1>3

\* The same after a step.
LEMMA SeenNext ==
  RefineInv' => /\ ServiceStatus' = [c \in Callers |-> StatusAt(pc'[c])]
                /\ ServiceReply' = [c \in Callers |-> ReplyFor(outcome'[c])]
<1>1. (RefineInv => /\ ServiceStatus = [c \in Callers |-> StatusAt(pc[c])]
                    /\ ServiceReply = [c \in Callers |-> ReplyFor(outcome[c])])'
  BY Seen, PTL
<1> QED BY <1>1

\* Every step is one of the service or changes nothing that its callers see.
LEMMA SeenSteps ==
  ASSUME RefineInv, RefineInv', [Next]_vars
  PROVE  [Service!Next]_(Service!vars)
<1> DEFINE status == [c \in Callers |-> StatusAt(pc[c])]
           reply == [c \in Callers |-> ReplyFor(outcome[c])]
<1>0. /\ ServiceStatus = status /\ ServiceReply = reply
      /\ ServiceStatus' = status' /\ ServiceReply' = reply'
  BY Seen, SeenNext
<1> USE DEF RefineInv, AnswerInv, ControlInv
<1>1. ASSUME UNCHANGED <<pc, nth, attempt, outcome>> PROVE UNCHANGED Service!vars
  BY <1>0, <1>1 DEF Service!vars
<1>2. ASSUME NEW c \in Callers, Call(c) PROVE Service!Request(c)
  <2>1. /\ pc[c] = "idle" /\ nth[c] < MaxCalls /\ nth' = [nth EXCEPT ![c] = @ + 1]
        /\ pc' = [pc EXCEPT ![c] = "queued"] /\ UNCHANGED <<attempt, outcome>>
    BY <1>2 DEF Call
  <2>2. status[c] = "idle" /\ status' = [status EXCEPT ![c] = "waiting"]
    BY <2>1 DEF StatusAt, TypeOK
  <2>3. UNCHANGED reply
    BY <2>1
  <2> HIDE DEF status, reply
  <2> QED BY <1>0, <2>1, <2>2, <2>3 DEF Service!Request
<1>3. ASSUME NEW c \in Callers, Acquire(c) PROVE Service!Serve(c)
  <2>1. /\ pc[c] = "queued" /\ pc' = [pc EXCEPT ![c] = "check"]
        /\ attempt' = [attempt EXCEPT ![c] = 1] /\ UNCHANGED <<nth, outcome>>
        /\ lock = NoCaller
    BY <1>3 DEF Acquire
  <2>2. \A d \in Callers : status[d] # "served"
    BY <2>1, NoCallerAssumption DEF StatusAt, HolderInCall, InCall, TypeOK, PC
  <2>3. status[c] = "waiting" /\ status' = [status EXCEPT ![c] = "served"]
    BY <2>1 DEF StatusAt, TypeOK
  <2>4. UNCHANGED reply
    BY <2>1
  <2> HIDE DEF status, reply
  <2> QED BY <1>0, <2>1, <2>2, <2>3, <2>4 DEF Service!Serve
<1>4. ASSUME NEW c \in Callers, Exchange(c)
      PROVE  Service!Retry(c) \/ Service!Finish(c) \/ UNCHANGED Service!vars
  <2>1. pc[c] \notin {"idle", "queued"} /\ status[c] = "served"
    BY <1>4 DEF Exchange, CheckChild, Spawn, Send, StartReader, Receive, ReceiveEof, Timeout,
                StatusAt
  <2>2. ASSUME NEW where, where \notin {"idle", "queued"}, pc' = [pc EXCEPT ![c] = where],
               UNCHANGED <<nth, outcome>>
        PROVE  UNCHANGED <<ServiceStatus, nth, ServiceReply>>
    <3>1. UNCHANGED status
      BY <2>1, <2>2 DEF StatusAt, TypeOK
    <3>2. UNCHANGED reply
      BY <2>2
    <3> HIDE DEF status, reply
    <3> QED BY <1>0, <2>2, <3>1, <3>2
  <2>3. ASSUME NEW where, where \notin {"idle", "queued"}, NEW what,
               Goto(c, where, what, attempt[c])
        PROVE  UNCHANGED Service!vars
    <3>1. UNCHANGED attempt /\ pc' = [pc EXCEPT ![c] = where] /\ UNCHANGED <<nth, outcome>>
      BY <2>3 DEF Goto, TypeOK
    <3> QED BY <2>2, <2>3, <3>1 DEF Service!vars
  <2>4. ASSUME Goto(c, "spawn", "handshake", 2), attempt[c] = 1 PROVE Service!Retry(c)
    <3>1. /\ pc' = [pc EXCEPT ![c] = "spawn"] /\ UNCHANGED <<nth, outcome>>
          /\ attempt' = [attempt EXCEPT ![c] = @ + 1]
      BY <2>4 DEF Goto
    <3>2. UNCHANGED <<ServiceStatus, nth, ServiceReply>>
      BY <2>2, <3>1
    <3>3. ServiceStatus[c] = "served" /\ attempt[c] < 2
      BY <1>0, <2>1, <2>4
    <3> QED BY <3>1, <3>2, <3>3 DEF Service!Retry
  <2> DEFINE Failures == {"error"} \cup {"uncaught" : f \in Faults \cap BadLines}
  <2>5. ASSUME NEW result, ReplyFor(result) \in {"answer"} \cup Failures, Return(c, result)
        PROVE  Service!Finish(c)
    <3>1. /\ pc' = [pc EXCEPT ![c] = "idle"] /\ outcome' = [outcome EXCEPT ![c] = result]
          /\ UNCHANGED <<attempt, nth>>
      BY <2>5 DEF Return
    <3>2. status' = [status EXCEPT ![c] = "idle"]
      BY <3>1 DEF StatusAt, TypeOK
    <3>3. reply' = [reply EXCEPT ![c] = ReplyFor(result)]
      BY <3>1 DEF TypeOK
    <3> HIDE DEF status, reply
    <3> QED BY <1>0, <2>1, <2>5, <3>1, <3>2, <3>3 DEF Service!Finish
  <2>6. ASSUME NEW exn, NEW table, NEW current, Raise(c, exn, table, current),
               exn \in {"caught", "version"} \/ Faults \cap BadLines # {}
        PROVE  Service!Retry(c) \/ Service!Finish(c)
    <3>1. CASE attempt[c] = 1 /\ Goto(c, "spawn", "handshake", 2)
      BY <2>4, <3>1
    <3>2. CASE Return(c, Error(FALSE))
      <4>1. ReplyFor(Error(FALSE)) = "error"
        BY DEF ReplyFor, Error
      <4> QED BY <2>5, <3>2, <4>1
    <3>3. CASE Return(c, Uncaught) /\ Faults \cap BadLines # {}
      <4>1. ReplyFor(Uncaught) = "uncaught"
        BY DEF ReplyFor, Uncaught
      <4>2. "uncaught" \in Failures
        BY <3>3
      <4> QED BY <2>5, <3>3, <4>1, <4>2
    <3> QED BY <2>6, <3>1, <3>2, <3>3 DEF Raise
  <2>7. CASE CheckChild(c)
    BY <2>3, <2>7 DEF CheckChild, ServiceInv
  <2>8. CASE Spawn(c)
    <3>1. ASSUME pc' = [pc EXCEPT ![c] = "send"], UNCHANGED <<attempt, nth, outcome>>
          PROVE  UNCHANGED Service!vars
      BY <2>2, <3>1 DEF Service!vars
    <3> QED BY <2>6, <2>8, <3>1 DEF Spawn
  <2>9. CASE Send(c)
    <3>1. Writable
      BY <2>9 DEF Send, ServiceInv, ClosingAlone, Writable, TypeOK
    <3> QED BY <2>3, <2>6, <2>9, <3>1 DEF Send
  <2>10. CASE StartReader(c)
    <3>1. ASSUME pc' = [pc EXCEPT ![c] = "recv"], UNCHANGED <<attempt, nth, outcome>>
          PROVE  UNCHANGED Service!vars
      BY <2>2, <3>1 DEF Service!vars
    <3>2. proc # NoProc
      BY <2>10 DEF StartReader, ServiceInv
    <3> QED BY <2>6, <2>10, <3>1, <3>2 DEF StartReader
  <2>11. CASE Receive(c)
    <3> DEFINE line == Head(child[reading[c]].out)
    <3>1. PICK table : Deliver(c, line, table)
      BY <2>11 DEF Receive
    <3>2. line \in Line
      BY <2>11, ChildFields DEF Receive, Engaged
    <3> HIDE DEF line
    <3>3. line.kind \in BadLines => Faults \cap BadLines # {}
      BY <3>2 DEF Line, BadLines
    <3>4. /\ ReplyFor(Error(FALSE)) = "error" /\ ReplyFor(Result(line.to)) = "answer"
          /\ ReplyFor(Uncaught) = "uncaught"
      BY DEF ReplyFor, Error, Result, Uncaught
    <3>5. ReplyFor(Reply(line)) \in {"answer"} \cup Failures
      BY <3>3, <3>4, ReplyCases DEF BadLines
    <3>6. \/ \E t, current : Raise(c, "caught", t, current) \/ Raise(c, "version", t, current)
          \/ line.kind \in BadLines /\ \E t, current : Raise(c, "unexpected", t, current)
          \/ Goto(c, "send", "call", attempt[c])
          \/ Return(c, Reply(line))
      BY <3>1 DEF Deliver, BadLines
    <3> HIDE DEF Failures
    <3> QED BY <2>3, <2>5, <2>6, <3>3, <3>5, <3>6
  <2>12. CASE ReceiveEof(c)
    BY <2>6, <2>12 DEF ReceiveEof
  <2>13. CASE Timeout(c)
    BY <2>6, <2>13 DEF Timeout
  <2> QED BY <1>4, <2>7, <2>8, <2>9, <2>10, <2>11, <2>12, <2>13 DEF Exchange
<1>5. ASSUME Close \/ Closing \/ (\E p \in Procs : Server(p)) \/ UNCHANGED vars
      PROVE  UNCHANGED Service!vars
  <2>1. UNCHANGED <<pc, nth, attempt, outcome>>
    BY <1>5 DEF Close, Closing, CloseStdin, CloseWait, CloseClear, Server, callerVars, vars
  <2> QED BY <1>1, <2>1
<1> QED BY <1>2, <1>3, <1>4, <1>5 DEF Next, Service!Next

\* The bridge begins as the service does.
LEMMA SeenInit == Init => Service!Init
<1> SUFFICES ASSUME Init PROVE Service!Init
  OBVIOUS
<1>1. RefineInv
  BY AnswerInit, ServiceInit DEF RefineInv
<1>2. /\ ServiceStatus = [c \in Callers |-> StatusAt(pc[c])]
      /\ ServiceReply = [c \in Callers |-> ReplyFor(outcome[c])]
  BY <1>1, Seen
<1> QED BY <1>2 DEF Init, Service!Init, StatusAt, ReplyFor, NoOutcome

\* A bridge that is not closed while a call is in progress, and whose server
\* writes one line per request, is the service its users are promised: one
\* call at a time, at most two tries each, and an answer to that very call or
\* a SubprocessError, or another exception if lines occur that have it.
THEOREM ServiceRefinement ==
  ASSUME ~ConcurrentClose, "noise" \notin Faults
  PROVE  Spec => Service!Spec
<1>1. RefineInv /\ [Next]_vars => RefineInv'
  BY AnswerStep, ServiceStep DEF RefineInv, AnswerInv
<1>2. Init => RefineInv
  BY AnswerInit, ServiceInit DEF RefineInv
<1>3. RefineInv /\ RefineInv' /\ [Next]_vars => [Service!Next]_(Service!vars)
  BY SeenSteps
<1> QED BY <1>1, <1>2, <1>3, SeenInit, PTL DEF Spec, Service!Spec
=============================================================================
