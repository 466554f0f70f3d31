------------------------ MODULE RoslynProviderProofs ------------------------
(***************************************************************************)
(* Proofs about the Roslyn provider: what its operations promise to any    *)
(* number of threads, and how many servers they can leave behind.          *)
(***************************************************************************)
EXTENDS RoslynProvider, FiniteSetTheorems, TLAPS

\* Where a thread has a bridge in hand.
Holding == {"call", "served", "closing", "clear"}
\* Where a thread can be.
Place   == {"idle", "test", "make", "get", "pick"} \cup Holding

\* What an operation can come to.
Outcome == [kind : {"none", "raised", "garbled", "degraded", "is-secret", "answer"}, keys : SUBSET Keys]

\* A thread holds a bridge exactly where it has one in hand, and works on a task
\* while it is in a call.
ThreadsTyped ==
  /\ pc \in [Threads -> Place]
  /\ task \in [Threads -> Task \cup {NoTask}]
  /\ held \in [Threads -> Bridges \cup {NoBridge}]
  /\ stirred \in [Threads -> BOOLEAN]
  /\ outcome \in [Threads -> Outcome]
  /\ \A t \in Threads : /\ held[t] # NoBridge <=> pc[t] \in Holding
                        /\ InCall(t) => task[t] \in Task

\* The type invariant.
TypeOK ==
  /\ ThreadsTyped
  /\ bridge \in Bridges \cup {NoBridge}
  /\ server \in [Bridges -> BOOLEAN]
  /\ lost \in Nat
  /\ closes \in Nat
  /\ sent \subseteq Keys

-----------------------------------------------------------------------------
(***************************************************************************)
(* As long as no close() met anything.                                     *)
(***************************************************************************)
Calm ==
  /\ ~Meets
  /\ \A t \in Threads :
       /\ ~stirred[t]
       /\ outcome[t] # Raised
       /\ pc[t] \in {"get", "pick"} \cup Holding => bridge # NoBridge
       /\ pc[t] \in {"closing", "clear"} => held[t] = bridge
       /\ pc[t] = "clear" => ~server[bridge]
  /\ lost = 0

\* met is raised by the very step after which a close() has met somebody.
CalmInv == ~met => Calm

\* Bridges that are forgotten or will be when a thread returns.
Stale == (Serving \cup {held[t] : t \in Threads}) \ {bridge, NoBridge}

\* Threads past the test that will replace the bridge whatever it is by then.
Makers == {t \in Threads : pc[t] = "make"}

\* The current round: a bridge that no close() has in sight.
Open == bridge # NoBridge /\ \A t \in Threads : ~InClose(t)

\* A thread that is about to make a bridge forgets the one that is there; a
\* round begins without a bridge, and a close ends it.
Others == Cardinality(Threads) - 1

\* Each round adds one forgotten bridge less than there are threads.
Bounded ==
  IF Open THEN Cardinality(Stale) + Cardinality(Makers) <= (closes + 1) * Others
  ELSE Cardinality(Stale) <= closes * Others

\* That holds until a close() meets a call.
StaleInv == ~met => Bounded

\* Without a race there is nothing to forget.
Single == Stale = {} /\ (bridge # NoBridge => Makers = {})

\* Without a race and such a close() there is one bridge at most.
SingleInv == (Races => raced) /\ (~met /\ ~raced => Single)

\* Nobody works on a secret key.
SecretInv ==
  /\ SecretKeysStay
  /\ \A t \in Threads : task[t].key \notin SecretKeys

\* What is recorded of races and closes is true or false.
Histories == raced \in BOOLEAN /\ met \in BOOLEAN

\* The inductive invariant.
IInv == TypeOK /\ Histories /\ CalmInv /\ SecretInv /\ SingleInv /\ StaleInv

-----------------------------------------------------------------------------
(***************************************************************************)
(* Types                                                                   *)
(***************************************************************************)
\* The end of an operation keeps the threads well typed.
LEMMA LeaveTyped ==
  ASSUME ThreadsTyped, NEW t \in Threads, NEW result \in Outcome, Leave(t, result)
  PROVE  ThreadsTyped'
BY DEF ThreadsTyped, Leave, Goto, Place, Holding, InCall

\* The outcomes that no result is needed for.
LEMMA Outcomes ==
  /\ Raised \in Outcome /\ Garbled \in Outcome /\ Degraded \in Outcome /\ NoOutcome \in Outcome
  /\ Ended("is-secret", {}) \in Outcome
BY DEF Outcome, Raised, Garbled, Degraded, NoOutcome, Ended

\* A result is an outcome, and is no exception.
LEMMA ResultsTyped ==
  ASSUME ThreadsTyped, NEW t \in Threads, pc[t] = "served", NEW result \in Results(t)
  PROVE  result \in Outcome /\ result # Raised
<1>1. task[t] \in Task
  BY DEF ThreadsTyped, InCall
<1>2. CASE task[t].op = "capabilities"
  BY <1>2 DEF Results, Ended, Degraded, Raised, Outcome
<1>3. CASE task[t].op = "analyze"
  BY <1>3 DEF Results, Facts, Ended, Raised, Outcome
<1>4. CASE task[t].op = "resolve"
  BY <1>1, <1>4 DEF Results, Ended, Degraded, Raised, Outcome, Task
<1> QED BY <1>1, <1>2, <1>3, <1>4 DEF Task

\* Every step keeps the type invariant.
LEMMA TypeStep ==
  ASSUME TypeOK, Step
  PROVE  TypeOK'
<1> USE BridgeAssumption, ClosesAssumption, Outcomes DEF TypeOK
<1>1. ASSUME NEW t \in Threads, NEW job \in Task, Begin(t, job) PROVE TypeOK'
  <2>1. CASE (job.op = "resolve" /\ job.key \in SecretKeys) \/ ~configured
    BY <1>1, <2>1, LeaveTyped DEF Begin
  <2>2. CASE ~((job.op = "resolve" /\ job.key \in SecretKeys) \/ ~configured)
    BY <1>1, <2>2 DEF Begin, Goto, Place, Holding, ThreadsTyped, InCall
  <2> QED BY <2>1, <2>2
<1>2. ASSUME NEW t \in Threads, Test(t) PROVE TypeOK'
  BY <1>2 DEF Test, Goto, Place, Holding, ThreadsTyped, InCall
<1>3. ASSUME NEW t \in Threads, Make(t) PROVE TypeOK'
  BY <1>3 DEF Make, Goto, Place, Holding, ThreadsTyped, InCall
<1>4. ASSUME NEW t \in Threads, Get(t) PROVE TypeOK'
  <2>1. CASE bridge = NoBridge
    BY <1>4, <2>1, LeaveTyped DEF Get
  <2>2. CASE bridge # NoBridge
    BY <1>4, <2>2 DEF Get, Goto, Place, Holding, ThreadsTyped, InCall
  <2> QED BY <2>1, <2>2
<1>5. ASSUME NEW t \in Threads, Enter(t) PROVE TypeOK'
  BY <1>5 DEF Enter, Goto, Place, Holding, ThreadsTyped, InCall
<1>6. ASSUME NEW t \in Threads, Answer(t) PROVE TypeOK'
  <2>1. PICK result \in Results(t) : Leave(t, result)
    BY <1>6 DEF Answer
  <2>2. result \in Outcome
    BY <1>6, ResultsTyped DEF Answer
  <2>3. ThreadsTyped'
    BY <2>1, <2>2, LeaveTyped
  <2> QED BY <1>6, <2>3 DEF Answer, ChildStays
<1>7. ASSUME NEW t \in Threads, Garble(t) \/ Fail(t) \/ Escape(t) PROVE TypeOK'
  BY <1>7, LeaveTyped DEF Garble, ChildStays, Fail, Escape
<1>8. ASSUME NEW t \in Threads, Close(t) PROVE TypeOK'
  BY <1>8 DEF Close, Goto, Place, Holding, ThreadsTyped, InCall
<1>9. ASSUME NEW t \in Threads, ClosePick(t) PROVE TypeOK'
  <2>1. CASE bridge = NoBridge
    BY <1>9, <2>1, LeaveTyped DEF ClosePick
  <2>2. CASE bridge # NoBridge
    BY <1>9, <2>2 DEF ClosePick, Goto, Place, Holding, ThreadsTyped, InCall
  <2> QED BY <2>1, <2>2
<1>10. ASSUME NEW t \in Threads, CloseEnd(t) PROVE TypeOK'
  <2>1. ThreadsTyped'
    <3>1. CASE Goto(t, "clear") /\ UNCHANGED <<task, held, stirred, outcome>>
      BY <1>10, <3>1 DEF CloseEnd, Goto, Place, Holding, ThreadsTyped, InCall
    <3>2. CASE Leave(t, Raised)
      BY <3>2, LeaveTyped
    <3> QED BY <1>10, <3>1, <3>2 DEF CloseEnd
  <2>2. server' \in [Bridges -> BOOLEAN]
    BY <1>10 DEF CloseEnd
  <2>3. lost' = lost \/ lost' = lost + 1
    BY <1>10 DEF CloseEnd
  <2> QED BY <1>10, <2>1, <2>2, <2>3 DEF CloseEnd
<1>11. ASSUME NEW t \in Threads, CloseClear(t) PROVE TypeOK'
  BY <1>11, LeaveTyped DEF CloseClear
<1>12. ASSUME NEW b \in Bridges, ServerDies(b) PROVE TypeOK'
  BY <1>12 DEF ServerDies, threadVars, ThreadsTyped, InCall
<1> QED
  BY <1>1, <1>2, <1>3, <1>4, <1>5, <1>6, <1>7, <1>8, <1>9, <1>10, <1>11, <1>12 DEF Step

-----------------------------------------------------------------------------
(***************************************************************************)
(* What holds until a close() meets something.                             *)
(***************************************************************************)
\* Of two threads one of which closes the other is idle: no step of either
\* raises or leaves a child behind.
LEMMA CalmStep ==
  ASSUME TypeOK, TypeOK', Calm, Step, ~Meets'
  PROVE  Calm'
<1> DEFINE CalmThread(t) ==
      /\ ~stirred[t]
      /\ outcome[t] # Raised
      /\ pc[t] \in {"get", "pick"} \cup Holding => bridge # NoBridge
      /\ pc[t] \in {"closing", "clear"} => held[t] = bridge
      /\ pc[t] = "clear" => ~server[bridge]
<1> SUFFICES (\A t \in Threads : CalmThread(t)') /\ lost' = 0
  BY DEF Calm
<1>0. /\ \A t \in Threads : CalmThread(t)
      /\ lost = 0
      /\ \A t, u \in Threads : t # u /\ InClose(t) => pc[u] = "idle"
  BY DEF Calm, Meets, InClose, InCall, TypeOK, ThreadsTyped, Place, Holding
<1> USE <1>0, BridgeAssumption DEF TypeOK, ThreadsTyped, InClose, InCall, Place, Holding
<1>1. ASSUME NEW t \in Threads, NEW job \in Task, Begin(t, job) PROVE (\A u \in Threads : CalmThread(u)') /\ lost' = 0
  BY <1>1 DEF Begin, Leave, Goto, Degraded, Raised, Ended
<1>2. ASSUME NEW t \in Threads, Test(t) PROVE (\A u \in Threads : CalmThread(u)') /\ lost' = 0
  BY <1>2 DEF Test, Goto
<1>3. ASSUME NEW t \in Threads, Make(t) PROVE (\A u \in Threads : CalmThread(u)') /\ lost' = 0
  BY <1>3 DEF Make, Goto
<1>4. ASSUME NEW t \in Threads, Get(t) PROVE (\A u \in Threads : CalmThread(u)') /\ lost' = 0
  BY <1>4 DEF Get, Goto
<1>5. ASSUME NEW t \in Threads, Enter(t) PROVE (\A u \in Threads : CalmThread(u)') /\ lost' = 0
  BY <1>5 DEF Enter, Goto
<1>6. ASSUME NEW t \in Threads, Answer(t) PROVE (\A u \in Threads : CalmThread(u)') /\ lost' = 0
  <2>1. PICK result \in Results(t) : Leave(t, result)
    BY <1>6 DEF Answer
  <2>2. result # Raised
    BY <1>6, ResultsTyped DEF Answer
  <2> QED BY <1>6, <2>1, <2>2 DEF Answer, ChildStays, Leave, Goto
<1>7. ASSUME NEW t \in Threads, Garble(t) \/ Fail(t) \/ Escape(t)
     PROVE  (\A u \in Threads : CalmThread(u)') /\ lost' = 0
  BY <1>7 DEF Garble, ChildStays, Fail, Escape, Leave, Goto, Garbled, Degraded, Raised, Ended
<1>8. ASSUME NEW t \in Threads, Close(t) PROVE (\A u \in Threads : CalmThread(u)') /\ lost' = 0
  BY <1>8 DEF Close, Goto
<1>9. ASSUME NEW t \in Threads, ClosePick(t) PROVE (\A u \in Threads : CalmThread(u)') /\ lost' = 0
  BY <1>9 DEF ClosePick, Goto
<1>10. ASSUME NEW t \in Threads, CloseEnd(t) PROVE (\A u \in Threads : CalmThread(u)') /\ lost' = 0
  <2>1. ~stirred[t] /\ held[t] = bridge /\ pc[t] = "closing"
    BY <1>10 DEF CloseEnd
  <2>2. /\ server' = [server EXCEPT ![held[t]] = FALSE]
        /\ lost' = lost
        /\ Goto(t, "clear") /\ UNCHANGED <<task, held, stirred, outcome, bridge>>
    BY <1>10, <2>1 DEF CloseEnd
  <2> QED BY <2>1, <2>2 DEF Goto
<1>11. ASSUME NEW t \in Threads, CloseClear(t) PROVE (\A u \in Threads : CalmThread(u)') /\ lost' = 0
  BY <1>11 DEF CloseClear, Leave, Goto, NoOutcome, Raised, Ended
<1>12. ASSUME NEW b \in Bridges, ServerDies(b) PROVE (\A u \in Threads : CalmThread(u)') /\ lost' = 0
  BY <1>12 DEF ServerDies, threadVars
<1> QED
  BY <1>1, <1>2, <1>3, <1>4, <1>5, <1>6, <1>7, <1>8, <1>9, <1>10, <1>11, <1>12 DEF Step

-----------------------------------------------------------------------------
(***************************************************************************)
(* Bridges that are forgotten.                                             *)
(***************************************************************************)
\* Most steps touch no bridge but the one in hand.
SameRound ==
  /\ Stale' \subseteq Stale
  /\ closes' = closes /\ bridge' = bridge
  /\ \A t \in Threads : InClose(t)' <=> InClose(t)
  /\ bridge # NoBridge => Makers' \subseteq Makers

\* These are the steps that are no part of making, closing or clearing.
LEMMA SameRoundStep ==
  ASSUME TypeOK, Calm,
         \/ \E t \in Threads :
              \/ \E job \in Task : Begin(t, job)
              \/ Test(t) \/ Get(t) \/ Enter(t) \/ Answer(t) \/ Garble(t) \/ Fail(t) \/ Escape(t)
              \/ ClosePick(t) \/ CloseEnd(t)
         \/ \E b \in Bridges : ServerDies(b)
  PROVE  SameRound
<1> USE BridgeAssumption DEF TypeOK, ThreadsTyped, Stale, Serving, SameRound, Makers, InClose, Place, Holding
<1>0. \A t \in Threads : ~stirred[t] /\ (pc[t] \in {"get", "pick"} => bridge # NoBridge)
  BY DEF Calm
<1>1. ASSUME NEW t \in Threads, NEW job \in Task, Begin(t, job) PROVE SameRound
  BY <1>1 DEF Begin, Leave, Goto
<1>2. ASSUME NEW t \in Threads, Test(t) PROVE SameRound
  BY <1>2 DEF Test, Goto
<1>3. ASSUME NEW t \in Threads, Get(t) PROVE SameRound
  BY <1>0, <1>3 DEF Get, Goto
<1>4. ASSUME NEW t \in Threads, Enter(t) PROVE SameRound
  BY <1>4 DEF Enter, Goto
<1>5. ASSUME NEW t \in Threads, Answer(t) PROVE SameRound
  <2>1. PICK result \in Results(t) : Leave(t, result)
    BY <1>5 DEF Answer
  <2>2. pc[t] = "served" /\ UNCHANGED <<bridge, closes, server>>
    BY <1>0, <1>5 DEF Answer, ChildStays
  <2> QED BY <2>1, <2>2 DEF Leave, Goto
<1>6. ASSUME NEW t \in Threads, Garble(t) \/ Fail(t) \/ Escape(t) PROVE SameRound
  BY <1>6 DEF Garble, ChildStays, Fail, Escape, Leave, Goto
<1>7. ASSUME NEW t \in Threads, ClosePick(t) PROVE SameRound
  BY <1>0, <1>7 DEF ClosePick, Goto
<1>8. ASSUME NEW t \in Threads, CloseEnd(t) PROVE SameRound
  <2>1. /\ pc[t] = "closing" /\ pc' = [pc EXCEPT ![t] = "clear"]
        /\ server' = [server EXCEPT ![held[t]] = FALSE]
        /\ UNCHANGED <<bridge, closes, held>>
    BY <1>0, <1>8 DEF CloseEnd, Goto
  <2> QED BY <2>1
<1>9. ASSUME NEW b \in Bridges, ServerDies(b) PROVE SameRound
  BY <1>9 DEF ServerDies, threadVars
<1> QED
  BY <1>1, <1>2, <1>3, <1>4, <1>5, <1>6, <1>7, <1>8, <1>9

\* A thread that makes a bridge forgets the one that another made meanwhile.
LEMMA MakeStep ==
  ASSUME TypeOK, NEW t \in Threads, Make(t)
  PROVE  /\ Stale' \subseteq Stale \cup ({bridge} \ {NoBridge})
         /\ closes' = closes /\ bridge' # NoBridge
         /\ t \in Makers /\ Makers' = Makers \ {t}
         /\ \A u \in Threads : InClose(u)' <=> InClose(u)
BY BridgeAssumption DEF Make, Goto, TypeOK, ThreadsTyped, Stale, Serving, Makers, InClose, Place, Holding

\* A close() that begins ends a round and forgets nothing yet.
LEMMA CloseStep ==
  ASSUME TypeOK, NEW t \in Threads, Close(t)
  PROVE  /\ Stale' = Stale /\ Makers' = Makers /\ bridge' = bridge /\ bridge # NoBridge
         /\ closes' = closes + 1 /\ InClose(t)'
BY DEF Close, Goto, TypeOK, ThreadsTyped, Stale, Serving, Makers, InClose

\* Nobody else has the bridge in hand, and its server is gone.
LEMMA ClearStep ==
  ASSUME TypeOK, Calm, NEW t \in Threads, CloseClear(t)
  PROVE  /\ Stale' \subseteq Stale
         /\ Makers' = {}
         /\ closes' = closes /\ bridge' = NoBridge /\ InClose(t)
<1>1. /\ pc[t] = "clear" /\ held[t] = bridge /\ ~server[bridge] /\ InClose(t)
      /\ \A u \in Threads \ {t} : pc[u] = "idle" /\ held[u] = NoBridge
  BY DEF CloseClear, Calm, Meets, InClose, InCall, TypeOK, ThreadsTyped, Place, Holding
<1> QED
  BY <1>1 DEF CloseClear, Leave, Goto, TypeOK, ThreadsTyped, Stale, Serving, Makers

\* What is counted can be.
Sized ==
  /\ IsFiniteSet(Stale) /\ Cardinality(Stale) \in Nat
  /\ IsFiniteSet(Makers) /\ Cardinality(Makers) \in Nat

\* There are finitely many bridges and threads.
LEMMA Finite ==
  ASSUME TypeOK, TypeOK'
  PROVE  Sized /\ Sized' /\ Others \in Nat
<1>1. /\ Stale \in SUBSET Bridges /\ Makers \in SUBSET Threads
      /\ Stale' \in SUBSET Bridges /\ Makers' \in SUBSET Threads
  BY DEF TypeOK, ThreadsTyped, Stale, Serving, Makers
<1>2. Cardinality(Threads) \in Nat \ {0}
  BY ThreadAssumption, FS_CardinalityType, FS_EmptySet
<1>3. Sized /\ Sized'
  BY <1>1, ThreadAssumption, FS_Subset, FS_CardinalityType DEF Sized
<1> QED
  BY <1>2, <1>3 DEF Others

\* A subset of a finite set has no more elements.
LEMMA Smaller ==
  ASSUME NEW S, IsFiniteSet(S), NEW T, T \subseteq S
  PROVE  IsFiniteSet(T) /\ Cardinality(T) \in Nat /\ Cardinality(T) <= Cardinality(S)
BY FS_Subset, FS_CardinalityType

\* A thread that makes a bridge forgets one at most, and leaves one thread
\* fewer that can; the first of a round forgets none.
LEMMA BoundedStep ==
  ASSUME TypeOK, TypeOK', Calm, Calm', Bounded, Step
  PROVE  Bounded'
<1> DEFINE S == Cardinality(Stale)
           M == Cardinality(Makers)
<1>0. /\ S \in Nat /\ S' \in Nat /\ M \in Nat /\ M' \in Nat
      /\ Others \in Nat /\ closes \in Nat /\ Others' = Others
      /\ IsFiniteSet(Stale) /\ IsFiniteSet(Makers)
  BY Finite DEF Sized, Others, TypeOK
<1>1. CASE SameRound
  <2>1. Open' <=> Open
    BY <1>1 DEF SameRound, Open
  <2>2. S' <= S
    BY <1>0, <1>1, Smaller DEF SameRound
  <2>3. CASE Open
    <3>1. M' <= M
      BY <1>0, <1>1, <2>3, Smaller DEF SameRound, Open
    <3> QED BY <1>0, <1>1, <2>1, <2>2, <2>3, <3>1 DEF Bounded, SameRound
  <2>4. CASE ~Open
    BY <1>0, <1>1, <2>1, <2>2, <2>4 DEF Bounded, SameRound
  <2> QED BY <2>3, <2>4
<1>2. ASSUME NEW t \in Threads, Make(t) PROVE Bounded'
  <2>1. \A u \in Threads : ~InClose(u)
    BY <1>2 DEF Make, Calm, Meets, InClose, InCall
  <2>2. Open' /\ closes' = closes
    BY <1>2, <2>1, MakeStep DEF Open
  <2>3. (closes + 1) * Others = closes * Others + Others
    BY <1>0
  <2>4. CASE bridge = NoBridge
    <3>1. S' <= S /\ S <= closes * Others
      BY <1>0, <1>2, <2>4, MakeStep, Smaller DEF Bounded, Open
    <3>2. M' <= Others
      <4>1. Makers' \subseteq Threads \ {t}
        BY <1>2, MakeStep DEF Makers
      <4>2. IsFiniteSet(Threads \ {t}) /\ Cardinality(Threads \ {t}) = Others
        BY ThreadAssumption, FS_RemoveElement DEF Others
      <4> QED BY <4>1, <4>2, Smaller
    <3> QED BY <1>0, <2>2, <2>3, <3>1, <3>2 DEF Bounded
  <2>5. CASE bridge # NoBridge
    <3>1. S + M <= (closes + 1) * Others
      BY <2>1, <2>5 DEF Bounded, Open
    <3>2. S' <= S + 1
      <4>1. Stale' \subseteq Stale \cup {bridge}
        BY <1>2, MakeStep
      <4>2. /\ IsFiniteSet(Stale \cup {bridge})
            /\ Cardinality(Stale \cup {bridge}) = IF bridge \in Stale THEN S ELSE S + 1
        BY <1>0, FS_AddElement
      <4>3. Cardinality(Stale \cup {bridge}) <= S + 1
        BY <1>0, <4>2
      <4>4. S' \in Nat /\ S' <= Cardinality(Stale \cup {bridge})
        BY <4>1, <4>2, Smaller
      <4>5. Cardinality(Stale \cup {bridge}) \in Nat
        BY <4>2, FS_CardinalityType
      <4> QED BY <1>0, <4>3, <4>4, <4>5
    <3>3. M' = M - 1
      BY <1>0, <1>2, MakeStep, FS_RemoveElement
    <3> QED BY <1>0, <2>2, <3>1, <3>2, <3>3 DEF Bounded
  <2> QED BY <2>4, <2>5
<1>3. ASSUME NEW t \in Threads, Close(t) PROVE Bounded'
  <2>1. Open
    BY <1>3 DEF Open, Close, Calm, Meets, InClose, InCall, Goto, TypeOK, ThreadsTyped
  <2>2. ~Open'
    BY <1>3, CloseStep DEF Open
  <2> QED BY <1>0, <1>3, <2>1, <2>2, CloseStep DEF Bounded
<1>4. ASSUME NEW t \in Threads, CloseClear(t) PROVE Bounded'
  <2>1. ~Open /\ ~Open' /\ S' <= S /\ closes' = closes
    BY <1>0, <1>4, ClearStep, Smaller DEF Open
  <2> QED BY <1>0, <2>1 DEF Bounded
<1> QED
  BY <1>1, <1>2, <1>3, <1>4, SameRoundStep DEF Step

\* While no two threads are about to make a bridge, none is forgotten.
LEMMA SingleStep ==
  ASSUME TypeOK, Calm, Single, ~Races, Step
  PROVE  Single'
<1>1. CASE SameRound
  BY <1>1 DEF SameRound, Single
<1>2. ASSUME NEW t \in Threads, Make(t) PROVE Single'
  <2>1. Makers = {t} /\ bridge = NoBridge
    BY <1>2, MakeStep DEF Single, Races, Makers
  <2> QED BY <1>2, <2>1, MakeStep DEF Single
<1>3. ASSUME NEW t \in Threads, Close(t) PROVE Single'
  BY <1>3, CloseStep DEF Single
<1>4. ASSUME NEW t \in Threads, CloseClear(t) PROVE Single'
  BY <1>4, ClearStep DEF Single
<1> QED
  BY <1>1, <1>2, <1>3, <1>4, SameRoundStep DEF Step
-----------------------------------------------------------------------------
(***************************************************************************)
(* Secret keys, and the invariant as a whole.                              *)
(***************************************************************************)
\* What a thread leaves with names no secret key, and neither does NoTask.
LEMMA SecretLeave ==
  ASSUME TypeOK, SecretInv, NEW t \in Threads, NEW result,
         Leave(t, result), result.keys \cap SecretKeys = {}, sent' = sent
  PROVE  SecretInv'
BY KeysAssumption DEF TypeOK, ThreadsTyped, SecretInv, SecretKeysStay, Leave, NoTask

\* Secret keys are refused at the start and filtered at the end.
LEMMA SecretStep ==
  ASSUME TypeOK, SecretInv, Step
  PROVE  SecretInv'
<1>0. /\ Raised.keys = {} /\ Garbled.keys = {} /\ Degraded.keys = {} /\ NoOutcome.keys = {}
      /\ Ended("is-secret", {}).keys = {}
  BY DEF Raised, Garbled, Degraded, NoOutcome, Ended
<1> USE DEF TypeOK, ThreadsTyped
<1>1. ASSUME NEW t \in Threads, NEW job \in Task, Begin(t, job) PROVE SecretInv'
  <2>1. CASE (job.op = "resolve" /\ job.key \in SecretKeys) \/ ~configured
    BY <1>0, <1>1, <2>1, SecretLeave DEF Begin
  <2>2. CASE ~((job.op = "resolve" /\ job.key \in SecretKeys) \/ ~configured)
    <3>1. job.key \notin SecretKeys
      BY <2>2, KeysAssumption DEF Task
    <3> QED BY <1>1, <2>2, <3>1 DEF Begin, SecretInv, SecretKeysStay
  <2> QED BY <2>1, <2>2
<1>2. ASSUME NEW t \in Threads, Get(t) PROVE SecretInv'
  <2>1. CASE bridge = NoBridge
    BY <1>0, <1>2, <2>1, SecretLeave DEF Get
  <2>2. CASE bridge # NoBridge
    BY <1>2, <2>2 DEF Get, SecretInv, SecretKeysStay
  <2> QED BY <2>1, <2>2
<1>3. ASSUME NEW t \in Threads, Enter(t) PROVE SecretInv'
  BY <1>3 DEF Enter, SecretInv, SecretKeysStay
<1>4. ASSUME NEW t \in Threads, Answer(t) PROVE SecretInv'
  <2>1. PICK result \in Results(t) : Leave(t, result)
    BY <1>4 DEF Answer
  <2>2. result.keys \cap SecretKeys = {}
    <3>1. task[t] \in Task /\ task[t].key \notin SecretKeys
      BY <1>4 DEF Answer, InCall, SecretInv
    <3>2. CASE task[t].op = "capabilities"
      BY <1>0, <3>2 DEF Results, Ended
    <3>3. CASE task[t].op = "analyze"
      BY <3>3 DEF Results, Facts, Ended
    <3>4. CASE task[t].op = "resolve"
      BY <1>0, <3>1, <3>4 DEF Results, Ended
    <3> QED BY <3>1, <3>2, <3>3, <3>4 DEF Task
  <2> QED BY <1>4, <2>1, <2>2, SecretLeave DEF Answer
<1>5. ASSUME NEW t \in Threads, Garble(t) \/ Fail(t) \/ Escape(t) PROVE SecretInv'
  BY <1>0, <1>5, SecretLeave DEF Garble, Fail, Escape
<1>6. ASSUME NEW t \in Threads, ClosePick(t) PROVE SecretInv'
  <2>1. CASE bridge = NoBridge
    BY <1>0, <1>6, <2>1, SecretLeave DEF ClosePick
  <2>2. CASE bridge # NoBridge
    BY <1>6, <2>2 DEF ClosePick, SecretInv, SecretKeysStay
  <2> QED BY <2>1, <2>2
<1>7. ASSUME NEW t \in Threads, CloseEnd(t) PROVE SecretInv'
  <2>1. CASE Goto(t, "clear") /\ UNCHANGED <<task, held, stirred, outcome>>
    BY <1>7, <2>1 DEF CloseEnd, SecretInv, SecretKeysStay
  <2>2. CASE Leave(t, Raised)
    BY <1>0, <1>7, <2>2, SecretLeave DEF CloseEnd
  <2> QED BY <1>7, <2>1, <2>2 DEF CloseEnd
<1>8. ASSUME NEW t \in Threads, CloseClear(t) PROVE SecretInv'
  BY <1>0, <1>8, SecretLeave DEF CloseClear
<1>9. ASSUME NEW t \in Threads, Test(t) \/ Make(t) \/ Close(t) PROVE SecretInv'
  BY <1>9 DEF Test, Make, Close, SecretInv, SecretKeysStay
<1>10. ASSUME NEW b \in Bridges, ServerDies(b) PROVE SecretInv'
  BY <1>10 DEF ServerDies, threadVars, SecretInv, SecretKeysStay
<1> QED
  BY <1>1, <1>2, <1>3, <1>4, <1>5, <1>6, <1>7, <1>8, <1>9, <1>10 DEF Step

\* Initially there is neither a bridge nor an operation.
LEMMA InitInv ==
  ASSUME Init
  PROVE  IInv
<1> USE BridgeAssumption, ClosesAssumption, KeysAssumption DEF Init, NoTask, NoOutcome, Ended
<1>1. TypeOK
  BY DEF TypeOK, ThreadsTyped, Place, Holding, Outcome, InCall
<1>2. Histories
  BY DEF Histories
<1>3. ~Meets /\ ~Races
  BY DEF Meets, Races, InClose
<1>4. CalmInv
  BY <1>3 DEF CalmInv, Calm, Holding, Raised
<1>5. SecretInv
  BY DEF SecretInv, SecretKeysStay
<1>6. Stale = {} /\ Makers = {}
  BY DEF Stale, Serving, Makers
<1>7. SingleInv
  BY <1>3, <1>6 DEF SingleInv, Single
<1>8. StaleInv
  <2>1. ~Open /\ Cardinality(Stale) = 0 /\ Others \in Nat
    BY <1>1, <1>6, FS_EmptySet, ThreadAssumption, FS_CardinalityType DEF Open, Others
  <2> QED BY <2>1 DEF StaleInv, Bounded
<1> QED BY <1>1, <1>2, <1>4, <1>5, <1>7, <1>8 DEF IInv

\* Every step keeps the inductive invariant.
LEMMA InductiveStep ==
  ASSUME IInv, [Next]_vars
  PROVE  IInv'
<1>1. CASE Next
  <2>0. Step /\ raced' = (raced \/ Races') /\ met' = (met \/ Meets')
    BY <1>1 DEF Next
  <2>1. TypeOK'
    BY <2>0, TypeStep DEF IInv
  <2>2. Histories' /\ (met => met') /\ (raced => raced')
    BY <2>0 DEF Histories, IInv
  <2>3. CalmInv'
    BY <2>0, <2>1, CalmStep DEF IInv, CalmInv
  <2>4. SecretInv'
    BY <2>0, SecretStep DEF IInv
  <2>5. SingleInv'
    <3>1. Races' => raced'
      BY <2>0
    <3>2. ~met' /\ ~raced' => Single'
      BY <2>0, <2>2, SingleStep DEF IInv, CalmInv, SingleInv
    <3> QED BY <3>1, <3>2 DEF SingleInv
  <2>6. StaleInv'
    BY <2>0, <2>1, <2>2, <2>3, BoundedStep DEF IInv, CalmInv, StaleInv
  <2> QED BY <2>1, <2>2, <2>3, <2>4, <2>5, <2>6 DEF IInv
<1>2. CASE UNCHANGED vars
  BY <1>2 DEF vars, threadVars, IInv, TypeOK, ThreadsTyped, InCall, InClose, Histories, CalmInv,
              Calm, Meets, Races, SecretInv, SecretKeysStay, SingleInv, Single, StaleInv,
              Bounded, Open, Stale, Serving, Makers, Others
<1> QED BY <1>1, <1>2

\* Hence it holds throughout.
LEMMA Invariance == Spec => []IInv
<1>1. Init => IInv
  BY InitInv
<1>2. IInv /\ [Next]_vars => IInv'
  BY InductiveStep
<1> QED BY <1>1, <1>2, PTL DEF Spec

-----------------------------------------------------------------------------
\* The provider, its threads and their bridges are well typed, for any number
\* of threads, bridges, keys and closes.
THEOREM TypeCorrect == Spec => []TypeOK
<1>1. IInv => TypeOK
  BY DEF IInv
<1> QED BY <1>1, Invariance, PTL

\* Until a close() meets one of them, capabilities, analyze and resolve_value
\* raise over what a server wrote and over nothing else, for any number of
\* threads that make the first call at once, whatever becomes of the servers.
THEOREM RaisingBounded == Spec => []OnlyAnswersRaise
<1>1. IInv => OnlyAnswersRaise
  BY DEF IInv, Histories, CalmInv, Calm, OnlyAnswersRaise
<1> QED BY <1>1, Invariance, PTL

\* Of the bridges that racing first calls make, fewer than there are threads
\* leave a server behind between two closes; without a race or a close that
\* meets a call none does.
THEOREM ServersBounded == Spec => []OneServer
<1>1. ASSUME IInv PROVE OneServer
  <2> DEFINE known == {bridge} \cup {held[t] : t \in Threads}
  <2> SUFFICES ASSUME ~met
               PROVE  /\ lost = 0
                      /\ Cardinality(Serving \ known) <=
                           IF raced THEN (closes + 1) * (Cardinality(Threads) - 1) ELSE 0
    BY DEF OneServer
  <2>1. lost = 0 /\ Bounded /\ (~raced => Stale = {})
    BY <1>1 DEF IInv, CalmInv, Calm, StaleInv, SingleInv, Single
  <2>2. Serving \ known \subseteq Stale
    BY BridgeAssumption DEF Serving, Stale
  <2>3. /\ Stale \subseteq Bridges /\ IsFiniteSet(Stale) /\ Cardinality(Stale) \in Nat
        /\ IsFiniteSet(Makers) /\ Cardinality(Makers) \in Nat
    <3>1. Stale \subseteq Bridges /\ Makers \subseteq Threads
      BY <1>1 DEF IInv, TypeOK, ThreadsTyped, Stale, Serving, Makers
    <3> QED BY <3>1, ThreadAssumption, FS_Subset, FS_CardinalityType
  <2>4. Cardinality(Serving \ known) \in Nat /\ Cardinality(Serving \ known) <= Cardinality(Stale)
    BY <2>2, <2>3, Smaller
  <2>5. Others \in Nat /\ closes \in Nat
    <3>1. Cardinality(Threads) \in Nat \ {0}
      BY ThreadAssumption, FS_CardinalityType, FS_EmptySet
    <3> QED BY <1>1, <3>1 DEF Others, IInv, TypeOK
  <2>6. Cardinality(Stale) <= (closes + 1) * Others
    <3>1. (closes + 1) * Others = closes * Others + Others
      BY <2>5
    <3>2. closes * Others \in Nat
      BY <2>5
    <3>3. CASE Open
      BY <2>1, <2>3, <2>5, <3>1, <3>2, <3>3 DEF Bounded
    <3>4. CASE ~Open
      BY <2>1, <2>3, <2>5, <3>1, <3>2, <3>4 DEF Bounded
    <3> QED BY <3>3, <3>4
  <2>7. CASE raced
    <3>1. (closes + 1) * Others \in Nat
      BY <2>5
    <3>2. Cardinality(Serving \ known) <= (closes + 1) * Others
      BY <2>3, <2>4, <2>6, <3>1
    <3> QED BY <2>1, <2>7, <3>2 DEF Others
  <2>8. CASE ~raced
    <3>1. Serving \ known = {}
      BY <2>1, <2>2, <2>8
    <3>2. Cardinality(Serving \ known) = 0
      BY <3>1, FS_EmptySet
    <3> QED BY <2>1, <2>8, <3>2
  <2> QED BY <2>7, <2>8
<1>2. IInv => OneServer
  BY <1>1
<1> QED BY <1>2, Invariance, PTL

\* No secret key goes to a server in a request or comes back in a result.
THEOREM SecretsKept == Spec => []SecretKeysStay
<1>1. IInv => SecretKeysStay
  BY DEF IInv, SecretInv
<1> QED BY <1>1, Invariance, PTL
=============================================================================
