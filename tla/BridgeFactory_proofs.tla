------------------------ MODULE BridgeFactory_proofs ------------------------
(***************************************************************************)
(* Proofs about BridgeFactory, for any number of connections.              *)
(***************************************************************************)
EXTENDS BridgeFactory, SequenceLemmas, TLAPS

-----------------------------------------------------------------------------
(* The inductive invariant *)

\* InternalStop is under way.
TeardownWorks ==
    teardownPc \in {"joinCtx", "move", "requestStop", "joinDisposal", "tcp", "waitTcp",
                    "waitGns"}

(* Where each thread can be; InternalStop runs in the one transition that    *)
(* works, and leaves a thread behind it when that has gone.                  *)
ThreadsOK ==
    /\ initPc \in {"waiting", "startCtx", "startDisposal", "end"} =>
         core.mIsInTransition /\ teardownPc = "none"
    /\ initPc = "failing" => TeardownWorks
    /\ TeardownWorks => core.mIsInTransition
    /\ teardownPc = "none" => core.mState # "Stopped"
    /\ teardownPc = "done" => core.mState = "Stopped"
    /\ ctxPc # "none" => initPc \in {"startDisposal", "end", "done"}
    /\ ctxPc # "none" /\ tdDisposal = "none" => initPc = "startDisposal"
    /\ teardownPc \notin {"none", "joinCtx"} => ctxPc \in {"none", "exited"}
    /\ teardownPc \in {"tcp", "waitTcp", "waitGns", "done"} =>
         tdDisposal \in {"none", "exited"}

(* The factories run from the moment that InitReady saw it to that where     *)
(* InternalStop stops them.                                                  *)
FactoriesOK ==
    /\ tcpStop => teardownPc \in {"waitTcp", "waitGns", "done"}
    /\ gnsStop => teardownPc \in {"waitGns", "done"}
    /\ ctxPc # "none" \/ initPc = "startCtx" =>
         (tcpPhase = "Running" \/ tcpStop) /\ (gnsPhase = "Running" \/ gnsStop)

(* What CtxWorker and the disposal thread hold at each of their locations.   *)
ListsOK ==
    /\ ctxPc = "none" => Created = {}
    /\ ctxPc \in {"none", "top", "get", "exited"} => newBridges = <<>>
    /\ ctxPc # "merge" => next = 1
    /\ ctxPc = "merge" => mainPc # "report"
    /\ teardownPc \notin {"none", "joinCtx", "move"} => mInstances = <<>>
    /\ tdDisposal \in {"none", "copy", "exited"} => cache = <<>>
    /\ tdDisposal = "destroy" => cache # <<>>

(* OwnedOnce, said of the five sequences one by one, as a step disturbs two. *)
PlacesOK ==
    /\ NoDuplicates(destroyed) /\ NoDuplicates(cache) /\ NoDuplicates(mDequeDisposal)
    /\ NoDuplicates(NotPassed) /\ NoDuplicates(newBridges)
    /\ Elements(destroyed) \cap Elements(cache) = {}
    /\ (Elements(destroyed) \cup Elements(cache)) \cap Elements(mDequeDisposal) = {}
    /\ (Elements(destroyed) \cup Elements(cache) \cup Elements(mDequeDisposal))
         \cap (Elements(NotPassed) \cup Elements(newBridges)) = {}
    /\ Elements(NotPassed) \cap Elements(newBridges) = {}
    /\ Created = Elements(destroyed) \cup Elements(cache) \cup Elements(mDequeDisposal)
                  \cup Elements(NotPassed) \cup Elements(newBridges)

(* A bridge is deleted when it is destroyed, and has its GNS instance only   *)
(* while it works.                                                           *)
BridgesOK ==
    /\ \A b \in Bridge : bridge[b] = "deleted" <=> b \in Elements(destroyed)
    /\ \A b \in Bridge : "gns" \in holds[b] => bridge[b] \in {"running", "stopping"}

Inv == TypeOK /\ ThreadsOK /\ FactoriesOK /\ ListsOK /\ PlacesOK /\ BridgesOK
       /\ FatalOnlyFromLeftBehind

-----------------------------------------------------------------------------
(* Typing *)

(* The transitions of a state machine keep its type. *)
LEMMA CoreTyping ==
    ASSUME NEW c \in StateMachineCore
    PROVE  /\ BeginInitializing(c) \in StateMachineCore
           /\ BeginStopping(c) \in StateMachineCore
           /\ \A b \in BOOLEAN : EndInitializing(c, b) \in StateMachineCore
           /\ EndStopping(c) \in StateMachineCore
BY DEF StateMachineCore, States, BeginInitializing, BeginStopping,
       EndInitializing, EndStopping

(* The queues. *)
LEMMA QueueTyping ==
    TypeOK => /\ mInstances \in Seq(Bridge) /\ newBridges \in Seq(Bridge)
              /\ mDequeDisposal \in Seq(Bridge) /\ cache \in Seq(Bridge)
              /\ destroyed \in Seq(Bridge)
              /\ Len(mInstances) \in Nat /\ next \in 1..Len(mInstances) + 1
BY DEF TypeOK, mDisposal!TypeOK

\* The two halves of TypeOK: where the threads are, and what they work on.
ControlTypes ==
    /\ core \in StateMachineCore
    /\ {stopOrdered, ctxStop, tcpStop, gnsStop, fatal, stopRequested} \subseteq BOOLEAN
    /\ mainPc \in {"polling", "report", "done"}
    /\ initPc \in {"spawned", "waiting", "failing", "startCtx", "startDisposal",
                   "end", "done"}
    /\ teardownPc \in {"none", "joinCtx", "move", "requestStop", "joinDisposal",
                       "tcp", "waitTcp", "waitGns", "done"}
    /\ ctxPc \in {"none", "top", "get", "lock", "merge", "exited"}
    /\ destroyPc \in {"check", "spin"}
    /\ tdDisposal \in {"none", "copy", "test", "destroy", "exited"}
    /\ tcpPhase \in PhaseSet /\ gnsPhase \in PhaseSet

BridgeTypes ==
    /\ bridge \in [Bridge -> {"none", "starting", "running", "stopping", "stopped",
                              "deleted"}]
    /\ told \subseteq Bridge
    /\ holds \in [Bridge -> SUBSET {"tcp", "gns"}]

QueueTypes ==
    /\ mInstances \in Seq(Bridge) /\ newBridges \in Seq(Bridge)
    /\ mDequeDisposal \in Seq(Bridge) /\ cache \in Seq(Bridge) /\ destroyed \in Seq(Bridge)
    /\ next \in 1..Len(mInstances) + 1

(* These are the types. *)
LEMMA TypeParts == TypeOK <=> ControlTypes /\ BridgeTypes /\ QueueTypes
BY DEF TypeOK, mDisposal!TypeOK, ControlTypes, BridgeTypes, QueueTypes

(* A step of a bridge changes only what is known of the bridges. *)
LEMMA BridgeFrame ==
    ASSUME NEW b \in Bridge, BridgeStep(b) \/ BridgeLosesSide(b) \/ GnsInstanceWorks(b)
    PROVE  UNCHANGED <<life, mainPc, ctx, lists, destroyPc, disposal, factories>>
BY Zenon DEF BridgeStep, BridgeConnect, BridgeStop, BridgeReturns, BridgeStopped,
   BridgeLosesSide, GnsInstanceWorks, bridges

(* Each step keeps the types of the program locations. *)
LEMMA ControlTypesStep == ASSUME ControlTypes, [Next]_vars PROVE ControlTypes'
<1> USE DEF ControlTypes, life, ctx, factories, disposal, Alive
<1>1. CASE InitStep
  <2>1. CASE InitBegin \/ InitEnd
    BY <2>1, CoreTyping DEF InitBegin, InitEnd
  <2>2. CASE InitFail \/ InitReady \/ InitStartCtx
    BY <2>2 DEF InitFail, InitReady, InitStartCtx
  <2>3. CASE InitStartDisposal
    BY <2>3 DEF InitStartDisposal, mDisposal!Start
  <2> QED
    BY <1>1, <2>1, <2>2, <2>3, Zenon DEF InitStep
<1>2. CASE ReportBegin \/ ReportEnd \/ OrderStop
  BY <1>2 DEF ReportBegin, ReportEnd, OrderStop
<1>3. CASE StopStep
  <2>1. CASE StopBegin \/ JoinCtx \/ TeardownEnd
    BY <2>1, CoreTyping DEF StopBegin, JoinCtx, TeardownEnd
  <2>2. CASE MoveInstances \/ StopDisposal \/ JoinDisposal
    BY <2>2 DEF MoveInstances, StopDisposal, JoinDisposal, mDisposal!Move,
       mDisposal!RequestStop
  <2>3. CASE StopTcp \/ StopGns
    BY <2>3 DEF StopTcp, StopGns
  <2> QED
    BY <1>3, <2>1, <2>2, <2>3, Zenon DEF StopStep
<1>4. CASE CtxStep
  <2>1. /\ UNCHANGED <<life, mainPc, ctxStop, destroyPc, tdDisposal, stopRequested, factories>>
        /\ ctxPc' \in {"top", "get", "lock", "merge", "exited"} /\ fatal' \in BOOLEAN
    BY <1>4 DEF CtxStep, CtxTop, CtxGet, CtxLock, CtxRetire, CtxReplace, mDisposal!Move
  <2> QED
    BY <2>1
<1>5. CASE DisposalStep
  BY <1>5 DEF DisposalStep, DisposalCopy, DisposalTest, DestroyCheck, DestroyDelete,
     mDisposal!Copy, mDisposal!Test, mDisposal!Destroyed
<1>6. ASSUME NEW b \in Bridge, BridgeStep(b) \/ BridgeLosesSide(b) \/ GnsInstanceWorks(b)
      PROVE  ControlTypes'
  <2>1. fatal' \in BOOLEAN
    BY <1>6 DEF BridgeStep, BridgeConnect, BridgeStop, BridgeReturns, BridgeStopped,
       BridgeLosesSide, GnsInstanceWorks
  <2>2. UNCHANGED <<life, mainPc, ctx, destroyPc, disposal, factories>>
    BY <1>6, BridgeFrame, Zenon
  <2> QED
    BY <2>1, <2>2
<1>7. CASE TcpProgress
  <2>1. tcpPhase' \in PhaseSet
    BY <1>7 DEF TcpProgress, TcpLife!BeginInitializing, TcpLife!EndInitializing,
       TcpLife!BeginStopping, TcpLife!EndStopping, PhaseSet
  <2> QED
    BY <1>7, <2>1 DEF TcpProgress
<1>8. CASE GnsProgress
  <2>1. gnsPhase' \in PhaseSet
    BY <1>8 DEF GnsProgress, GnsLife!BeginInitializing, GnsLife!EndInitializing,
       GnsLife!BeginStopping, GnsLife!EndStopping, PhaseSet
  <2> QED
    BY <1>8, <2>1 DEF GnsProgress
<1>9. CASE UNCHANGED vars
  BY <1>9 DEF vars
<1> QED
  BY <1>1, <1>2, <1>3, <1>4, <1>5, <1>6, <1>7, <1>8, <1>9, Zenon DEF Next, Terminated

\* The steps that change what BridgeTypes and QueueTypes are about.
Works == \/ CtxGet \/ CtxRetire \/ CtxReplace \/ MoveInstances
         \/ DisposalCopy \/ DestroyCheck \/ DestroyDelete

(* Every other step leaves the queues as they are, and the bridges unless it *)
(* is one of theirs.                                                         *)
LEMMA QueueFrame ==
    ASSUME [Next]_vars, ~Works
    PROVE  /\ UNCHANGED <<lists, mDequeDisposal, cache, destroyed>>
           /\ \/ UNCHANGED bridges
              \/ \E b \in Bridge : BridgeStep(b) \/ BridgeLosesSide(b) \/ GnsInstanceWorks(b)
<1> USE DEF bridges, lists, disposal
<1>1. CASE InitStep
  BY <1>1, Zenon DEF InitStep, InitBegin, InitFail, InitReady, InitStartCtx,
     InitStartDisposal, InitEnd, mDisposal!Start
<1>2. CASE ReportBegin \/ ReportEnd \/ OrderStop \/ TcpProgress \/ GnsProgress
           \/ Terminated \/ UNCHANGED vars
  BY <1>2, Zenon DEF ReportBegin, ReportEnd, OrderStop, TcpProgress, GnsProgress,
     Terminated, vars
<1>3. CASE StopStep
  BY <1>3, Zenon DEF StopStep, Works, StopBegin, JoinCtx, StopDisposal, JoinDisposal,
     StopTcp, StopGns, TeardownEnd, mDisposal!RequestStop
<1>4. CASE CtxStep \/ DisposalStep
  BY <1>4, Zenon DEF CtxStep, CtxTop, CtxLock, DisposalStep, DisposalTest, Works,
     mDisposal!Test
<1>5. ASSUME NEW b \in Bridge, BridgeStep(b) \/ BridgeLosesSide(b) \/ GnsInstanceWorks(b)
      PROVE  UNCHANGED <<lists, mDequeDisposal, cache, destroyed>>
  BY <1>5, BridgeFrame, Zenon
<1> QED
  BY <1>1, <1>2, <1>3, <1>4, <1>5, Zenon DEF Next

(* Each step keeps the types of the bridges' state. *)
LEMMA BridgeTypesStep ==
    ASSUME BridgeTypes, QueueTypes, ListsOK, [Next]_vars
    PROVE  BridgeTypes'
<1> USE DEF BridgeTypes, bridges
<1>1. CASE CtxGet
  <2>1. CASE tcpPhase # "Running"
    BY <1>1, <2>1 DEF CtxGet
  <2>2. CASE tcpPhase = "Running"
    <3>1. PICK n \in 0..MaxBridges, m \in 0..MaxBridges :
             /\ bridge' = [b \in Bridge |-> IF b \in n + 1..m THEN "starting" ELSE bridge[b]]
             /\ holds' = [b \in Bridge |-> IF b \in n + 1..m THEN {"tcp"} ELSE holds[b]]
             /\ told' = told
      BY <1>1, <2>2 DEF CtxGet, Life!Create
    <3> QED
      BY <3>1
  <2> QED
    BY <2>1, <2>2
<1>2. CASE DestroyCheck \/ DestroyDelete
  <2>1. Head(cache) \in Bridge
    BY <1>2, HeadAndTail DEF DestroyCheck, DestroyDelete, ListsOK, QueueTypes
  <2> QED
    BY <1>2, <2>1 DEF DestroyCheck, DestroyDelete, Life!Tell, Life!Delete
<1>3. ASSUME NEW b \in Bridge, BridgeStep(b) \/ BridgeLosesSide(b) \/ GnsInstanceWorks(b)
      PROVE  BridgeTypes'
  BY <1>3 DEF BridgeStep, BridgeConnect, BridgeStop, BridgeReturns, BridgeStopped,
     BridgeLosesSide, GnsInstanceWorks, Life!Connect, Life!Stop, Life!ReturnTcp,
     Life!ReturnGns, Life!End, Life!Tell
<1>4. CASE UNCHANGED bridges
  BY <1>4
<1>5. CASE CtxRetire \/ CtxReplace \/ MoveInstances \/ DisposalCopy
  BY <1>4, <1>5, Zenon DEF CtxRetire, CtxReplace, MoveInstances, DisposalCopy
<1> QED
  BY <1>1, <1>2, <1>3, <1>4, <1>5, QueueFrame, Zenon DEF Works

(* Each step keeps the types of the queues; that of the loop's position needs *)
(* that the list is cleared and replaced only outside of the loop.           *)
LEMMA QueueTypesStep ==
    ASSUME QueueTypes, ThreadsOK, ListsOK, [Next]_vars
    PROVE  QueueTypes'
<1> USE DEF QueueTypes, lists, disposal
<1>1. CASE MoveInstances
  <2>1. /\ mInstances' = <<>> /\ mDequeDisposal' = mDequeDisposal \o mInstances
        /\ UNCHANGED <<next, newBridges, cache, destroyed>>
    BY <1>1, Zenon DEF MoveInstances, mDisposal!Move
  <2>2. next = 1
    BY <1>1 DEF MoveInstances, ThreadsOK, ListsOK
  <2> QED
    BY <2>1, <2>2
<1>2. CASE CtxGet
  <2>1. CASE tcpPhase # "Running"
    BY <1>2, <2>1 DEF CtxGet
  <2>2. CASE tcpPhase = "Running"
    <3>1. PICK n \in 0..MaxBridges, m \in 0..MaxBridges :
             newBridges' = newBridges \o Following(n, m)
      BY <1>2, <2>2, Zenon DEF CtxGet
    <3>2. Following(n, m) \in Seq(Bridge)
      BY BridgesAssumption DEF Following, Bridge
    <3>3. newBridges' \in Seq(Bridge)
      BY <3>1, <3>2
    <3> QED
      BY <1>2, <3>3 DEF CtxGet
  <2> QED
    BY <2>1, <2>2
<1>3. CASE CtxRetire
  <2>1. mInstances[next] \in Bridge /\ next' \in 1..Len(mInstances) + 1
    BY <1>3 DEF CtxRetire
  <2>2. /\ Append(newBridges, mInstances[next]) \in Seq(Bridge)
        /\ mDequeDisposal \o <<mInstances[next]>> \in Seq(Bridge)
    BY <2>1
  <2>3. /\ newBridges' \in {newBridges, Append(newBridges, mInstances[next])}
        /\ mDequeDisposal' \in {mDequeDisposal, mDequeDisposal \o <<mInstances[next]>>}
        /\ UNCHANGED <<mInstances, cache, destroyed>>
    BY <1>3 DEF CtxRetire, mDisposal!Move
  <2> QED
    BY <2>1, <2>2, <2>3
<1>4. CASE CtxReplace
  BY <1>4 DEF CtxReplace
<1>5. CASE DisposalCopy
  <2>1. /\ cache' = cache \o mDequeDisposal /\ mDequeDisposal' = <<>>
        /\ UNCHANGED <<lists, destroyed>>
    BY <1>5, Zenon DEF DisposalCopy, mDisposal!Copy
  <2>2. cache \o mDequeDisposal \in Seq(Bridge)
    OBVIOUS
  <2> QED
    BY <2>1, <2>2
<1>6. CASE DestroyDelete
  <2>1. Head(cache) \in Bridge /\ Tail(cache) \in Seq(Bridge)
    BY <1>6, HeadAndTail DEF DestroyDelete, ListsOK
  <2>2. /\ destroyed' = Append(destroyed, Head(cache)) /\ cache' = Tail(cache)
        /\ UNCHANGED <<lists, mDequeDisposal>>
    BY <1>6, Zenon DEF DestroyDelete, mDisposal!Destroyed
  <2> QED
    BY <2>1, <2>2
<1>7. CASE UNCHANGED <<lists, mDequeDisposal, cache, destroyed>>
  BY <1>7
<1>8. CASE DestroyCheck
  BY <1>7, <1>8, Zenon DEF DestroyCheck
<1> QED
  BY <1>1, <1>2, <1>3, <1>4, <1>5, <1>6, <1>7, <1>8, QueueFrame, Zenon DEF Works

-----------------------------------------------------------------------------
(* Threads and factories *)

(* Each step keeps what is known of the threads from where they are. *)
LEMMA ThreadsStep == ASSUME TypeOK, ThreadsOK, [Next]_vars PROVE ThreadsOK'
<1> USE DEF ThreadsOK, TeardownWorks, life, ctx, disposal
<1>1. CASE InitStep
  BY <1>1 DEF InitStep, InitBegin, InitFail, InitReady, InitStartCtx, InitStartDisposal,
     InitEnd, MayDecide, MayInitialize, BeginInitializing, EndInitializing,
     mDisposal!Start, TypeOK, StateMachineCore, States
<1>2. CASE StopStep
  <2>1. CASE StopBegin
    BY <2>1 DEF StopBegin, MayDecide, MayStop, BeginStopping, TypeOK, StateMachineCore
  <2>2. CASE JoinCtx \/ MoveInstances \/ StopDisposal \/ JoinDisposal
    BY <2>2 DEF JoinCtx, MoveInstances, StopDisposal, JoinDisposal, mDisposal!Move,
       mDisposal!RequestStop, mDisposal!Joined
  <2>3. CASE StopTcp \/ StopGns
    BY <2>3 DEF StopTcp, StopGns
  <2>4. CASE TeardownEnd
    BY <2>4 DEF TeardownEnd, EndInitializing, EndStopping, TypeOK, StateMachineCore
  <2> QED
    BY <1>2, <2>1, <2>2, <2>3, <2>4, Zenon DEF StopStep
<1>3. CASE CtxStep
  <2>1. UNCHANGED <<core, initPc, teardownPc, tdDisposal>>
    BY <1>3 DEF CtxStep, CtxTop, CtxGet, CtxLock, CtxRetire, CtxReplace, mDisposal!Move
  <2>2. ctxPc \notin {"none", "exited"}
    BY <1>3 DEF CtxStep, CtxTop, CtxGet, CtxLock, CtxRetire, CtxReplace
  <2> QED
    BY <2>1, <2>2
<1>4. CASE DisposalStep
  <2>1. /\ UNCHANGED <<core, initPc, teardownPc, ctxPc>>
        /\ tdDisposal \notin {"none", "exited"} /\ tdDisposal' # "none"
    BY <1>4 DEF DisposalStep, DisposalCopy, DisposalTest, DestroyCheck, DestroyDelete,
       mDisposal!Copy, mDisposal!Test, mDisposal!Destroyed
  <2> QED
    BY <2>1
<1>5. CASE UNCHANGED <<core, initPc, teardownPc, ctxPc, tdDisposal>>
  BY <1>5
<1>6. ASSUME NEW b \in Bridge, BridgeStep(b) \/ BridgeLosesSide(b) \/ GnsInstanceWorks(b)
      PROVE  UNCHANGED <<core, initPc, teardownPc, ctxPc, tdDisposal>>
  BY <1>6, Zenon DEF BridgeStep, BridgeConnect, BridgeStop, BridgeReturns, BridgeStopped,
     BridgeLosesSide, GnsInstanceWorks
<1>7. CASE ReportBegin \/ ReportEnd \/ OrderStop \/ TcpProgress \/ GnsProgress
           \/ UNCHANGED vars
  BY <1>5, <1>7, Zenon DEF ReportBegin, ReportEnd, OrderStop, TcpProgress, GnsProgress, vars
<1> QED
  BY <1>1, <1>2, <1>3, <1>4, <1>5, <1>6, <1>7, Zenon DEF Next, Terminated

(* Each step keeps that the factories run until InternalStop comes to them.  *)
LEMMA FactoriesStep ==
    ASSUME TypeOK, ThreadsOK, FactoriesOK, [Next]_vars
    PROVE  FactoriesOK'
<1> USE DEF FactoriesOK, life, ctx, factories
<1>1. CASE InitStep
  <2>1. CASE InitReady
    <3>1. tcpPhase = "Running" /\ gnsPhase = "Running"
      BY <2>1, Zenon DEF InitReady
    <3> QED
      BY <2>1, <3>1 DEF InitReady
  <2>2. CASE InitBegin \/ InitFail \/ InitStartCtx
    BY <2>2 DEF InitBegin, InitFail, InitStartCtx, ThreadsOK
  <2>3. CASE InitStartDisposal \/ InitEnd
    <3>1. UNCHANGED <<teardownPc, ctxPc, factories>>
      BY <2>3, Zenon DEF InitStartDisposal, InitEnd
    <3>2. initPc' # "startCtx"
      BY <2>3 DEF InitStartDisposal, InitEnd
    <3> QED
      BY <3>1, <3>2
  <2> QED
    BY <1>1, <2>1, <2>2, <2>3, Zenon DEF InitStep
<1>2. CASE StopStep
  <2>1. CASE StopTcp \/ StopGns
    BY <2>1 DEF StopTcp, StopGns
  <2>2. CASE TeardownEnd
    <3>1. UNCHANGED <<ctxPc, factories>> /\ initPc' \in {initPc, "done"}
          /\ teardownPc' = "done"
      BY <2>2 DEF TeardownEnd
    <3> QED
      BY <3>1
  <2>3. CASE StopStep /\ ~StopTcp /\ ~StopGns /\ ~TeardownEnd
    <3>1. UNCHANGED <<initPc, ctxPc, factories>>
      BY <2>3, Zenon DEF StopStep, StopBegin, JoinCtx, MoveInstances, StopDisposal,
         JoinDisposal
    <3>2. teardownPc \in {"none", "joinCtx", "move", "requestStop", "joinDisposal"}
      BY <2>3 DEF StopStep, StopBegin, JoinCtx, MoveInstances, StopDisposal, JoinDisposal
    <3> QED
      BY <3>1, <3>2
  <2> QED
    BY <1>2, <2>1, <2>2, <2>3
<1>3. CASE CtxStep
  <2>1. UNCHANGED <<initPc, teardownPc, factories>> /\ ctxPc # "none"
    BY <1>3 DEF CtxStep, CtxTop, CtxGet, CtxLock, CtxRetire, CtxReplace
  <2> QED
    BY <2>1
<1>4. CASE TcpProgress
  BY <1>4 DEF TcpProgress, TcpLife!BeginInitializing, TcpLife!EndInitializing,
     TcpLife!BeginStopping, TcpLife!EndStopping
<1>5. CASE GnsProgress
  BY <1>5 DEF GnsProgress, GnsLife!BeginInitializing, GnsLife!EndInitializing,
     GnsLife!BeginStopping, GnsLife!EndStopping
<1>6. CASE UNCHANGED <<initPc, teardownPc, ctxPc, factories>>
  BY <1>6
<1>7. ASSUME NEW b \in Bridge, BridgeStep(b) \/ BridgeLosesSide(b) \/ GnsInstanceWorks(b)
      PROVE  UNCHANGED <<initPc, teardownPc, ctxPc, factories>>
  BY <1>7, Zenon DEF BridgeStep, BridgeConnect, BridgeStop, BridgeReturns, BridgeStopped,
     BridgeLosesSide, GnsInstanceWorks
<1>8. CASE ReportBegin \/ ReportEnd \/ OrderStop \/ DisposalStep \/ UNCHANGED vars
  BY <1>6, <1>8, Zenon DEF ReportBegin, ReportEnd, OrderStop, DisposalStep, DisposalCopy,
     DisposalTest, DestroyCheck, DestroyDelete, vars
<1> QED
  BY <1>1, <1>2, <1>3, <1>4, <1>5, <1>6, <1>7, <1>8, Zenon DEF Next, Terminated

-----------------------------------------------------------------------------
(* Lists and places *)

(* What CtxWorker's loop has not passed: all of the list at first, then one  *)
(* bridge less with each turn, and nothing at the end.                       *)
LEMMA NotPassedMeans ==
    ASSUME QueueTypes
    PROVE  /\ NotPassed \in Seq(Bridge)
           /\ next = 1 => NotPassed = mInstances
           /\ next > Len(mInstances) => NotPassed = <<>>
           /\ next <= Len(mInstances) =>
                /\ mInstances[next] \in Bridge
                /\ SubSeq(mInstances, next + 1, Len(mInstances)) \in Seq(Bridge)
                /\ NotPassed = <<mInstances[next]>>
                                 \o SubSeq(mInstances, next + 1, Len(mInstances))
<1> USE DEF QueueTypes
<1>1. /\ Len(mInstances) \in Nat /\ next \in Nat \ {0}
      /\ NotPassed \in Seq(Bridge)
  BY DEF NotPassed
<1>2. next = 1 => NotPassed = mInstances
  BY DEF NotPassed
<1>3. next > Len(mInstances) => NotPassed = <<>>
  BY <1>1 DEF NotPassed
<1>4. ASSUME next <= Len(mInstances)
      PROVE  /\ mInstances[next] \in Bridge
             /\ SubSeq(mInstances, next + 1, Len(mInstances)) \in Seq(Bridge)
             /\ NotPassed = <<mInstances[next]>>
                              \o SubSeq(mInstances, next + 1, Len(mInstances))
  BY <1>1, <1>4 DEF NotPassed
<1> QED
  BY <1>1, <1>2, <1>3, <1>4

(* The new bridges are numbered on, and each is new. *)
LEMMA CtxGetMeans ==
    ASSUME BridgeTypes, CtxGet, tcpPhase = "Running"
    PROVE  \E s \in Seq(Bridge) :
             /\ NoDuplicates(s) /\ Elements(s) \cap Created = {}
             /\ newBridges' = newBridges \o s
             /\ Created' = Created \cup Elements(s)
             /\ \A b \in Bridge :
                  /\ bridge'[b] = IF b \in Elements(s) THEN "starting" ELSE bridge[b]
                  /\ holds'[b] = IF b \in Elements(s) THEN {"tcp"} ELSE holds[b]
<1>1. PICK n \in 0..MaxBridges, m \in 0..MaxBridges :
         /\ Created = 1..n /\ n <= m
         /\ bridge' = [b \in Bridge |-> IF b \in n + 1..m THEN "starting" ELSE bridge[b]]
         /\ holds' = [b \in Bridge |-> IF b \in n + 1..m THEN {"tcp"} ELSE holds[b]]
         /\ newBridges' = newBridges \o Following(n, m)
  BY Zenon DEF CtxGet, Life!Create
<1> DEFINE s == Following(n, m)
<1>2. s \in Seq(Bridge) /\ Len(s) = m - n /\ \A k \in 1..(m - n) : s[k] = n + k
  BY <1>1, BridgesAssumption DEF Following, Bridge
<1> HIDE DEF s
<1>3. NoDuplicates(s) /\ Elements(s) = n + 1..m
  <2>1. NoDuplicates(s)
    BY <1>2 DEF NoDuplicates
  <2>2. ASSUME NEW b \in n + 1..m
        PROVE  b \in Elements(s)
    <3>1. b - n \in 1..(m - n) /\ b = n + (b - n)
      OBVIOUS
    <3>2. s[b - n] = b
      BY <1>2, <3>1
    <3> QED
      BY <1>2, <3>1, <3>2, Zenon DEF Elements
  <2>3. Elements(s) \subseteq n + 1..m
    BY <1>2 DEF Elements
  <2> QED
    BY <2>1, <2>2, <2>3
<1>4. Elements(s) \cap Created = {}
  BY <1>1, <1>3
<1>5. \A b \in Bridge :
        /\ bridge'[b] = IF b \in Elements(s) THEN "starting" ELSE bridge[b]
        /\ holds'[b] = IF b \in Elements(s) THEN {"tcp"} ELSE holds[b]
  BY <1>1, <1>3, Zenon
<1>6. Created' = Created \cup Elements(s)
  <2>1. Elements(s) \subseteq Bridge
    BY <1>1, <1>3, BridgesAssumption DEF Bridge
  <2> QED
    BY <1>5, <2>1 DEF Created
<1> QED
  BY <1>1, <1>2, <1>3, <1>4, <1>5, <1>6, Zenon DEF s

(* The first in the disposal thread's cache is a bridge. *)
LEMMA HeadOfCache ==
    ASSUME QueueTypes, ListsOK, tdDisposal = "destroy"
    PROVE  Head(cache) \in Bridge /\ Tail(cache) \in Seq(Bridge) /\ cache # <<>>
BY HeadAndTail DEF QueueTypes, ListsOK

(* No other step makes or unmakes a bridge. *)
LEMMA CreatedStays ==
    ASSUME BridgeTypes, QueueTypes, ListsOK, [Next]_vars, ~CtxGet
    PROVE  Created' = Created
<1> USE DEF Created, bridges
<1>1. CASE DestroyDelete
  <2>1. Head(cache) \in Bridge
    BY <1>1, HeadOfCache DEF DestroyDelete
  <2> QED
    BY <1>1, <2>1 DEF DestroyDelete, Life!Delete, BridgeTypes
<1>2. ASSUME NEW b \in Bridge, BridgeStep(b) \/ BridgeLosesSide(b) \/ GnsInstanceWorks(b)
      PROVE  Created' = Created
  <2>1. \/ bridge' = bridge
        \/ bridge[b] # "none" /\ \E p \in {"running", "stopping", "stopped"} :
                                   bridge' = [bridge EXCEPT ![b] = p]
    BY <1>2 DEF BridgeStep, BridgeConnect, BridgeStop, BridgeReturns, BridgeStopped,
       BridgeLosesSide, GnsInstanceWorks, Life!Connect, Life!Stop, Life!ReturnTcp,
       Life!ReturnGns, Life!End, Life!Tell
  <2> QED
    BY <2>1 DEF BridgeTypes
<1>3. CASE UNCHANGED bridge
  BY <1>3
<1>4. CASE CtxRetire \/ CtxReplace \/ MoveInstances \/ DisposalCopy \/ DestroyCheck
  BY <1>3, <1>4, Zenon DEF CtxRetire, CtxReplace, MoveInstances, DisposalCopy, DestroyCheck,
     Life!Tell
<1> QED
  BY <1>1, <1>2, <1>3, <1>4, QueueFrame, Zenon DEF Works

(* Each step keeps what a thread holds at each of its locations. *)
LEMMA ListsStep ==
    ASSUME ControlTypes, BridgeTypes, QueueTypes, ThreadsOK, ListsOK, [Next]_vars
    PROVE  ListsOK'
<1> USE DEF ListsOK, lists, ctx, life, disposal
<1>1. ctxPc' = "none" => Created' = {}
  <2>1. CASE CtxGet
    BY <2>1 DEF CtxGet
  <2>2. CASE ~CtxGet
    <3>1. ctxPc' = "none" => ctxPc = "none"
      <4>1. CASE CtxStep
        BY <4>1 DEF CtxStep, CtxTop, CtxGet, CtxLock, CtxRetire, CtxReplace
      <4>2. CASE InitStep
        BY <4>2 DEF InitStep, InitBegin, InitFail, InitReady, InitStartCtx,
           InitStartDisposal, InitEnd
      <4>3. ASSUME NEW b \in Bridge, BridgeStep(b) \/ BridgeLosesSide(b) \/ GnsInstanceWorks(b)
            PROVE  UNCHANGED ctxPc
        BY <4>3, BridgeFrame, Zenon
      <4>4. CASE StopStep \/ DisposalStep
        BY <4>4, Zenon DEF StopStep, StopBegin, JoinCtx, MoveInstances, StopDisposal,
           JoinDisposal, StopTcp, StopGns, TeardownEnd, DisposalStep, DisposalCopy,
           DisposalTest, DestroyCheck, DestroyDelete
      <4>5. CASE ReportBegin \/ ReportEnd \/ OrderStop \/ TcpProgress \/ GnsProgress
                 \/ UNCHANGED vars
        BY <4>5, Zenon DEF ReportBegin, ReportEnd, OrderStop, TcpProgress, GnsProgress, vars
      <4> QED
        BY <4>1, <4>2, <4>3, <4>4, <4>5, Zenon DEF Next, Terminated
    <3> QED
      BY <2>2, <3>1, CreatedStays, Zenon
  <2> QED
    BY <2>1, <2>2
<1>2. CASE CtxStep
  <2>1. UNCHANGED <<mainPc, teardownPc, cache, tdDisposal>>
    BY <1>2, Zenon DEF CtxStep, CtxTop, CtxGet, CtxLock, CtxRetire, CtxReplace,
       mDisposal!Move
  <2>2. /\ ctxPc' \in {"none", "top", "get", "exited"} => newBridges' = <<>>
        /\ ctxPc' # "merge" => next' = 1
        /\ ctxPc' = "merge" => mainPc' # "report"
    BY <1>2 DEF CtxStep, CtxTop, CtxGet, CtxLock, CtxRetire, CtxReplace, ControlTypes
  <2>3. teardownPc \in {"none", "joinCtx"}
    BY <1>2 DEF CtxStep, CtxTop, CtxGet, CtxLock, CtxRetire, CtxReplace, ThreadsOK
  <2> QED
    BY <1>1, <2>1, <2>2, <2>3
<1>3. CASE MoveInstances
  <2>1. mInstances' = <<>> /\ UNCHANGED <<newBridges, next, ctxPc, mainPc, cache, tdDisposal>>
    BY <1>3, Zenon DEF MoveInstances, mDisposal!Move
  <2> QED
    BY <1>1, <2>1
<1>4. CASE StopStep /\ ~MoveInstances
  <2>1. UNCHANGED <<mInstances, newBridges, next, ctxPc, mainPc, cache, tdDisposal>>
    BY <1>4, Zenon DEF StopStep, StopBegin, JoinCtx, StopDisposal, JoinDisposal, StopTcp,
       StopGns, TeardownEnd, mDisposal!RequestStop
  <2>2. teardownPc' \notin {"none", "joinCtx", "move"} =>
          teardownPc \notin {"none", "joinCtx", "move"}
    BY <1>4 DEF StopStep, StopBegin, JoinCtx, StopDisposal, JoinDisposal, StopTcp,
       StopGns, TeardownEnd
  <2> QED
    BY <1>1, <2>1, <2>2
<1>5. CASE InitStep
  <2>1. UNCHANGED <<mInstances, newBridges, next, mainPc, cache>>
    BY <1>5, Zenon DEF InitStep, InitBegin, InitFail, InitReady, InitStartCtx,
       InitStartDisposal, InitEnd, mDisposal!Start
  <2>2. /\ ctxPc' = ctxPc \/ (ctxPc = "none" /\ ctxPc' = "top")
        /\ tdDisposal' = tdDisposal \/ (tdDisposal = "none" /\ tdDisposal' = "copy")
        /\ teardownPc' \in {teardownPc, "joinCtx"}
    BY <1>5 DEF InitStep, InitBegin, InitFail, InitReady, InitStartCtx,
       InitStartDisposal, InitEnd, mDisposal!Start, ThreadsOK
  <2> QED
    BY <1>1, <2>1, <2>2
<1>6. CASE ReportBegin \/ ReportEnd \/ OrderStop
  <2>1. UNCHANGED <<mInstances, newBridges, next, ctxPc, teardownPc, cache, tdDisposal>>
    BY <1>6, Zenon DEF ReportBegin, ReportEnd, OrderStop
  <2>2. ctxPc = "merge" => mainPc' # "report"
    BY <1>6 DEF ReportBegin, ReportEnd, OrderStop
  <2> QED
    BY <1>1, <2>1, <2>2
<1>7. CASE DisposalStep
  <2>1. UNCHANGED <<mInstances, newBridges, next, ctxPc, mainPc, teardownPc>>
    BY <1>7, Zenon DEF DisposalStep, DisposalCopy, DisposalTest, DestroyCheck, DestroyDelete
  <2>2. /\ tdDisposal' \in {"none", "copy", "exited"} => cache' = <<>>
        /\ tdDisposal' = "destroy" => cache' # <<>>
    <3>1. CASE DisposalCopy \/ DisposalTest \/ DestroyCheck
      BY <3>1 DEF DisposalCopy, DisposalTest, DestroyCheck, mDisposal!Copy, mDisposal!Test
    <3>2. CASE DestroyDelete
      <4>1. cache # <<>> /\ cache \in Seq(Bridge)
        BY <3>2 DEF DestroyDelete, QueueTypes
      <4>2. /\ Len(cache) = 1 => Tail(cache) = <<>>
            /\ Len(cache) # 1 => Tail(cache) # <<>>
        BY <4>1, HeadAndTail, Zenon
      <4>3. /\ cache' = Tail(cache)
            /\ tdDisposal' = IF Len(cache) = 1 THEN "copy" ELSE "destroy"
        BY <3>2, Zenon DEF DestroyDelete, mDisposal!Destroyed
      <4> QED
        BY <4>2, <4>3
    <3> QED
      BY <1>7, <3>1, <3>2, Zenon DEF DisposalStep
  <2> QED
    BY <1>1, <2>1, <2>2
<1>8. CASE UNCHANGED <<lists, ctxPc, mainPc, teardownPc, cache, tdDisposal>>
  BY <1>1, <1>8
<1>9. ASSUME NEW b \in Bridge, BridgeStep(b) \/ BridgeLosesSide(b) \/ GnsInstanceWorks(b)
      PROVE  UNCHANGED <<lists, ctxPc, mainPc, teardownPc, cache, tdDisposal>>
  BY <1>9, BridgeFrame, Zenon
<1>10. CASE TcpProgress \/ GnsProgress \/ UNCHANGED vars
  BY <1>8, <1>10, Zenon DEF TcpProgress, GnsProgress, vars
<1> QED
  BY <1>2, <1>3, <1>4, <1>5, <1>6, <1>7, <1>8, <1>9, <1>10, Zenon DEF Next, Terminated

(* Each step keeps a bridge in one place: it is moved, never copied. *)
LEMMA PlacesStep ==
    ASSUME BridgeTypes, QueueTypes, ThreadsOK, ListsOK, PlacesOK, [Next]_vars
    PROVE  PlacesOK'
<1> USE DEF lists, disposal
<1>1. /\ mInstances \in Seq(Bridge) /\ newBridges \in Seq(Bridge)
      /\ mDequeDisposal \in Seq(Bridge) /\ cache \in Seq(Bridge)
      /\ destroyed \in Seq(Bridge)
      /\ NotPassed \in Seq(Bridge)
  BY NotPassedMeans, Zenon DEF QueueTypes
<1>2. \A s, t \in Seq(Bridge) : Joins(s, t)
  BY Joining, Zenon
<1>3. \A s \in Seq(Bridge), x \in Bridge : JoinsOne(s, x)
  BY JoiningOne, Zenon
<1>4. Elements(<<>>) = {} /\ NoDuplicates(<<>>)
  BY ElementsOfSmall, NoDuplicatesInSmall, Zenon
<1>5. CASE MoveInstances
  <2>1. NotPassed = mInstances
    BY <1>5, NotPassedMeans DEF MoveInstances, ThreadsOK, ListsOK
  <2>2. /\ mInstances' = <<>> /\ mDequeDisposal' = mDequeDisposal \o mInstances
        /\ UNCHANGED <<newBridges, cache, destroyed>>
    BY <1>5, Zenon DEF MoveInstances, mDisposal!Move
  <2>3. NotPassed' = <<>>
    <3>1. next' = 1
      BY <1>5 DEF MoveInstances, ThreadsOK, ListsOK
    <3> QED
      BY <2>2, <3>1 DEF NotPassed
  <2>4. Joins(mDequeDisposal, mInstances)
    BY <1>1, <1>2, Zenon
  <2>5. Created' = Created
    BY <1>5, CreatedStays, Zenon DEF CtxGet, MoveInstances, ThreadsOK, ListsOK, Created
  <2> QED
    BY <1>4, <2>1, <2>2, <2>3, <2>4, <2>5 DEF PlacesOK, Joins
<1>6. CASE CtxGet
  <2>1. UNCHANGED <<NotPassed, mDequeDisposal, cache, destroyed>>
    BY <1>6, Zenon DEF CtxGet, NotPassed
  <2>2. CASE tcpPhase = "Running"
    <3>1. PICK s \in Seq(Bridge) :
             /\ NoDuplicates(s) /\ Elements(s) \cap Created = {}
             /\ newBridges' = newBridges \o s
             /\ Created' = Created \cup Elements(s)
      BY <1>6, <2>2, CtxGetMeans, Zenon
    <3>2. Joins(newBridges, s)
      BY <1>1, <1>2, <3>1, Zenon
    <3> QED
      BY <2>1, <3>1, <3>2 DEF PlacesOK, Joins
  <2>3. CASE tcpPhase # "Running"
    <3>1. UNCHANGED <<Created, newBridges>>
      BY <1>6, <2>3, Zenon DEF CtxGet, bridges, Created
    <3> QED
      BY <2>1, <3>1, Zenon DEF PlacesOK
  <2> QED
    BY <2>2, <2>3
<1>7. CASE CtxRetire
  <2> DEFINE x == mInstances[next]
             r == SubSeq(mInstances, next + 1, Len(mInstances))
  <2>1. x \in Bridge /\ r \in Seq(Bridge) /\ NotPassed = <<x>> \o r
    BY <1>7, NotPassedMeans, Zenon DEF CtxRetire
  <2>2. NotPassed' = r /\ UNCHANGED <<Created, cache, destroyed>>
    BY <1>7 DEF CtxRetire, NotPassed, bridges, Created, mDisposal!Move
  <2>3. \/ mDequeDisposal' = mDequeDisposal \o <<x>> /\ UNCHANGED newBridges
        \/ newBridges' = Append(newBridges, x) /\ UNCHANGED mDequeDisposal
    BY <1>7, Zenon DEF CtxRetire, mDisposal!Move
  <2> HIDE DEF x, r
  <2>4. Append(newBridges, x) = newBridges \o <<x>>
    BY <1>1, <2>1
  <2>5. JoinsOne(r, x) /\ JoinsOne(mDequeDisposal, x) /\ JoinsOne(newBridges, x)
    BY <1>1, <1>3, <2>1, Zenon
  <2>6. /\ Elements(NotPassed) = Elements(r) \cup {x}
        /\ NoDuplicates(NotPassed) <=> NoDuplicates(r) /\ x \notin Elements(r)
    BY <2>1, <2>5 DEF JoinsOne
  <2>7. CASE mDequeDisposal' = mDequeDisposal \o <<x>> /\ UNCHANGED newBridges
    <3>1. /\ Elements(mDequeDisposal') = Elements(mDequeDisposal) \cup {x}
          /\ NoDuplicates(mDequeDisposal') <=>
               NoDuplicates(mDequeDisposal) /\ x \notin Elements(mDequeDisposal)
      BY <2>5, <2>7 DEF JoinsOne
    <3> QED
      BY <2>2, <2>6, <2>7, <3>1 DEF PlacesOK
  <2>8. CASE newBridges' = Append(newBridges, x) /\ UNCHANGED mDequeDisposal
    <3>1. /\ Elements(newBridges') = Elements(newBridges) \cup {x}
          /\ NoDuplicates(newBridges') <=>
               NoDuplicates(newBridges) /\ x \notin Elements(newBridges)
      BY <2>4, <2>5, <2>8 DEF JoinsOne
    <3> QED
      BY <2>2, <2>6, <2>8, <3>1 DEF PlacesOK
  <2> QED
    BY <2>3, <2>7, <2>8
<1>8. CASE CtxReplace
  <2>1. NotPassed = <<>>
    BY <1>8, NotPassedMeans, Zenon DEF CtxReplace
  <2>2. NotPassed' = newBridges /\ newBridges' = <<>>
    BY <1>1, <1>8 DEF CtxReplace, NotPassed
  <2>3. UNCHANGED <<Created, mDequeDisposal, cache, destroyed>>
    BY <1>8, Zenon DEF CtxReplace, bridges, Created
  <2> QED
    BY <1>4, <2>1, <2>2, <2>3 DEF PlacesOK
<1>9. CASE DisposalCopy
  <2>1. cache' = cache \o mDequeDisposal /\ mDequeDisposal' = <<>>
    BY <1>9, Zenon DEF DisposalCopy, mDisposal!Copy
  <2>2. UNCHANGED <<Created, NotPassed, newBridges, destroyed>>
    BY <1>9, Zenon DEF DisposalCopy, mDisposal!Copy, bridges, Created, NotPassed
  <2>3. Joins(cache, mDequeDisposal)
    BY <1>1, <1>2, Zenon
  <2> QED
    BY <1>4, <2>1, <2>2, <2>3 DEF PlacesOK, Joins
<1>10. CASE DestroyDelete
  <2> DEFINE h == Head(cache)
             t == Tail(cache)
  <2>1. h \in Bridge /\ t \in Seq(Bridge) /\ cache # <<>>
    BY <1>10, HeadOfCache DEF DestroyDelete
  <2>2. cache = <<h>> \o t /\ Append(destroyed, h) = destroyed \o <<h>>
    <3>1. cache = <<h>> \o t
      BY <1>1, <2>1, HeadAndTail, Zenon
    <3> HIDE DEF h, t
    <3>2. Append(destroyed, h) = destroyed \o <<h>>
      BY <1>1, <2>1
    <3> QED
      BY <3>1, <3>2
  <2>3. destroyed' = Append(destroyed, h) /\ cache' = t
    BY <1>10, Zenon DEF DestroyDelete, mDisposal!Destroyed
  <2>4. Created' = Created
    BY <1>10, CreatedStays DEF CtxGet, DestroyDelete
  <2>5. UNCHANGED <<NotPassed, newBridges, mDequeDisposal>>
    BY <1>10, Zenon DEF DestroyDelete, mDisposal!Destroyed, NotPassed
  <2> HIDE DEF h, t
  <2>6. JoinsOne(t, h) /\ JoinsOne(destroyed, h)
    BY <1>1, <1>3, <2>1, Zenon
  <2> QED
    BY <2>2, <2>3, <2>4, <2>5, <2>6 DEF PlacesOK, JoinsOne
<1>11. CASE UNCHANGED <<Created, NotPassed, newBridges, mDequeDisposal, cache, destroyed>>
  BY <1>11, Zenon DEF PlacesOK
<1>12. CASE ~Works \/ DestroyCheck
  <2>1. UNCHANGED <<NotPassed, newBridges, mDequeDisposal, cache, destroyed>>
    <3>1. CASE ~Works
      BY <3>1, QueueFrame, Zenon DEF NotPassed
    <3>2. CASE DestroyCheck
      BY <3>2, Zenon DEF DestroyCheck, NotPassed
    <3> QED
      BY <1>12, <3>1, <3>2
  <2>2. Created' = Created
    <3>1. CASE ~Works
      BY <3>1, CreatedStays, Zenon DEF Works
    <3>2. CASE DestroyCheck
      BY <3>2, Zenon DEF DestroyCheck, Life!Tell, bridges, Created
    <3> QED
      BY <1>12, <3>1, <3>2
  <2> QED
    BY <1>11, <2>1, <2>2, Zenon
<1> QED
  BY <1>5, <1>6, <1>7, <1>8, <1>9, <1>10, <1>12, Zenon DEF Works

(* Each step keeps what a bridge's life cycle says of its place and of what  *)
(* it holds.                                                                 *)
LEMMA BridgesStep ==
    ASSUME BridgeTypes, QueueTypes, ListsOK, PlacesOK, BridgesOK, [Next]_vars
    PROVE  BridgesOK'
<1> USE DEF BridgesOK, bridges, disposal
<1>1. CASE CtxGet
  <2>1. UNCHANGED destroyed
    BY <1>1, Zenon DEF CtxGet
  <2>2. CASE tcpPhase = "Running"
    <3>1. PICK s \in Seq(Bridge) :
             /\ Elements(s) \cap Created = {}
             /\ \A b \in Bridge :
                  /\ bridge'[b] = IF b \in Elements(s) THEN "starting" ELSE bridge[b]
                  /\ holds'[b] = IF b \in Elements(s) THEN {"tcp"} ELSE holds[b]
      BY <1>1, <2>2, CtxGetMeans, Zenon
    <3>2. Elements(destroyed) \subseteq Created
      BY Zenon DEF PlacesOK
    <3> QED
      BY <2>1, <3>1, <3>2
  <2>3. CASE tcpPhase # "Running"
    BY <1>1, <2>1, <2>3 DEF CtxGet
  <2> QED
    BY <2>2, <2>3
<1>2. CASE DestroyDelete
  <2> DEFINE h == Head(cache)
  <2>1. h \in Bridge /\ destroyed \in Seq(Bridge)
    BY <1>2, HeadOfCache DEF DestroyDelete, QueueTypes
  <2>2. Append(destroyed, h) = destroyed \o <<h>>
    BY <2>1
  <2>3. JoinsOne(destroyed, h)
    BY <2>1, JoiningOne, Zenon
  <2>4. /\ bridge[h] = "stopped" /\ bridge' = [bridge EXCEPT ![h] = "deleted"]
        /\ destroyed' = Append(destroyed, h) /\ UNCHANGED holds
    BY <1>2, Zenon DEF DestroyDelete, Life!Delete, mDisposal!Destroyed
  <2> HIDE DEF h
  <2> QED
    BY <2>1, <2>2, <2>3, <2>4 DEF JoinsOne, BridgeTypes
<1>3. ASSUME NEW b \in Bridge, BridgeStep(b) \/ BridgeLosesSide(b) \/ GnsInstanceWorks(b)
      PROVE  BridgesOK'
  <2>1. UNCHANGED destroyed
    BY <1>3, BridgeFrame, Zenon
  <2> QED
    BY <1>3, <2>1 DEF BridgeStep, BridgeConnect, BridgeStop, BridgeReturns, BridgeStopped,
       BridgeLosesSide, GnsInstanceWorks, Life!Connect, Life!Stop, Life!ReturnTcp,
       Life!ReturnGns, Life!End, Life!Tell, BridgeTypes
<1>4. CASE UNCHANGED <<bridge, holds, destroyed>>
  BY <1>4
<1>5. CASE CtxRetire \/ CtxReplace \/ MoveInstances \/ DisposalCopy \/ DestroyCheck
  BY <1>4, <1>5, Zenon DEF CtxRetire, CtxReplace, MoveInstances, DisposalCopy, DestroyCheck,
     bridges, Life!Tell, mDisposal!Move, mDisposal!Copy
<1>6. CASE ~Works /\ UNCHANGED bridges
  BY <1>4, <1>6, QueueFrame, Zenon
<1> QED
  BY <1>1, <1>2, <1>3, <1>5, <1>6, QueueFrame, Zenon DEF Works

-----------------------------------------------------------------------------
(* What can end the process *)

(* A bridge that works when a factory no longer runs was left behind: the    *)
(* worker that made it, and the disposal thread, have gone before.           *)
LEMMA WorksAfterAll ==
    ASSUME Inv, NEW b \in Bridge, bridge[b] \in {"starting", "running", "stopping"},
           tcpPhase # "Running" \/ gnsPhase # "Running"
    PROVE  LeftBehind # {}
<1>1. ControlTypes /\ QueueTypes
  BY TypeParts DEF Inv
<1>2. b \in Created /\ b \notin Elements(destroyed)
  BY DEF Created, Inv, BridgesOK
<1>3. ctxPc # "none"
  BY <1>2 DEF Inv, ListsOK
<1>4. teardownPc \in {"waitTcp", "waitGns", "done"}
  BY <1>3 DEF Inv, FactoriesOK
<1>5. ctxPc = "exited"
  BY <1>3, <1>4 DEF Inv, ThreadsOK
<1>6. tdDisposal = "exited"
  BY <1>3, <1>4 DEF Inv, ThreadsOK
<1>7. cache = <<>> /\ newBridges = <<>> /\ mInstances = <<>> /\ next = 1
  BY <1>4, <1>5, <1>6 DEF Inv, ListsOK
<1>8. NotPassed = <<>>
  BY <1>1, <1>7, NotPassedMeans
<1>9. Elements(<<>>) = {}
  BY ElementsOfSmall, Zenon
<1>10. b \in Elements(mDequeDisposal)
  BY <1>2, <1>7, <1>8, <1>9 DEF Inv, PlacesOK
<1> QED
  BY <1>6, <1>10 DEF LeftBehind

(* CtxWorker asks for connections only while the factory of them runs. *)
LEMMA GetsInWorkTime == Inv /\ ctxPc = "get" => tcpPhase = "Running"
BY TypeParts DEF Inv, ControlTypes, FactoriesOK, ThreadsOK

(* Each step keeps that only a bridge left behind ends the process. *)
LEMMA FatalStep == ASSUME Inv, [Next]_vars PROVE FatalOnlyFromLeftBehind'
<1> USE DEF FatalOnlyFromLeftBehind, Alive
<1>1. CASE UNCHANGED vars
  BY <1>1 DEF vars, disposal, LeftBehind, Inv
<1>2. CASE fatal' = FALSE
  BY <1>2
<1>3. CASE CtxGet
  BY <1>2, <1>3, GetsInWorkTime DEF CtxGet, Inv, TypeOK
<1>4. ASSUME NEW b \in Bridge, BridgeStep(b) \/ BridgeLosesSide(b) \/ GnsInstanceWorks(b)
      PROVE  FatalOnlyFromLeftBehind'
  <2>1. UNCHANGED LeftBehind
    BY <1>4, BridgeFrame, Zenon DEF LeftBehind, disposal
  <2>2. "gns" \in holds[b] => bridge[b] \in {"running", "stopping"}
    BY DEF Inv, BridgesOK
  <2>3. \/ fatal' = fatal /\ ~fatal
        \/ /\ bridge[b] \in {"starting", "running", "stopping"}
           /\ tcpPhase # "Running" \/ gnsPhase # "Running"
    BY <1>4, <2>2 DEF BridgeStep, BridgeConnect, BridgeStop, BridgeReturns, BridgeStopped,
       BridgeLosesSide, GnsInstanceWorks
  <2>4. CASE fatal' = fatal /\ ~fatal
    BY <2>4
  <2>5. CASE /\ bridge[b] \in {"starting", "running", "stopping"}
             /\ tcpPhase # "Running" \/ gnsPhase # "Running"
    BY <2>1, <2>5, WorksAfterAll
  <2> QED
    BY <2>3, <2>4, <2>5
<1>5. CASE InitStep \/ StopStep
  <2>1. ~fatal /\ fatal' = fatal
    BY <1>5, Zenon DEF InitStep, InitBegin, InitFail, InitReady, InitStartCtx,
       InitStartDisposal, InitEnd, StopStep, StopBegin, JoinCtx, MoveInstances,
       StopDisposal, JoinDisposal, StopTcp, StopGns, TeardownEnd
  <2> QED
    BY <2>1
<1>6. CASE ReportBegin \/ ReportEnd \/ OrderStop \/ DisposalStep \/ TcpProgress \/ GnsProgress
  <2>1. ~fatal /\ fatal' = fatal
    BY <1>6, Zenon DEF ReportBegin, ReportEnd, OrderStop, DisposalStep, DisposalCopy,
       DisposalTest, DestroyCheck, DestroyDelete, TcpProgress, GnsProgress
  <2> QED
    BY <2>1
<1>7. CASE CtxTop \/ CtxLock \/ CtxRetire \/ CtxReplace
  <2>1. ~fatal /\ fatal' = fatal
    BY <1>7, Zenon DEF CtxTop, CtxLock, CtxRetire, CtxReplace
  <2> QED
    BY <2>1
<1> QED
  BY <1>1, <1>3, <1>4, <1>5, <1>6, <1>7, Zenon DEF Next, CtxStep, Terminated

-----------------------------------------------------------------------------
(* The theorems *)

(* The invariant holds at the start. *)
LEMMA InvInit == Init => Inv
<1> SUFFICES ASSUME Init PROVE Inv
  OBVIOUS
<1> USE DEF Init
<1>1. NewCore \in StateMachineCore
  BY DEF NewCore, StateMachineCore, States
<1>2. <<>> \in Seq(Bridge) /\ 1 \in 1..Len(<<>>) + 1
  OBVIOUS
<1>3. TypeOK
  <2>1. ControlTypes
    BY <1>1 DEF ControlTypes, PhaseSet, TcpLife!Init, GnsLife!Init, mDisposal!Init
  <2>2. BridgeTypes
    BY DEF BridgeTypes
  <2>3. QueueTypes
    BY <1>2 DEF QueueTypes, mDisposal!Init
  <2> QED
    BY <2>1, <2>2, <2>3, TypeParts
<1>4. Created = {}
  BY DEF Created
<1>5. ThreadsOK /\ FactoriesOK /\ ListsOK
  BY <1>4 DEF ThreadsOK, TeardownWorks, FactoriesOK, ListsOK, NewCore, mDisposal!Init
<1>6. Elements(<<>>) = {} /\ NoDuplicates(<<>>) /\ NotPassed = <<>>
  <2>1. SubSeq(<<>>, 1, Len(<<>>)) = <<>>
    OBVIOUS
  <2> QED
    BY <2>1, ElementsOfSmall, NoDuplicatesInSmall, Zenon DEF NotPassed
<1>7. PlacesOK
  BY <1>4, <1>6 DEF PlacesOK, mDisposal!Init
<1>8. BridgesOK
  BY <1>6 DEF BridgesOK, mDisposal!Init
<1>9. FatalOnlyFromLeftBehind
  BY DEF FatalOnlyFromLeftBehind
<1> QED
  BY <1>3, <1>5, <1>7, <1>8, <1>9, Zenon DEF Inv

(* The invariant holds always: it is inductive. *)
LEMMA Invariant == Spec => []Inv
<1>1. Inv /\ [Next]_vars => Inv'
  <2> SUFFICES ASSUME Inv, [Next]_vars PROVE Inv'
    OBVIOUS
  <2>1. /\ TypeOK /\ ThreadsOK /\ FactoriesOK /\ ListsOK /\ PlacesOK /\ BridgesOK
        /\ ControlTypes /\ BridgeTypes /\ QueueTypes
    BY TypeParts, Zenon DEF Inv
  <2>2. ControlTypes' /\ BridgeTypes' /\ QueueTypes'
    BY <2>1, ControlTypesStep, BridgeTypesStep, QueueTypesStep, Zenon
  <2>3. TypeOK'
    BY <2>2, TypeParts, PTL
  <2>4. ThreadsOK' /\ FactoriesOK' /\ ListsOK' /\ PlacesOK' /\ BridgesOK'
    BY <2>1, ThreadsStep, FactoriesStep, ListsStep, PlacesStep, BridgesStep, Zenon
  <2>5. FatalOnlyFromLeftBehind'
    BY FatalStep, Zenon
  <2> QED
    BY <2>3, <2>4, <2>5, Zenon DEF Inv
<1> QED
  BY InvInit, <1>1, PTL DEF Spec

(* Every variable of the factory and its disposal keeps its type. *)
THEOREM TypeCorrect == Spec => []TypeOK
<1>1. Inv => TypeOK
  BY Zenon DEF Inv
<1> QED
  BY <1>1, Invariant, PTL

(* Each bridge is in one place from its creation to its destruction, for any *)
(* number of them, also while CtxWorker's loop is between two lists.         *)
THEOREM OwnedOnceHolds == Spec => []OwnedOnce
<1>1. ASSUME Inv
      PROVE  OwnedOnce
  <2> DEFINE dc == destroyed \o cache
             m == dc \o mDequeDisposal
             mn == m \o NotPassed
  <2>1. /\ mDequeDisposal \in Seq(Bridge) /\ cache \in Seq(Bridge)
        /\ destroyed \in Seq(Bridge) /\ newBridges \in Seq(Bridge)
        /\ NotPassed \in Seq(Bridge)
    BY <1>1, TypeParts, NotPassedMeans, Zenon DEF Inv, QueueTypes
  <2>2. dc \in Seq(Bridge) /\ m \in Seq(Bridge) /\ mn \in Seq(Bridge)
    BY <2>1, ConcatLaws
  <2>3. /\ Joins(destroyed, cache) /\ Joins(dc, mDequeDisposal) /\ Joins(m, NotPassed)
        /\ Joins(mn, newBridges)
    BY <2>1, <2>2, Joining, Zenon
  <2>4. PlacesOK
    BY <1>1, Zenon DEF Inv
  <2> HIDE DEF dc, m, mn
  <2>5. NoDuplicates(mn \o newBridges) /\ Created = Elements(mn \o newBridges)
    BY <2>3, <2>4 DEF PlacesOK, Joins, dc, m, mn
  <2> QED
    BY <2>5, Zenon DEF OwnedOnce, mDisposal!Moved, dc, m, mn
<1> QED
  BY <1>1, Invariant, PTL

(* A report never asks a deleted bridge: while it holds the mutex the list   *)
(* is whole, and none of the list is destroyed.                              *)
THEOREM ReportsLiveBridgesHolds == Spec => []ReportsLiveBridges
<1>1. ASSUME Inv
      PROVE  ReportsLiveBridges
  <2>1. ListsOK /\ PlacesOK /\ BridgesOK /\ QueueTypes
    BY <1>1, TypeParts, Zenon DEF Inv
  <2>2. mainPc = "report" => NotPassed = mInstances
    BY <2>1, NotPassedMeans DEF ListsOK
  <2>3. Elements(mInstances) \subseteq Bridge
    BY <2>1 DEF QueueTypes, Elements
  <2> QED
    BY <2>1, <2>2, <2>3 DEF PlacesOK, BridgesOK, ReportsLiveBridges
<1> QED
  BY <1>1, Invariant, PTL

(* Nothing but a bridge left behind in the disposal's queue calls a factory  *)
(* out of its work time: the order in which InternalStop joins and stops     *)
(* rules out all else, for any number of bridges.                            *)
THEOREM FatalOnlyFromLeftBehindHolds == Spec => []FatalOnlyFromLeftBehind
<1>1. Inv => FatalOnlyFromLeftBehind
  BY Zenon DEF Inv
<1> QED
  BY <1>1, Invariant, PTL

=============================================================================
