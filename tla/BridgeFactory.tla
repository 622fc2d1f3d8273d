--------------------------- MODULE BridgeFactory ----------------------------
(***************************************************************************)
(* BridgeFactory, which makes a bridge of every accepted connection,       *)
(* retires the bridges that have stopped, and takes the program down: its  *)
(* own threads, its DisposalHelper, the thread of MainWorker, the bridges  *)
(* and the two factories.  A factory is what Lifecycle promises, a bridge  *)
(* what BridgeLife promises; both proceed at any time.  Indices are as in  *)
(* TcpFactory and left out here.                                           *)
(*                                                                         *)
(* A factory that is asked for work while it does not run calls            *)
(* FatalError, which ends the process.                                     *)
(***************************************************************************)
EXTENDS StateMachine, Queues

CONSTANT MaxBridges  \* bound: connections accepted

ASSUME BridgesAssumption == MaxBridges \in Nat

Bridge == 1..MaxBridges  \* in the order in which they are created

VARIABLES core, stopOrdered,
          mainPc,         \* MainWorker: polling, in ReportStatus, or done
          initPc, teardownPc,
          ctxPc, ctxStop, \* mTdCtx
          mInstances, next,        \* next is where CtxWorker's loop over them is
          newBridges,              \* the cache of CtxWorker
          bridge, told, holds,     \* the bridges: see BridgeLife
          destroyPc,      \* where the lambda given to mDisposal.Start is
          mDequeDisposal, cache, tdDisposal, stopRequested, destroyed,
          tcpPhase, tcpStop, gnsPhase, gnsStop,  \* the two factories
          fatal           \* FatalError was called

mDisposal == INSTANCE DisposalHelper WITH Item <- Bridge
Life == INSTANCE BridgeLife
TcpLife == INSTANCE Lifecycle WITH phase <- tcpPhase
GnsLife == INSTANCE Lifecycle WITH phase <- gnsPhase

disposal == <<mDequeDisposal, cache, tdDisposal, stopRequested, destroyed>>
life == <<core, stopOrdered, initPc, teardownPc>>
ctx == <<ctxPc, ctxStop>>
lists == <<mInstances, next, newBridges>>
bridges == <<bridge, told, holds>>
factories == <<tcpPhase, tcpStop, gnsPhase, gnsStop>>
vars == <<life, mainPc, ctx, lists, bridges, destroyPc, disposal, factories, fatal>>

Created == {b \in Bridge : bridge[b] # "none"}

PhaseSet == {"Ready", "Initializing", "Running", "Stopping", "Stopped"}

TypeOK ==
    /\ core \in StateMachineCore
    /\ {stopOrdered, ctxStop, tcpStop, gnsStop, fatal} \subseteq BOOLEAN
    /\ mainPc \in {"polling", "report", "done"}
    /\ initPc \in {"spawned", "waiting", "failing", "startCtx", "startDisposal",
                   "end", "done"}
    /\ teardownPc \in {"none", "joinCtx", "move", "requestStop", "joinDisposal",
                       "tcp", "waitTcp", "waitGns", "done"}
    /\ ctxPc \in {"none", "top", "get", "lock", "merge", "exited"}
    /\ {mInstances, newBridges} \subseteq Seq(Bridge) /\ next \in 1..Len(mInstances) + 1
    /\ bridge \in [Bridge -> {"none", "starting", "running", "stopping", "stopped",
                              "deleted"}]
    /\ told \subseteq Bridge
    /\ holds \in [Bridge -> SUBSET {"tcp", "gns"}]
    /\ destroyPc \in {"check", "spin"}
    /\ mDisposal!TypeOK
    /\ {tcpPhase, gnsPhase} \subseteq PhaseSet

Init ==
    /\ core = NewCore /\ stopOrdered = FALSE /\ mainPc = "polling"
    /\ initPc = "spawned" /\ teardownPc = "none"
    /\ ctxPc = "none" /\ ctxStop = FALSE
    /\ mInstances = <<>> /\ next = 1 /\ newBridges = <<>>
    /\ bridge = [b \in Bridge |-> "none"] /\ told = {}
    /\ holds = [b \in Bridge |-> {}]
    /\ destroyPc = "check" /\ mDisposal!Init
    /\ TcpLife!Init /\ tcpStop = FALSE /\ GnsLife!Init /\ gnsStop = FALSE
    /\ fatal = FALSE

\* A step that does not end the process.
Alive == ~fatal /\ UNCHANGED fatal

-----------------------------------------------------------------------------
(* The constructor's thread *)

InitBegin ==
    /\ initPc = "spawned" /\ MayDecide(core)
    /\ IF MayInitialize(core)
       THEN initPc' = "waiting" /\ core' = BeginInitializing(core)
       ELSE initPc' = "done" /\ UNCHANGED core
    /\ UNCHANGED <<stopOrdered, teardownPc, mainPc, ctx, lists, bridges, destroyPc,
                   disposal, factories>> /\ Alive

\* A factory has stopped, or MODULE_WAITING_INTERVAL is over: InternalStop.
InitFail ==
    /\ initPc = "waiting" /\ initPc' = "failing"
    /\ {tcpPhase, gnsPhase} # {"Running"}
    /\ teardownPc' = "joinCtx"
    /\ ctxStop' = (ctxPc # "none")
    /\ UNCHANGED <<core, stopOrdered, mainPc, ctxPc, lists, bridges, destroyPc,
                   disposal, factories>> /\ Alive

InitReady ==
    /\ initPc = "waiting" /\ initPc' = "startCtx"
    /\ {tcpPhase, gnsPhase} = {"Running"}
    /\ UNCHANGED <<core, stopOrdered, teardownPc, mainPc, ctx, lists, bridges,
                   destroyPc, disposal, factories>> /\ Alive

InitStartCtx ==
    /\ initPc = "startCtx" /\ initPc' = "startDisposal"
    /\ ctxPc' = "top"
    /\ UNCHANGED <<core, stopOrdered, teardownPc, mainPc, ctxStop, lists, bridges,
                   destroyPc, disposal, factories>> /\ Alive

InitStartDisposal ==
    /\ initPc = "startDisposal" /\ initPc' = "end"
    /\ mDisposal!Start
    /\ UNCHANGED <<core, stopOrdered, teardownPc, mainPc, ctx, lists, bridges,
                   destroyPc, factories>> /\ Alive

InitEnd ==
    /\ initPc = "end" /\ initPc' = "done"
    /\ core' = EndInitializing(core, FALSE)
    /\ UNCHANGED <<stopOrdered, teardownPc, mainPc, ctx, lists, bridges, destroyPc,
                   disposal, factories>> /\ Alive

InitStep == InitBegin \/ InitFail \/ InitReady \/ InitStartCtx \/ InitStartDisposal
            \/ InitEnd

-----------------------------------------------------------------------------
(* MainWorker *)

\* ReportStatus takes mInstancesMutex, asks each bridge, and leaves it.
ReportBegin ==
    /\ mainPc = "polling" /\ mainPc' = "report"
    /\ ctxPc # "merge"
    /\ UNCHANGED <<life, ctx, lists, bridges, destroyPc, disposal, factories>> /\ Alive

ReportEnd ==
    /\ mainPc = "report" /\ mainPc' = "polling"
    /\ UNCHANGED <<life, ctx, lists, bridges, destroyPc, disposal, factories>> /\ Alive

\* factory.Stop(), and no further call but SpinUntil.
OrderStop ==
    /\ mainPc = "polling" /\ mainPc' = "done"
    /\ stopOrdered' = TRUE
    /\ UNCHANGED <<core, initPc, teardownPc, ctx, lists, bridges, destroyPc, disposal,
                   factories>> /\ Alive

-----------------------------------------------------------------------------
(* Stop() and InternalStop() *)

StopBegin ==
    /\ stopOrdered /\ teardownPc = "none" /\ teardownPc' = "joinCtx"
    /\ MayDecide(core) /\ MayStop(core)
    /\ core' = BeginStopping(core)
    /\ ctxStop' = (ctxPc # "none")
    /\ UNCHANGED <<stopOrdered, initPc, mainPc, ctxPc, lists, bridges, destroyPc,
                   disposal, factories>> /\ Alive

JoinCtx ==
    /\ teardownPc = "joinCtx" /\ teardownPc' = "move"
    /\ ctxPc \in {"none", "exited"}
    /\ UNCHANGED <<core, stopOrdered, initPc, mainPc, ctx, lists, bridges, destroyPc,
                   disposal, factories>> /\ Alive

\* Under mInstancesMutex.
MoveInstances ==
    /\ teardownPc = "move" /\ teardownPc' = "requestStop"
    /\ mainPc # "report" /\ ctxPc # "merge"
    /\ mDisposal!Move(mInstances)
    /\ mInstances' = <<>>
    /\ UNCHANGED <<core, stopOrdered, initPc, mainPc, ctx, next, newBridges, bridges,
                   destroyPc, factories>> /\ Alive

StopDisposal ==
    /\ teardownPc = "requestStop" /\ teardownPc' = "joinDisposal"
    /\ mDisposal!RequestStop
    /\ UNCHANGED <<core, stopOrdered, initPc, mainPc, ctx, lists, bridges, destroyPc,
                   factories>> /\ Alive

\* Slip: the disposal is asked to stop and not joined.
JoinDisposalNot ==
    /\ teardownPc = "joinDisposal" /\ teardownPc' = "tcp"
    /\ UNCHANGED <<core, stopOrdered, initPc, mainPc, ctx, lists, bridges, destroyPc,
                   disposal, factories>> /\ Alive

JoinDisposal ==
    /\ teardownPc = "joinDisposal" /\ teardownPc' = "tcp"
    /\ mDisposal!Joined
    /\ UNCHANGED <<core, stopOrdered, initPc, mainPc, ctx, lists, bridges, destroyPc,
                   disposal, factories>> /\ Alive

StopTcp ==
    /\ teardownPc = "tcp" /\ teardownPc' = "waitTcp"
    /\ tcpStop' = TRUE
    /\ UNCHANGED <<core, stopOrdered, initPc, mainPc, ctx, lists, bridges, destroyPc,
                   disposal, tcpPhase, gnsPhase, gnsStop>> /\ Alive

\* Slip: the GNS factory is never told to stop.
StopGnsNot ==
    /\ teardownPc = "waitTcp" /\ teardownPc' = "waitGns"
    /\ tcpPhase = "Stopped"
    /\ UNCHANGED <<core, stopOrdered, initPc, mainPc, ctx, lists, bridges, destroyPc,
                   disposal, factories>> /\ Alive

\* SpinUntil(Stopped), then mGnsFactory.Stop().
StopGns ==
    /\ teardownPc = "waitTcp" /\ teardownPc' = "waitGns"
    /\ tcpPhase = "Stopped"
    /\ gnsStop' = TRUE
    /\ UNCHANGED <<core, stopOrdered, initPc, mainPc, ctx, lists, bridges, destroyPc,
                   disposal, tcpPhase, tcpStop, gnsPhase>> /\ Alive

\* SpinUntil(Stopped); the transition that ran InternalStop ends.
TeardownEnd ==
    /\ teardownPc = "waitGns" /\ teardownPc' = "done"
    /\ gnsPhase = "Stopped"
    /\ \/ initPc = "failing" /\ initPc' = "done" /\ core' = EndInitializing(core, TRUE)
       \/ initPc # "failing" /\ core' = EndStopping(core) /\ UNCHANGED initPc
    /\ UNCHANGED <<stopOrdered, mainPc, ctx, lists, bridges, destroyPc, disposal,
                   factories>> /\ Alive

StopStep == StopBegin \/ JoinCtx \/ MoveInstances \/ StopDisposal \/ JoinDisposal
            \/ StopTcp \/ StopGns \/ TeardownEnd

-----------------------------------------------------------------------------
(* CtxWorker *)

CtxTop ==
    /\ ctxPc = "top"
    /\ \/ ctxStop /\ ctxPc' = "exited"
       \/ ~ctxStop /\ IsInState(core, "Running") /\ ctxPc' = "get"
    /\ UNCHANGED <<life, mainPc, ctxStop, lists, bridges, destroyPc, disposal,
                   factories>> /\ Alive

\* mTcpFactory.GetConnections, and a new bridge for each connection.
CtxGet ==
    /\ ~fatal
    /\ ctxPc = "get" /\ ctxPc' = "lock"
    /\ IF tcpPhase # "Running"
       THEN fatal' = TRUE /\ UNCHANGED <<bridges, newBridges>>
       ELSE \E n, m \in 0..MaxBridges :
              /\ Created = 1..n /\ n <= m
              /\ Life!Create(n + 1..m)
              /\ newBridges' = newBridges \o Following(n, m)
              /\ UNCHANGED fatal
    /\ UNCHANGED <<life, mainPc, ctxStop, mInstances, next, destroyPc, disposal, factories>>

\* Slip: CtxWorker does not take mInstancesMutex.
CtxLockNot ==
    /\ ctxPc = "lock" /\ ctxPc' = "merge"
    /\ UNCHANGED <<life, mainPc, ctxStop, lists, bridges, destroyPc, disposal,
                   factories>> /\ Alive

CtxLock ==
    /\ ctxPc = "lock" /\ ctxPc' = "merge"
    /\ mainPc # "report"
    /\ UNCHANGED <<life, mainPc, ctxStop, lists, bridges, destroyPc, disposal,
                   factories>> /\ Alive

\* Slips: a bridge stays in the list although it is disposed of, or although it
\* has stopped.
CtxRetireKeep ==
    /\ ctxPc = "merge" /\ next <= Len(mInstances) /\ next' = next + 1
    /\ newBridges' = Append(newBridges, mInstances[next])
    /\ IF bridge[mInstances[next]] = "stopped"
       THEN mDisposal!Move(<<mInstances[next]>>)
       ELSE UNCHANGED disposal
    /\ UNCHANGED <<life, mainPc, ctx, mInstances, bridges, destroyPc, factories>> /\ Alive
CtxRetireNone ==
    /\ ctxPc = "merge" /\ next <= Len(mInstances) /\ next' = next + 1
    /\ newBridges' = Append(newBridges, mInstances[next])
    /\ UNCHANGED <<life, mainPc, ctx, mInstances, bridges, destroyPc, disposal,
                   factories>> /\ Alive

\* The next old bridge, under the mutex: into the disposal if it has stopped.
CtxRetire ==
    /\ ctxPc = "merge" /\ next <= Len(mInstances) /\ next' = next + 1
    /\ IF bridge[mInstances[next]] = "stopped"
       THEN mDisposal!Move(<<mInstances[next]>>) /\ UNCHANGED newBridges
       ELSE newBridges' = Append(newBridges, mInstances[next]) /\ UNCHANGED disposal
    /\ UNCHANGED <<life, mainPc, ctx, mInstances, bridges, destroyPc, factories>> /\ Alive

\* After the last one mInstances is replaced and the mutex left.
CtxReplace ==
    /\ ctxPc = "merge" /\ next > Len(mInstances) /\ ctxPc' = "top"
    /\ mInstances' = newBridges /\ next' = 1 /\ newBridges' = <<>>
    /\ UNCHANGED <<life, mainPc, ctxStop, bridges, destroyPc, disposal,
                   factories>> /\ Alive

CtxStep == CtxTop \/ CtxGet \/ CtxLock \/ CtxRetire \/ CtxReplace

-----------------------------------------------------------------------------
(* The disposal thread *)

DisposalCopy ==
    /\ mDisposal!Copy
    /\ UNCHANGED <<life, mainPc, ctx, lists, bridges, destroyPc, factories>> /\ Alive

DisposalTest ==
    /\ mDisposal!Test
    /\ UNCHANGED <<life, mainPc, ctx, lists, bridges, destroyPc, factories>> /\ Alive

\* if (!IsInState(Stopped)) instance->Stop();
DestroyCheck ==
    /\ tdDisposal = "destroy" /\ destroyPc = "check" /\ destroyPc' = "spin"
    /\ \/ bridge[Head(cache)] = "stopped" /\ UNCHANGED bridges
       \/ bridge[Head(cache)] # "stopped" /\ Life!Tell(Head(cache))
    /\ UNCHANGED <<life, mainPc, ctx, lists, disposal, factories>> /\ Alive

\* SpinUntil(Stopped), and delete.
DestroyDelete ==
    /\ tdDisposal = "destroy" /\ destroyPc = "spin" /\ destroyPc' = "check"
    /\ Life!Delete(Head(cache))
    /\ mDisposal!Destroyed
    /\ UNCHANGED <<life, mainPc, ctx, lists, factories>> /\ Alive

DisposalStep == DisposalCopy \/ DisposalTest \/ DestroyCheck \/ DestroyDelete

-----------------------------------------------------------------------------
(* The bridges (BridgeInstance) and the factories *)

\* The URL is there: mGnsFactory.GetConnections.
BridgeConnect(b) ==
    /\ ~fatal
    /\ bridge[b] = "starting"
    /\ IF gnsPhase # "Running" THEN fatal' = TRUE /\ UNCHANGED bridges
       ELSE Life!Connect(b) /\ UNCHANGED fatal
    /\ UNCHANGED <<life, mainPc, ctx, lists, destroyPc, disposal, factories>>

\* InternalStop begins: no URL came, or a Stop() is granted.
BridgeStop(b) ==
    /\ Life!Stop(b)
    /\ UNCHANGED <<life, mainPc, ctx, lists, destroyPc, disposal, factories>> /\ Alive

\* One of its sides has stopped.
BridgeLosesSide(b) ==
    /\ bridge[b] = "running" /\ b \notin told
    /\ Life!Tell(b)
    /\ UNCHANGED <<life, mainPc, ctx, lists, destroyPc, disposal, factories>> /\ Alive

\* ReturnConnections of the TCP, then of the GNS factory.
BridgeReturns(b) ==
    /\ ~fatal
    /\ bridge[b] = "stopping"
    /\ \/ /\ "tcp" \in holds[b]
          /\ IF tcpPhase # "Running" THEN fatal' = TRUE /\ UNCHANGED bridges
             ELSE Life!ReturnTcp(b) /\ UNCHANGED fatal
       \/ /\ holds[b] = {"gns"}
          /\ IF gnsPhase # "Running" THEN fatal' = TRUE /\ UNCHANGED bridges
             ELSE Life!ReturnGns(b) /\ UNCHANGED fatal
    /\ UNCHANGED <<life, mainPc, ctx, lists, destroyPc, disposal, factories>>

BridgeStopped(b) ==
    /\ Life!End(b)
    /\ UNCHANGED <<life, mainPc, ctx, lists, destroyPc, disposal, factories>> /\ Alive

\* The worker of a GNS instance that is connected calls GetGnsSockets.
GnsInstanceWorks(b) ==
    /\ ~fatal
    /\ "gns" \in holds[b] /\ gnsPhase # "Running"
    /\ fatal' = TRUE
    /\ UNCHANGED <<life, mainPc, ctx, lists, bridges, destroyPc, disposal, factories>>

BridgeStep(b) == BridgeConnect(b) \/ BridgeStop(b) \/ BridgeReturns(b)
                 \/ BridgeStopped(b)

TcpProgress ==
    /\ \/ TcpLife!BeginInitializing
       \/ TcpLife!EndInitializing
       \/ tcpStop /\ TcpLife!BeginStopping
       \/ TcpLife!EndStopping
    /\ UNCHANGED <<life, mainPc, ctx, lists, bridges, destroyPc, disposal, tcpStop,
                   gnsPhase, gnsStop>> /\ Alive

GnsProgress ==
    /\ \/ GnsLife!BeginInitializing
       \/ GnsLife!EndInitializing
       \/ gnsStop /\ GnsLife!BeginStopping
       \/ GnsLife!EndStopping
    /\ UNCHANGED <<life, mainPc, ctx, lists, bridges, destroyPc, disposal, tcpPhase,
                   tcpStop, gnsStop>> /\ Alive

-----------------------------------------------------------------------------
\* The factory has stopped, or the process is gone.
Terminated ==
    /\ fatal \/ (IsInState(core, "Stopped") /\ initPc = "done")
    /\ UNCHANGED vars

Next ==
    \/ InitStep \/ ReportBegin \/ ReportEnd \/ OrderStop \/ StopStep
    \/ CtxStep \/ DisposalStep
    \/ \E b \in Bridge : BridgeStep(b) \/ BridgeLosesSide(b) \/ GnsInstanceWorks(b)
    \/ TcpProgress \/ GnsProgress
    \/ Terminated

Spec == Init /\ [][Next]_vars

\* Threads run, the timeouts among them; a factory's transition ends and one
\* that is told to stop does; a bridge that starts ends its start, and one that
\* is told to stop does (BridgeInstance, StopCompletes).  CtxWorker gets the
\* mutex in the end, as MainWorker sleeps half a second between two reports.
Fairness ==
    /\ WF_vars(InitStep) /\ WF_vars(StopStep) /\ WF_vars(DisposalStep)
    /\ WF_vars(CtxTop \/ CtxGet \/ CtxRetire \/ CtxReplace) /\ SF_vars(CtxLock)
    /\ WF_vars(ReportEnd)
    /\ \A b \in Bridge : WF_vars(BridgeStep(b))
    /\ WF_vars(TcpProgress) /\ WF_vars(GnsProgress)

FairSpec == Spec /\ Fairness

-----------------------------------------------------------------------------
(* What lies in mDequeDisposal once the disposal worker has left.            *)
LeftBehind == IF tdDisposal = "exited" THEN Elements(mDequeDisposal) ELSE {}

\* What CtxWorker has not passed of mInstances.
NotPassed == SubSeq(mInstances, next, Len(mInstances))

(* Every bridge is in one place from its creation to its destruction: the    *)
(* worker's cache, what it has not passed of mInstances, or the disposal,    *)
(* and once only (InternalStop, CtxWorker).                                  *)
OwnedOnce ==
    LET all == mDisposal!Moved \o NotPassed \o newBridges
    IN NoDuplicates(all) /\ Created = Elements(all)

(* ReportStatus, which runs next to CtxWorker and to the disposal thread,    *)
(* never asks a deleted bridge: mInstancesMutex keeps it out from the first  *)
(* bridge that CtxWorker gives away to the replacement of the list.          *)
ReportsLiveBridges ==
    mainPc = "report" => \A b \in Elements(mInstances) : bridge[b] # "deleted"

(* The order of InternalStop and the state machines keep every call to a     *)
(* factory inside its work time; only a bridge left behind can break it.     *)
FatalOnlyFromLeftBehind == fatal => LeftBehind # {}

(* A bridge that has stopped is deleted, unless all is over.                 *)
StoppedIsRetired ==
    \A b \in Bridge :
        bridge[b] = "stopped"
            ~> bridge[b] = "deleted" \/ IsInState(core, "Stopped") \/ fatal

(* A Stop() takes the program down, also while the factory still waits for   *)
(* the other two, however the bridges and factories go on meanwhile.         *)
StopCompletes == stopOrdered ~> IsInState(core, "Stopped") \/ fatal

(* tcp_factory.cpp:83, gns_factory.cpp:152 and their likes assert it with a  *)
(* FatalError: no factory is called out of its work time.                    *)
NeverOutOfWorkTime == ~fatal

=============================================================================
