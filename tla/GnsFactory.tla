----------------------------- MODULE GnsFactory ------------------------------
(***************************************************************************)
(* GnsFactory around one GnsInstance, which is the one of that module in   *)
(* all its detail.  The factory brings up the library, runs the poll       *)
(* thread that dispatches the callbacks, makes the instance, takes it back *)
(* and destroys it on its disposal thread, and kills the library.          *)
(*                                                                         *)
(* The user is the bridge: it has the instance stopped before it returns   *)
(* it (BridgeInstance, ReturnsEachStopped), and BridgeFactory stops the    *)
(* factory only after that.  Indices are as in TcpFactory and left out.    *)
(***************************************************************************)
EXTENDS GnsInstance

VARIABLES factoryCore, factoryStopOrdered, factoryInitPc, factoryStopPc,
          steam,          \* GameNetworkingSockets: "down", "up" or "killed"
          mGnsSockets,    \* "null" or "sockets"
          mTdPoll, pollStop,
          place,          \* of the instance: "none", "bridge", "returned", "deleted"
          destroyPc,      \* where the lambda given to mDisposal.Start is
          mDequeDisposal, cache, tdDisposal, stopRequested, destroyed,
          fatal           \* FatalError was called

mDisposal == INSTANCE DisposalHelper WITH Item <- {"instance"}

disposal == <<mDequeDisposal, cache, tdDisposal, stopRequested, destroyed>>
poll == <<mTdPoll, pollStop>>
factoryLife == <<factoryCore, factoryStopOrdered, factoryInitPc, factoryStopPc>>
factory == <<factoryLife, steam, mGnsSockets, poll, place, destroyPc, disposal, fatal>>
allVars == <<vars, factory>>

FactoryTypeOK ==
    /\ TypeOK
    /\ factoryCore \in StateMachineCore
    /\ {factoryStopOrdered, pollStop, fatal} \subseteq BOOLEAN
    /\ factoryInitPc \in {"spawned", "library", "sockets", "disposal", "poll", "end",
                          "done"}
    /\ factoryStopPc \in {"none", "joinPoll", "sockets", "disposal", "joinDisposal",
                          "kill", "done"}
    /\ steam \in {"down", "up", "killed"} /\ mGnsSockets \in {"null", "sockets"}
    /\ mTdPoll \in {"none", "loop", "exited"}
    /\ place \in {"none", "bridge", "returned", "deleted"}
    /\ destroyPc \in {"check", "spin"}
    /\ mDisposal!TypeOK

FactoryInit ==
    /\ Init
    /\ factoryCore = NewCore /\ factoryStopOrdered = FALSE
    /\ factoryInitPc = "spawned" /\ factoryStopPc = "none"
    /\ steam = "down" /\ mGnsSockets = "null"
    /\ mTdPoll = "none" /\ pollStop = FALSE
    /\ place = "none" /\ destroyPc = "check" /\ mDisposal!Init
    /\ fatal = FALSE

-----------------------------------------------------------------------------
(* The constructor's thread *)

FactoryBegin ==
    /\ factoryInitPc = "spawned" /\ MayDecide(factoryCore)
    /\ IF MayInitialize(factoryCore)
       THEN factoryInitPc' = "library" /\ factoryCore' = BeginInitializing(factoryCore)
       ELSE factoryInitPc' = "done" /\ UNCHANGED factoryCore
    /\ UNCHANGED <<vars, factoryStopOrdered, factoryStopPc, steam, mGnsSockets, poll,
                   place, destroyPc, disposal, fatal>>

\* GameNetworkingSockets_Init; a failure is a FatalError.
FactoryInitLibrary ==
    /\ factoryInitPc = "library" /\ factoryInitPc' = "sockets"
    /\ \/ steam' = "up" /\ UNCHANGED fatal
       \/ fatal' = TRUE /\ UNCHANGED steam
    /\ UNCHANGED <<vars, factoryCore, factoryStopOrdered, factoryStopPc, mGnsSockets,
                   poll, place, destroyPc, disposal>>

\* The static pointers are free, as there is one factory; they and the callbacks
\* are set before anything can call them.
FactoryGetSockets ==
    /\ factoryInitPc = "sockets" /\ factoryInitPc' = "disposal"
    /\ mGnsSockets' = "sockets"
    /\ UNCHANGED <<vars, factoryCore, factoryStopOrdered, factoryStopPc, steam, poll,
                   place, destroyPc, disposal, fatal>>

FactoryStartDisposal ==
    /\ factoryInitPc = "disposal" /\ factoryInitPc' = "poll"
    /\ mDisposal!Start
    /\ UNCHANGED <<vars, factoryCore, factoryStopOrdered, factoryStopPc, steam,
                   mGnsSockets, poll, place, destroyPc, fatal>>

FactoryStartPoll ==
    /\ factoryInitPc = "poll" /\ factoryInitPc' = "end"
    /\ mTdPoll' = "loop"
    /\ UNCHANGED <<vars, factoryCore, factoryStopOrdered, factoryStopPc, steam,
                   mGnsSockets, pollStop, place, destroyPc, disposal, fatal>>

FactoryEnd ==
    /\ factoryInitPc = "end" /\ factoryInitPc' = "done"
    /\ factoryCore' = EndInitializing(factoryCore, FALSE)
    /\ UNCHANGED <<vars, factoryStopOrdered, factoryStopPc, steam, mGnsSockets, poll,
                   place, destroyPc, disposal, fatal>>

FactoryInitStep == FactoryBegin \/ FactoryInitLibrary \/ FactoryGetSockets
                   \/ FactoryStartDisposal \/ FactoryStartPoll \/ FactoryEnd

-----------------------------------------------------------------------------
(* Stop() *)

\* BridgeFactory::InternalStop, when no bridge is left.
FactoryOrderStop ==
    /\ ~factoryStopOrdered /\ factoryStopOrdered' = TRUE
    /\ place # "bridge"
    /\ UNCHANGED <<vars, factoryCore, factoryInitPc, factoryStopPc, steam, mGnsSockets,
                   poll, place, destroyPc, disposal, fatal>>

FactoryStopBegin ==
    /\ factoryStopOrdered /\ factoryStopPc = "none" /\ factoryStopPc' = "joinPoll"
    /\ MayDecide(factoryCore) /\ MayStop(factoryCore)
    /\ factoryCore' = BeginStopping(factoryCore)
    /\ pollStop' = (mTdPoll # "none")
    /\ UNCHANGED <<vars, factoryStopOrdered, factoryInitPc, steam, mGnsSockets, mTdPoll,
                   place, destroyPc, disposal, fatal>>

\* Slip: the poll thread is asked to stop and not joined.
FactoryJoinPollNot ==
    /\ factoryStopPc = "joinPoll" /\ factoryStopPc' = "sockets"
    /\ UNCHANGED <<vars, factoryCore, factoryStopOrdered, factoryInitPc, steam,
                   mGnsSockets, poll, place, destroyPc, disposal, fatal>>

FactoryJoinPoll ==
    /\ factoryStopPc = "joinPoll" /\ factoryStopPc' = "sockets"
    /\ mTdPoll # "loop"
    /\ UNCHANGED <<vars, factoryCore, factoryStopOrdered, factoryInitPc, steam,
                   mGnsSockets, poll, place, destroyPc, disposal, fatal>>

FactoryClearSockets ==
    /\ factoryStopPc = "sockets" /\ factoryStopPc' = "disposal"
    /\ mGnsSockets' = "null"
    /\ UNCHANGED <<vars, factoryCore, factoryStopOrdered, factoryInitPc, steam, poll,
                   place, destroyPc, disposal, fatal>>

FactoryStopDisposal ==
    /\ factoryStopPc = "disposal" /\ factoryStopPc' = "joinDisposal"
    /\ mDisposal!RequestStop
    /\ UNCHANGED <<vars, factoryCore, factoryStopOrdered, factoryInitPc, steam,
                   mGnsSockets, poll, place, destroyPc, fatal>>

FactoryJoinDisposal ==
    /\ factoryStopPc = "joinDisposal" /\ factoryStopPc' = "kill"
    /\ mDisposal!Joined
    /\ UNCHANGED <<vars, factoryCore, factoryStopOrdered, factoryInitPc, steam,
                   mGnsSockets, poll, place, destroyPc, disposal, fatal>>

\* GameNetworkingSockets_Kill, whether or not Init has run.
FactoryKill ==
    /\ factoryStopPc = "kill" /\ factoryStopPc' = "done"
    /\ steam' = "killed"
    /\ factoryCore' = EndStopping(factoryCore)
    /\ UNCHANGED <<vars, factoryStopOrdered, factoryInitPc, mGnsSockets, poll, place,
                   destroyPc, disposal, fatal>>

FactoryStopStep == FactoryStopBegin \/ FactoryJoinPoll \/ FactoryClearSockets
                   \/ FactoryStopDisposal \/ FactoryJoinDisposal \/ FactoryKill

-----------------------------------------------------------------------------
(* The bridge, and the disposal of the instance *)

\* Both are a FatalError when the factory does not run; see the guard of
\* FactoryOrderStop.
GetConnections ==
    /\ place = "none" /\ place' = "bridge"
    /\ ~factoryStopOrdered /\ IsInState(factoryCore, "Running")
    /\ UNCHANGED <<vars, factoryLife, steam, mGnsSockets, poll, destroyPc, disposal, fatal>>

ReturnConnections ==
    /\ place = "bridge" /\ place' = "returned"
    /\ IsInState(factoryCore, "Running")
    /\ IsInState(core, "Stopped") /\ userPc = "idle"
    /\ mDisposal!Move(<<"instance">>)
    /\ UNCHANGED <<vars, factoryLife, steam, mGnsSockets, poll, destroyPc, fatal>>

DisposalTurn ==
    /\ mDisposal!Copy \/ mDisposal!Test
    /\ UNCHANGED <<vars, factoryLife, steam, mGnsSockets, poll, place, destroyPc, fatal>>

\* if (!IsInState(Stopped)) instance->Stop();
DestroyCheck ==
    /\ tdDisposal = "destroy" /\ destroyPc = "check" /\ destroyPc' = "spin"
    /\ stopOrdered' = (stopOrdered \/ ~IsInState(core, "Stopped"))
    /\ UNCHANGED <<life, ctxPc, userPc, library, recvSide, sendSide, factoryLife, steam,
                   mGnsSockets, poll, place, disposal, fatal>>

\* SpinUntil(Stopped), and delete.
DestroyDelete ==
    /\ tdDisposal = "destroy" /\ destroyPc = "spin" /\ destroyPc' = "check"
    /\ IsInState(core, "Stopped")
    /\ mDisposal!Destroyed
    /\ place' = "deleted"
    /\ UNCHANGED <<vars, factoryLife, steam, mGnsSockets, poll, fatal>>

DisposalStep == DisposalTurn \/ DestroyCheck \/ DestroyDelete

-----------------------------------------------------------------------------
(* The instance and the poll thread *)

\* The threads of the instance run while it exists, and its bridge uses it
\* until it returns it.
InstanceInit == place \in {"bridge", "returned"} /\ InitStep /\ UNCHANGED factory
InstanceStop == place \in {"bridge", "returned"} /\ StopStep /\ UNCHANGED factory
InstanceCtx == place \in {"bridge", "returned"} /\ CtxStep /\ UNCHANGED factory
BridgeCalls == place = "bridge" /\ (OrderStop \/ UserCheck) /\ UNCHANGED factory
BridgeWorks == UserStep /\ UNCHANGED factory
ConnectionLost == Lose /\ UNCHANGED factory

\* RunCallbacks, from the loop of mTdPoll.
PollCallbacks == mTdPoll = "loop" /\ PollStep /\ UNCHANGED factory

PollExit ==
    /\ mTdPoll = "loop" /\ pollStop /\ pollPc = "idle" /\ mTdPoll' = "exited"
    /\ UNCHANGED <<vars, factoryLife, steam, mGnsSockets, pollStop, place, destroyPc,
                   disposal, fatal>>

-----------------------------------------------------------------------------
FactoryTerminated ==
    /\ fatal \/ (IsInState(factoryCore, "Stopped") /\ factoryInitPc = "done")
    /\ UNCHANGED allVars

FactoryNext ==
    \/ /\ ~fatal
       /\ \/ FactoryInitStep \/ FactoryOrderStop \/ FactoryStopStep
          \/ GetConnections \/ ReturnConnections \/ DisposalStep
          \/ InstanceInit \/ InstanceStop \/ InstanceCtx \/ BridgeCalls \/ BridgeWorks
          \/ ConnectionLost \/ PollCallbacks \/ PollExit
    \/ FactoryTerminated

FactorySpec == FactoryInit /\ [][FactoryNext]_allVars

\* Threads that take finitely many steps, given how often the library calls back.
FiniteThreads == ~fatal /\ (FactoryInitStep \/ FactoryStopStep \/ InstanceInit
                            \/ InstanceStop \/ PollCallbacks \/ PollExit)

\* The threads run: one condition is enough for all that end by themselves, and the
\* two loops get one each.  Server, bridge and network need do nothing.
FactoryFairness ==
    WF_allVars(FiniteThreads) /\ WF_allVars(InstanceCtx) /\ WF_allVars(DisposalStep)

FactoryFairSpec == FactorySpec /\ FactoryFairness

-----------------------------------------------------------------------------
(* Where a thread is about to call the library: the instance in ConnectGns,  *)
(* DisconnectGns, SendGns and RecvGns, and the poll thread.                  *)
CallsLibrary ==
    \/ initPc = "connect"
    \/ teardownPc = "close" /\ mGnsConnection = "handle"
    \/ ctxPc \in {"send", "receive"}

(* The library is called only between its start and its kill and through the *)
(* socket interface, and the instance only while GetGnsSockets has no reason *)
(* for a FatalError: poll thread, instance and disposal end in that order,   *)
(* whenever the factory is stopped, provided that no bridge is left by then  *)
(* (the guard of FactoryOrderStop; NeverOutOfWorkTime is about that).        *)
LibraryInWorkTime ==
    /\ CallsLibrary => IsInState(factoryCore, "Running")
    /\ CallsLibrary \/ mTdPoll = "loop" => steam = "up" /\ mGnsSockets = "sockets"

FactoryPhase == PhaseOf(factoryCore, factoryStopPc # "none")

(* To BridgeInstance the instance, and to BridgeFactory the factory, is a    *)
(* Lifecycle: one transition at a time, whoever calls Stop() and however     *)
(* early, and no start after a stop.  That transitions end is part of        *)
(* EveryStopCompletes.                                                       *)
FactoryAsLifecycle == INSTANCE Lifecycle WITH phase <- FactoryPhase

ImplementsLifecycle == AsLifecycle!Safety /\ FactoryAsLifecycle!Safety

(* A Stop() of the instance, and one of the factory, ends in Stopped: also   *)
(* one that has to wait for the start to end, be it with a failure.          *)
EveryStopCompletes ==
    /\ stopOrdered ~> IsInState(core, "Stopped")
    /\ factoryStopOrdered ~> IsInState(factoryCore, "Stopped") \/ fatal

=============================================================================
