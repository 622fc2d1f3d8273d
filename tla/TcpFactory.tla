----------------------------- MODULE TcpFactory -----------------------------
(***************************************************************************)
(* TcpFactory with its DisposalHelper and its IndexDistributor: the thread *)
(* of the constructor, the thread of the granted Stop(), the io_context    *)
(* thread that runs AcceptorWorker, the disposal thread, and the bridges   *)
(* that take instances and return them.  An instance is reduced to its     *)
(* life cycle and its index.                                               *)
(*                                                                         *)
(* The factory has one user, BridgeFactory, which stops it only after its  *)
(* own worker has ended and its disposal has destroyed all its bridges,    *)
(* and a bridge returns its instance before it ends.  OrderStop and        *)
(* GetConnections keep to that, so neither GetConnections nor              *)
(* ReturnConnections is called out of time.  (A bridge that the disposal   *)
(* of BridgeFactory itself leaves behind is outside this module.)          *)
(***************************************************************************)
EXTENDS StateMachine, Queues

CONSTANT MaxInstances  \* bound: connections accepted

ASSUME InstancesAssumption == MaxInstances \in Nat

Instance == 1..MaxInstances  \* in the order in which they are accepted

VARIABLES core, stopOrdered,
          initPc, stopPc,
          ioPc,           \* the thread in mIoContext.run(); "push" in a handler
          ioStopped,      \* mIoContext.stop() was called
          mConnections,
          handed,         \* the instances the bridges hold
          status,         \* life cycle of each instance
          mIndex,         \* index of each created instance
          mCurrentIndex, mReturnedIndex,  \* mIndexDistributor
          destroyPc,      \* where the lambda given to mDisposal.Start is
          mDequeDisposal, cache, tdDisposal, stopRequested, destroyed

mDisposal == INSTANCE DisposalHelper WITH Item <- Instance

disposal == <<mDequeDisposal, cache, tdDisposal, stopRequested, destroyed>>
index == <<mIndex, mCurrentIndex, mReturnedIndex>>
life == <<core, stopOrdered, initPc, stopPc>>
io == <<ioPc, ioStopped>>
vars == <<life, io, mConnections, handed, status, index, destroyPc, disposal>>

Created == {i \in Instance : status[i] # "none"}

TypeOK ==
    /\ core \in StateMachineCore
    /\ stopOrdered \in BOOLEAN /\ ioStopped \in BOOLEAN
    /\ initPc \in {"spawned", "startIo", "startDisposal", "end", "done"}
    /\ stopPc \in {"none", "stopIo", "joinIo", "move", "requestStop", "join", "done"}
    /\ ioPc \in {"none", "run", "push", "exited"}
    /\ mConnections \in Seq(Instance)
    /\ handed \subseteq Instance
    /\ status \in [Instance -> {"none", "running", "ordered", "stopped", "deleted"}]
    /\ mIndex \in [Instance -> Nat]
    /\ mCurrentIndex \in Nat
    /\ mReturnedIndex \in Seq(Nat)
    /\ destroyPc \in {"check", "spin", "delete"}
    /\ mDisposal!TypeOK

Init ==
    /\ core = NewCore /\ stopOrdered = FALSE
    /\ initPc = "spawned" /\ stopPc = "none"
    /\ ioPc = "none" /\ ioStopped = FALSE
    /\ mConnections = <<>> /\ handed = {}
    /\ status = [i \in Instance |-> "none"]
    /\ mIndex = [i \in Instance |-> 0]
    /\ mCurrentIndex = 0 /\ mReturnedIndex = <<>>
    /\ destroyPc = "check"
    /\ mDisposal!Init

-----------------------------------------------------------------------------
(* The constructor's thread *)

InitBegin ==
    /\ initPc = "spawned" /\ MayDecide(core)
    /\ IF MayInitialize(core)
       THEN initPc' = "startIo" /\ core' = BeginInitializing(core)
       ELSE initPc' = "done" /\ UNCHANGED core
    /\ UNCHANGED <<stopOrdered, stopPc, io, mConnections, handed, status, index,
                   destroyPc, disposal>>

\* RegisterAsyncWork(), then the thread in mIoContext.run().
InitStartIo ==
    /\ initPc = "startIo" /\ initPc' = "startDisposal"
    /\ ioPc' = "run"
    /\ UNCHANGED <<core, stopOrdered, stopPc, ioStopped, mConnections, handed,
                   status, index, destroyPc, disposal>>

InitStartDisposal ==
    /\ initPc = "startDisposal" /\ initPc' = "end"
    /\ mDisposal!Start
    /\ UNCHANGED <<core, stopOrdered, stopPc, io, mConnections, handed, status,
                   index, destroyPc>>

InitEnd ==
    /\ initPc = "end" /\ initPc' = "done"
    /\ core' = EndInitializing(core, FALSE)
    /\ UNCHANGED <<stopOrdered, stopPc, io, mConnections, handed, status, index,
                   destroyPc, disposal>>

InitStep == InitBegin \/ InitStartIo \/ InitStartDisposal \/ InitEnd

-----------------------------------------------------------------------------
(* mIndexDistributor and the io_context thread *)

\* Slip: the index reused is not taken off the list.
TakeIndexKeep(i) ==
    IF mReturnedIndex = <<>>
    THEN /\ mIndex' = [mIndex EXCEPT ![i] = mCurrentIndex]
         /\ mCurrentIndex' = mCurrentIndex + 1
         /\ UNCHANGED mReturnedIndex
    ELSE /\ mIndex' = [mIndex EXCEPT ![i] = Head(mReturnedIndex)]
         /\ UNCHANGED <<mCurrentIndex, mReturnedIndex>>

\* IndexDistributor::Get, for instance i.
TakeIndex(i) ==
    IF mReturnedIndex = <<>>
    THEN /\ mIndex' = [mIndex EXCEPT ![i] = mCurrentIndex]
         /\ mCurrentIndex' = mCurrentIndex + 1
         /\ UNCHANGED mReturnedIndex
    ELSE /\ mIndex' = [mIndex EXCEPT ![i] = Head(mReturnedIndex)]
         /\ mReturnedIndex' = Tail(mReturnedIndex)
         /\ UNCHANGED mCurrentIndex

\* AcceptorWorker creates the instance, whatever the error code says ...
AcceptNew(i) ==
    /\ ioPc = "run" /\ ~ioStopped /\ ioPc' = "push"
    /\ \A j \in Instance : status[j] = "none" <=> j >= i
    /\ TakeIndex(i)
    /\ status' = [status EXCEPT ![i] = "running"]
    /\ UNCHANGED <<life, ioStopped, mConnections, handed, destroyPc, disposal>>

\* ... and pushes it under mConnectionsMutex, then accepts again.
AcceptPush(i) ==
    /\ ioPc = "push" /\ ioPc' = "run"
    /\ \A j \in Created : j <= i
    /\ i \in Created
    /\ mConnections' = Append(mConnections, i)
    /\ UNCHANGED <<life, ioStopped, handed, status, index, destroyPc, disposal>>

\* run() returns after the handler that was running.
IoExit ==
    /\ ioPc = "run" /\ ioStopped /\ ioPc' = "exited"
    /\ UNCHANGED <<life, ioStopped, mConnections, handed, status, index, destroyPc,
                   disposal>>

-----------------------------------------------------------------------------
(* The bridges *)

\* Slip: the connections are copied and stay in the factory.
GetConnectionsCopy ==
    /\ ~stopOrdered /\ IsInState(core, "Running")
    /\ handed' = handed \cup Elements(mConnections)
    /\ UNCHANGED <<life, io, mConnections, status, index, destroyPc, disposal>>

GetConnections ==
    /\ ~stopOrdered /\ IsInState(core, "Running")
    /\ handed' = handed \cup Elements(mConnections)
    /\ mConnections' = <<>>
    /\ UNCHANGED <<life, io, status, index, destroyPc, disposal>>

\* A bridge returns its instance when it has seen it stopped.
ReturnConnections(i) ==
    /\ IsInState(core, "Running")
    /\ i \in handed /\ status[i] = "stopped"
    /\ handed' = handed \ {i}
    /\ mDisposal!Move(<<i>>)
    /\ UNCHANGED <<life, io, mConnections, status, index, destroyPc>>

\* Stop() of an instance: by its bridge, or by itself on an error.
InstanceStop(i) ==
    /\ status[i] = "running"
    /\ status' = [status EXCEPT ![i] = "ordered"]
    /\ UNCHANGED <<life, io, mConnections, handed, index, destroyPc, disposal>>

InstanceStopped(i) ==
    /\ status[i] = "ordered"
    /\ status' = [status EXCEPT ![i] = "stopped"]
    /\ UNCHANGED <<life, io, mConnections, handed, index, destroyPc, disposal>>

-----------------------------------------------------------------------------
(* The disposal thread *)

DisposalCopy ==
    /\ mDisposal!Copy
    /\ UNCHANGED <<life, io, mConnections, handed, status, index, destroyPc>>

DisposalTest ==
    /\ mDisposal!Test
    /\ UNCHANGED <<life, io, mConnections, handed, status, index, destroyPc>>

\* Slip: the lambda relies on others to stop the instance.
DestroyCheckOnly ==
    /\ tdDisposal = "destroy" /\ destroyPc = "check" /\ destroyPc' = "spin"
    /\ UNCHANGED <<life, io, mConnections, handed, status, index, disposal>>

\* if (!IsInState(Stopped)) instance->Stop();
DestroyCheck ==
    /\ tdDisposal = "destroy" /\ destroyPc = "check" /\ destroyPc' = "spin"
    /\ status' = [status EXCEPT ![Head(cache)] =
                    IF @ = "stopped" THEN @ ELSE "ordered"]
    /\ UNCHANGED <<life, io, mConnections, handed, index, disposal>>

\* SpinUntil(Stopped), then mIndexDistributor.Return(instance->mIndex);
DestroyReturnIndex ==
    /\ tdDisposal = "destroy" /\ destroyPc = "spin" /\ destroyPc' = "delete"
    /\ status[Head(cache)] = "stopped"
    /\ mReturnedIndex' = Append(mReturnedIndex, mIndex[Head(cache)])
    /\ UNCHANGED <<life, io, mConnections, handed, status, mIndex, mCurrentIndex,
                   disposal>>

\* delete instance;
DestroyDelete ==
    /\ destroyPc = "delete" /\ destroyPc' = "check"
    /\ mDisposal!Destroyed
    /\ status' = [status EXCEPT ![Head(cache)] = "deleted"]
    /\ UNCHANGED <<life, io, mConnections, handed, index>>

DisposalStep == DisposalCopy \/ DisposalTest
                \/ DestroyCheck \/ DestroyReturnIndex \/ DestroyDelete

-----------------------------------------------------------------------------
(* Stop() *)

OrderStop ==
    /\ ~stopOrdered /\ stopOrdered' = TRUE
    /\ handed = {}
    /\ UNCHANGED <<core, initPc, stopPc, io, mConnections, handed, status, index,
                   destroyPc, disposal>>

StopBegin ==
    /\ stopOrdered /\ stopPc = "none" /\ stopPc' = "stopIo"
    /\ MayDecide(core) /\ MayStop(core)
    /\ core' = BeginStopping(core)
    /\ UNCHANGED <<stopOrdered, initPc, io, mConnections, handed, status, index,
                   destroyPc, disposal>>

StopIo ==
    /\ stopPc = "stopIo" /\ stopPc' = "joinIo"
    /\ ioStopped' = TRUE
    /\ UNCHANGED <<core, stopOrdered, initPc, ioPc, mConnections, handed, status,
                   index, destroyPc, disposal>>

StopJoinIo ==
    /\ stopPc = "joinIo" /\ stopPc' = "move"
    /\ ioPc \in {"none", "exited"}
    /\ UNCHANGED <<core, stopOrdered, initPc, io, mConnections, handed, status,
                   index, destroyPc, disposal>>

StopMove ==
    /\ stopPc = "move" /\ stopPc' = "requestStop"
    /\ mDisposal!Move(mConnections)
    /\ mConnections' = <<>>
    /\ UNCHANGED <<core, stopOrdered, initPc, io, handed, status, index, destroyPc>>

StopRequest ==
    /\ stopPc = "requestStop" /\ stopPc' = "join"
    /\ mDisposal!RequestStop
    /\ UNCHANGED <<core, stopOrdered, initPc, io, mConnections, handed, status,
                   index, destroyPc>>

StopJoin ==
    /\ stopPc = "join" /\ stopPc' = "done"
    /\ mDisposal!Joined
    /\ core' = EndStopping(core)
    /\ UNCHANGED <<stopOrdered, initPc, io, mConnections, handed, status, index,
                   destroyPc, disposal>>

StopStep == StopBegin \/ StopIo \/ StopJoinIo \/ StopMove \/ StopRequest \/ StopJoin

-----------------------------------------------------------------------------
Terminated ==
    /\ IsInState(core, "Stopped") /\ initPc = "done"
    /\ UNCHANGED vars

Next ==
    \/ InitStep \/ OrderStop \/ StopStep
    \/ \E i \in Instance : AcceptNew(i) \/ AcceptPush(i)
    \/ IoExit
    \/ GetConnections
    \/ \E i \in Instance : ReturnConnections(i) \/ InstanceStop(i) \/ InstanceStopped(i)
    \/ DisposalStep
    \/ Terminated

Spec == Init /\ [][Next]_vars

\* Threads run; an instance that was told to stop does (TcpInstance,
\* StopCompletes).  Nobody need connect, take, return or stop anything.
Fairness ==
    /\ WF_vars(InitStep) /\ WF_vars(StopStep) /\ WF_vars(DisposalStep)
    /\ WF_vars(IoExit \/ \E i \in Instance : AcceptPush(i))
    /\ \A i \in Instance : WF_vars(InstanceStopped(i))

FairSpec == Spec /\ Fairness

-----------------------------------------------------------------------------
(* The instances in each pair of hands: the bridges', the accept handler's,  *)
(* and, as one sequence, the disposal's followed by the factory's own.       *)
InHandler == IF ioPc = "push" THEN {i \in Created : \A j \in Created : j <= i} ELSE {}

Queued == mDisposal!Moved \o mConnections

(* DESIGN.md, instances are created by the factory and released by it: each  *)
(* created instance is in exactly one place at any time, so none is handed   *)
(* to two bridges, disposed of twice or disposed of while a bridge uses it.  *)
(* A stopped factory keeps no connection of its own, and its disposal thread *)
(* took nothing that it did not destroy: what a stop can leave behind is     *)
(* only what lies in mDequeDisposal.                                         *)
OwnedOnce ==
    /\ NoDuplicates(Queued)
    /\ handed \cap Elements(Queued) = {}
    /\ InHandler \cap (handed \cup Elements(Queued)) = {}
    /\ Created = InHandler \cup handed \cup Elements(Queued)
    /\ IsInState(core, "Stopped") =>
         mConnections = <<>> /\ cache = <<>> /\ ioPc \in {"none", "exited"}

(* An instance has its index to itself from its creation until the disposal  *)
(* lambda gives it back, although indices are reused.  Between that and the  *)
(* delete, one step later, another may already have it.                      *)
HoldsIndex(i) ==
    /\ status[i] \in {"running", "ordered", "stopped"}
    /\ ~(destroyPc = "delete" /\ i = Head(cache))

IndexIsExclusive ==
    /\ \A i, j \in Instance :
         HoldsIndex(i) /\ HoldsIndex(j) /\ mIndex[i] = mIndex[j] => i = j
    /\ \A i \in Instance : HoldsIndex(i) => mIndex[i] \notin Elements(mReturnedIndex)

(* What was handed in for disposal stays in line, in its order, until it is  *)
(* destroyed: across the queue, the cache and the threads that move between  *)
(* them nothing is lost, repeated or overtaken.                              *)
NothingLost ==
    [][/\ mDisposal!Moved = SubSeq(mDisposal!Moved', 1, Len(mDisposal!Moved))
       /\ destroyed = SubSeq(destroyed', 1, Len(destroyed))]_vars

Phase == PhaseOf(core, stopPc # "none")

(* To BridgeFactory the factory is a Lifecycle: one transition at a time,    *)
(* whatever connects, is returned or is disposed of meanwhile, and a stopped *)
(* factory never starts.                                                     *)
AsLifecycle == INSTANCE Lifecycle WITH phase <- Phase

ImplementsLifecycle == AsLifecycle!Safety

(* A returned instance is destroyed, unless the factory stops.               *)
ReturnedIsDestroyed ==
    \A i \in Instance :
        i \in Elements(mDisposal!Moved)
            ~> status[i] = "deleted" \/ IsInState(core, "Stopped")

(* A Stop() of the factory ends in Stopped, whatever the instances it swept  *)
(* into the disposal were doing.                                             *)
StopCompletes == stopOrdered ~> IsInState(core, "Stopped")

=============================================================================
