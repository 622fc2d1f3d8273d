------------------------- MODULE TcpFactory_proofs --------------------------
(***************************************************************************)
(* Proofs about TcpFactory, for any number of connections.                 *)
(***************************************************************************)
EXTENDS TcpFactory, SequenceLemmas, TLAPS

-----------------------------------------------------------------------------
(* The inductive invariant *)

(* Only the thread of a granted transition is past its first location, and   *)
(* a stop that has come that far finds the other threads gone for good.      *)
ThreadsOK ==
    /\ initPc \in {"spawned", "startIo"} => ioPc = "none"
    /\ initPc \in {"startIo", "startDisposal", "end"} =>
         core.mIsInTransition /\ stopPc = "none"
    /\ stopPc = "none" => core.mState # "Stopped"
    /\ stopPc \in {"stopIo", "joinIo", "move", "requestStop", "join"} =>
         core.mIsInTransition
    /\ stopPc = "done" => core.mState = "Stopped"
    /\ stopPc \in {"move", "requestStop", "join", "done"} => ioPc \in {"none", "exited"}
    /\ stopPc \in {"requestStop", "join", "done"} => mConnections = <<>>
    /\ stopPc = "done" => tdDisposal \in {"none", "exited"}

(* The disposal thread destroys what it has, and leaves with nothing.        *)
DisposalOK ==
    /\ tdDisposal \in {"none", "copy", "exited"} => cache = <<>>
    /\ tdDisposal = "destroy" => cache # <<>>
    /\ destroyPc # "check" => tdDisposal = "destroy"

(* OwnedOnce, said of the four sequences, the bridges and the accept handler *)
(* one by one, as their steps disturb two of them at a time.                 *)
PlacesOK ==
    /\ NoDuplicates(destroyed) /\ NoDuplicates(cache)
    /\ NoDuplicates(mDequeDisposal) /\ NoDuplicates(mConnections)
    /\ Elements(destroyed) \cap Elements(cache) = {}
    /\ Elements(destroyed) \cap Elements(mDequeDisposal) = {}
    /\ Elements(destroyed) \cap Elements(mConnections) = {}
    /\ Elements(cache) \cap Elements(mDequeDisposal) = {}
    /\ Elements(cache) \cap Elements(mConnections) = {}
    /\ Elements(mDequeDisposal) \cap Elements(mConnections) = {}
    /\ (handed \cup InHandler) \cap
         (Elements(destroyed) \cup Elements(cache) \cup Elements(mDequeDisposal)
            \cup Elements(mConnections)) = {}
    /\ handed \cap InHandler = {}
    /\ Created = handed \cup InHandler \cup Elements(destroyed) \cup Elements(cache)
                  \cup Elements(mDequeDisposal) \cup Elements(mConnections)

(* An instance is deleted when it is destroyed, and stopped before.          *)
StatusOK ==
    /\ \A i \in Instance : status[i] = "deleted" <=> i \in Elements(destroyed)
    /\ destroyPc = "delete" => status[Head(cache)] = "stopped"

(* Indices are below mCurrentIndex, and each is held or returned once.       *)
IndexOK ==
    /\ IndexIsExclusive
    /\ NoDuplicates(mReturnedIndex)
    /\ \A n \in Elements(mReturnedIndex) : n < mCurrentIndex
    /\ \A i \in Instance : HoldsIndex(i) => mIndex[i] < mCurrentIndex

Inv == TypeOK /\ ThreadsOK /\ DisposalOK /\ PlacesOK /\ StatusOK /\ IndexOK

-----------------------------------------------------------------------------
(* Typing *)

(* The transitions of a state machine keep its type. *)
LEMMA CoreTyping ==
    ASSUME NEW c \in StateMachineCore
    PROVE  /\ BeginInitializing(c) \in StateMachineCore
           /\ BeginStopping(c) \in StateMachineCore
           /\ EndInitializing(c, FALSE) \in StateMachineCore
           /\ EndStopping(c) \in StateMachineCore
BY DEF StateMachineCore, States, BeginInitializing, BeginStopping,
       EndInitializing, EndStopping

(* The types hold at the start, before any thread runs. *)
LEMMA TypeInit == Init => TypeOK
<1>1. NewCore \in StateMachineCore
  BY DEF NewCore, StateMachineCore, States
<1>2. <<>> \in Seq(Instance) /\ <<>> \in Seq(Nat)
  BY EmptySeq
<1>3. ASSUME Init
      PROVE  TypeOK
  <2>1. mDisposal!TypeOK
    BY <1>3, <1>2 DEF Init, mDisposal!Init, mDisposal!TypeOK
  <2> QED
    BY <1>1, <1>2, <1>3, <2>1 DEF Init, TypeOK
<1> QED
  BY <1>3

(* Each step keeps the types; the disposal's steps need that a thread that   *)
(* destroys has something to destroy.                                        *)
LEMMA TypeStep == ASSUME TypeOK, DisposalOK, [Next]_vars PROVE TypeOK'
<1> USE DEF TypeOK, mDisposal!TypeOK, life, io, index, disposal
<1>1. CASE InitStep
  <2>1. CASE InitBegin
    <3>1. core' \in StateMachineCore
      BY <2>1, CoreTyping DEF InitBegin
    <3> QED
      BY <2>1, <3>1 DEF InitBegin
  <2>2. CASE InitStartIo
    BY <2>2 DEF InitStartIo
  <2>3. CASE InitStartDisposal
    BY <2>3 DEF InitStartDisposal, mDisposal!Start
  <2>4. CASE InitEnd
    <3>1. core' \in StateMachineCore
      BY <2>4, CoreTyping DEF InitEnd
    <3>2. /\ initPc' = "done"
          /\ UNCHANGED <<stopOrdered, stopPc, io, mConnections, handed, status, index,
                         destroyPc, disposal>>
      BY <2>4 DEF InitEnd
    <3> QED
      BY <3>1, <3>2
  <2> QED
    BY <1>1, <2>1, <2>2, <2>3, <2>4 DEF InitStep
<1>2. CASE OrderStop
  BY <1>2 DEF OrderStop
<1>3. CASE StopStep
  <2>1. CASE StopBegin
    <3>1. core' \in StateMachineCore
      BY <2>1, CoreTyping DEF StopBegin
    <3> QED
      BY <2>1, <3>1 DEF StopBegin
  <2>2. CASE StopIo
    BY <2>2 DEF StopIo
  <2>3. CASE StopJoinIo
    BY <2>3 DEF StopJoinIo
  <2>4. CASE StopMove
    BY <2>4 DEF StopMove, mDisposal!Move
  <2>5. CASE StopRequest
    BY <2>5 DEF StopRequest, mDisposal!RequestStop
  <2>6. CASE StopJoin
    <3>1. core' \in StateMachineCore
      BY <2>6, CoreTyping DEF StopJoin
    <3>2. /\ stopPc' = "done"
          /\ UNCHANGED <<stopOrdered, initPc, io, mConnections, handed, status, index,
                         destroyPc, disposal>>
      BY <2>6 DEF StopJoin
    <3> QED
      BY <3>1, <3>2
  <2> QED
    BY <1>3, <2>1, <2>2, <2>3, <2>4, <2>5, <2>6 DEF StopStep
<1>4. ASSUME NEW i \in Instance, AcceptNew(i)
      PROVE  TypeOK'
  <2>1. mIndex' \in [Instance -> Nat] /\ mCurrentIndex' \in Nat
          /\ mReturnedIndex' \in Seq(Nat)
    <3>1. CASE mReturnedIndex = <<>>
      BY <3>1, <1>4 DEF AcceptNew, TakeIndex
    <3>2. CASE mReturnedIndex # <<>>
      <4>1. Head(mReturnedIndex) \in Nat /\ Tail(mReturnedIndex) \in Seq(Nat)
        BY <3>2, HeadAndTail
      <4> QED
        BY <3>2, <4>1, <1>4 DEF AcceptNew, TakeIndex
    <3> QED
      BY <3>1, <3>2
  <2> QED
    BY <2>1, <1>4 DEF AcceptNew
<1>5. ASSUME NEW i \in Instance, AcceptPush(i)
      PROVE  TypeOK'
  BY <1>5 DEF AcceptPush
<1>6. CASE IoExit
  BY <1>6 DEF IoExit
<1>7. CASE GetConnections
  <2>1. Elements(mConnections) \subseteq Instance
    BY DEF Elements
  <2> QED
    BY <2>1, <1>7 DEF GetConnections
<1>8. ASSUME NEW i \in Instance, ReturnConnections(i)
      PROVE  TypeOK'
  BY <1>8 DEF ReturnConnections, mDisposal!Move
<1>9. ASSUME NEW i \in Instance, InstanceStop(i) \/ InstanceStopped(i)
      PROVE  TypeOK'
  <2>1. status' \in [Instance -> {"none", "running", "ordered", "stopped", "deleted"}]
    BY <1>9 DEF InstanceStop, InstanceStopped
  <2> QED
    BY <1>9, <2>1 DEF InstanceStop, InstanceStopped
<1>10. CASE DisposalStep
  <2>1. CASE DisposalCopy
    BY <2>1 DEF DisposalCopy, mDisposal!Copy
  <2>2. CASE DisposalTest
    BY <2>2 DEF DisposalTest, mDisposal!Test
  <2>3. CASE DestroyCheck
    <3>1. Head(cache) \in Instance
      BY <2>3, HeadAndTail DEF DestroyCheck, DisposalOK
    <3> QED
      BY <2>3, <3>1 DEF DestroyCheck
  <2>4. CASE DestroyReturnIndex
    <3>1. Head(cache) \in Instance
      BY <2>4, HeadAndTail DEF DestroyReturnIndex, DisposalOK
    <3> QED
      BY <2>4, <3>1 DEF DestroyReturnIndex
  <2>5. CASE DestroyDelete
    <3>1. Head(cache) \in Instance /\ Tail(cache) \in Seq(Instance)
      BY <2>5, HeadAndTail DEF DestroyDelete, mDisposal!Destroyed, DisposalOK
    <3> QED
      BY <2>5, <3>1 DEF DestroyDelete, mDisposal!Destroyed
  <2> QED
    BY <1>10, <2>1, <2>2, <2>3, <2>4, <2>5 DEF DisposalStep
<1>11. CASE UNCHANGED vars
  BY <1>11 DEF vars
<1> QED
  BY <1>1, <1>2, <1>3, <1>4, <1>5, <1>6, <1>7, <1>8, <1>9, <1>10, <1>11
  DEF Next, Terminated

-----------------------------------------------------------------------------
(* Threads and disposal *)

(* Each step keeps what is known of the threads from where they are.         *)
LEMMA ThreadsStep == ASSUME TypeOK, ThreadsOK, DisposalOK, [Next]_vars PROVE ThreadsOK'
<1> USE DEF ThreadsOK, life, io, index, disposal
<1>1. CASE InitStep
  BY <1>1 DEF InitStep, InitBegin, InitStartIo, InitStartDisposal, InitEnd, MayDecide,
       MayInitialize, BeginInitializing, EndInitializing, mDisposal!Start, TypeOK,
       StateMachineCore
<1>2. CASE OrderStop
  BY <1>2 DEF OrderStop
<1>3. CASE StopStep
  BY <1>3 DEF StopStep, StopBegin, StopIo, StopJoinIo, StopMove, StopRequest, StopJoin,
       MayDecide, MayStop, BeginStopping, EndStopping, mDisposal!Move,
       mDisposal!RequestStop, mDisposal!Joined, TypeOK, StateMachineCore
<1>4. ASSUME NEW i \in Instance, AcceptNew(i) \/ AcceptPush(i)
      PROVE  ThreadsOK'
  BY <1>4 DEF AcceptNew, AcceptPush
<1>5. CASE IoExit
  BY <1>5 DEF IoExit
<1>6. CASE GetConnections
  BY <1>6 DEF GetConnections
<1>7. ASSUME NEW i \in Instance, ReturnConnections(i) \/ InstanceStop(i) \/ InstanceStopped(i)
      PROVE  ThreadsOK'
  BY <1>7 DEF ReturnConnections, InstanceStop, InstanceStopped, mDisposal!Move
<1>8. CASE DisposalStep
  BY <1>8 DEF DisposalStep, DisposalCopy, DisposalTest, DestroyCheck, DestroyReturnIndex,
       DestroyDelete, mDisposal!Copy, mDisposal!Test, mDisposal!Destroyed
<1>9. CASE UNCHANGED vars
  BY <1>9 DEF vars
<1> QED
  BY <1>1, <1>2, <1>3, <1>4, <1>5, <1>6, <1>7, <1>8, <1>9 DEF Next, Terminated

(* Each step keeps what the disposal thread holds at each of its locations.  *)
LEMMA DisposalStepOK == ASSUME TypeOK, DisposalOK, [Next]_vars PROVE DisposalOK'
<1> USE DEF DisposalOK, life, io, index, disposal
<1>1. CASE InitStep
  BY <1>1 DEF InitStep, InitBegin, InitStartIo, InitStartDisposal, InitEnd, mDisposal!Start
<1>2. CASE OrderStop \/ StopStep
  BY <1>2 DEF OrderStop, StopStep, StopBegin, StopIo, StopJoinIo, StopMove, StopRequest,
       StopJoin, mDisposal!Move, mDisposal!RequestStop
<1>3. ASSUME NEW i \in Instance, AcceptNew(i) \/ AcceptPush(i)
      PROVE  DisposalOK'
  BY <1>3 DEF AcceptNew, AcceptPush
<1>4. CASE IoExit \/ GetConnections
  BY <1>4 DEF IoExit, GetConnections
<1>5. ASSUME NEW i \in Instance, ReturnConnections(i) \/ InstanceStop(i) \/ InstanceStopped(i)
      PROVE  DisposalOK'
  BY <1>5 DEF ReturnConnections, InstanceStop, InstanceStopped, mDisposal!Move
<1>6. CASE DisposalCopy \/ DisposalTest \/ DestroyCheck \/ DestroyReturnIndex
  BY <1>6 DEF DisposalCopy, DisposalTest, DestroyCheck, DestroyReturnIndex,
       mDisposal!Copy, mDisposal!Test
<1>7. CASE DestroyDelete
  <2>1. Len(cache) = 1 <=> Tail(cache) = <<>>
    BY <1>7, HeadAndTail DEF DestroyDelete, mDisposal!Destroyed, TypeOK, mDisposal!TypeOK
  <2> QED
    BY <1>7, <2>1 DEF DestroyDelete, mDisposal!Destroyed
<1>8. CASE UNCHANGED vars
  BY <1>8 DEF vars
<1> QED
  BY <1>1, <1>2, <1>3, <1>4, <1>5, <1>6, <1>7, <1>8 DEF Next, Terminated, DisposalStep

-----------------------------------------------------------------------------
(* One place for each instance *)

(* What the destroying lambda is applied to. *)
LEMMA HeadOfCache ==
    ASSUME TypeOK, DisposalOK, tdDisposal = "destroy"
    PROVE  Head(cache) \in Instance /\ Head(cache) \in Elements(cache)
<1>1. cache \in Seq(Instance) /\ cache # <<>>
  BY DEF TypeOK, mDisposal!TypeOK, DisposalOK
<1>2. Head(cache) \in Instance
  BY <1>1, HeadAndTail
<1>3. Head(cache) \in Elements(cache)
  BY <1>1 DEF Elements
<1> QED
  BY <1>2, <1>3

(* Each step keeps an instance in one place: it is moved, never copied.      *)
LEMMA PlacesStep ==
    ASSUME TypeOK, ThreadsOK, DisposalOK, PlacesOK, [Next]_vars
    PROVE  PlacesOK'
<1> USE DEF life, io, index, disposal
<1>1. /\ mDequeDisposal \in Seq(Instance) /\ cache \in Seq(Instance)
      /\ destroyed \in Seq(Instance) /\ mConnections \in Seq(Instance)
      /\ \A x \in Instance : <<x>> \in Seq(Instance)
  BY DEF TypeOK, mDisposal!TypeOK
<1>2. \A s, t \in Seq(Instance) : Joins(s, t)
  BY Joining, Zenon
<1>2a. \A s \in Seq(Instance), x \in Instance : JoinsOne(s, x)
  BY JoiningOne, Zenon
<1>3. ASSUME NEW i \in Instance, AcceptNew(i)
      PROVE  PlacesOK'
  <2>1. \A j \in Instance : status[j] = "none" <=> j >= i
    BY <1>3 DEF AcceptNew
  <2>2. Created' = Created \cup {i} /\ i \notin Created
    BY <1>3, <2>1 DEF AcceptNew, Created, TypeOK, Instance
  <2>3. \A j \in Created' : j <= i
    BY <1>3, <2>1 DEF AcceptNew, Created, TypeOK, Instance
  <2>4. InHandler = {} /\ InHandler' = {i}
    <3>1. \A j \in Created' : (\A k \in Created' : k <= j) => j = i
      BY <2>2, <2>3 DEF Created, Instance
    <3> QED
      BY <1>3, <2>2, <2>3, <3>1 DEF AcceptNew, InHandler
  <2>5. UNCHANGED <<handed, destroyed, cache, mDequeDisposal, mConnections>>
    BY <1>3 DEF AcceptNew
  <2> QED
    BY <2>2, <2>4, <2>5 DEF PlacesOK
<1>4. ASSUME NEW i \in Instance, AcceptPush(i)
      PROVE  PlacesOK'
  <2>1. InHandler = {i} /\ InHandler' = {}
    <3>1. \A j \in Created : (\A k \in Created : k <= j) => j = i
      BY <1>4 DEF AcceptPush, Created, Instance
    <3> QED
      BY <1>4, <3>1 DEF AcceptPush, InHandler
  <2>2. mConnections' = mConnections \o <<i>>
    BY <1>1, <1>4 DEF AcceptPush
  <2>3. UNCHANGED <<handed, destroyed, cache, mDequeDisposal, Created>>
    BY <1>4 DEF AcceptPush, Created
  <2>4. /\ Elements(mConnections') = Elements(mConnections) \cup {i}
        /\ NoDuplicates(mConnections')
             <=> NoDuplicates(mConnections) /\ i \notin Elements(mConnections)
    <3>1. JoinsOne(mConnections, i)
      BY <1>1, <1>2a, Zenon
    <3> QED
      BY <2>2, <3>1 DEF JoinsOne
  <2> QED
    BY <2>1, <2>3, <2>4 DEF PlacesOK
<1>5. CASE GetConnections
  <2>1. UNCHANGED <<destroyed, cache, mDequeDisposal, Created, InHandler>>
    BY <1>5 DEF GetConnections, Created, InHandler
  <2>2. Elements(mConnections') = {} /\ NoDuplicates(mConnections')
    BY <1>5, ElementsOfSmall, NoDuplicatesInSmall DEF GetConnections
  <2>3. handed' = handed \cup Elements(mConnections)
    BY <1>5 DEF GetConnections
  <2> QED
    BY <2>1, <2>2, <2>3 DEF PlacesOK
<1>6. ASSUME NEW i \in Instance, ReturnConnections(i)
      PROVE  PlacesOK'
  <2>1. UNCHANGED <<destroyed, cache, mConnections, Created, InHandler>>
    BY <1>6 DEF ReturnConnections, mDisposal!Move, Created, InHandler
  <2>2. mDequeDisposal' = mDequeDisposal \o <<i>>
    BY <1>6 DEF ReturnConnections, mDisposal!Move
  <2>3. /\ Elements(mDequeDisposal') = Elements(mDequeDisposal) \cup {i}
        /\ NoDuplicates(mDequeDisposal')
             <=> NoDuplicates(mDequeDisposal) /\ i \notin Elements(mDequeDisposal)
    <3>1. JoinsOne(mDequeDisposal, i)
      BY <1>1, <1>2a, Zenon
    <3> QED
      BY <2>2, <3>1 DEF JoinsOne
  <2>4. i \in handed /\ handed' = handed \ {i}
    BY <1>6 DEF ReturnConnections
  <2> QED
    BY <2>1, <2>3, <2>4 DEF PlacesOK
<1>7. CASE StopMove
  <2>1. UNCHANGED <<handed, destroyed, cache, Created, InHandler>>
    BY <1>7 DEF StopMove, mDisposal!Move, Created, InHandler
  <2>2. mDequeDisposal' = mDequeDisposal \o mConnections /\ mConnections' = <<>>
    BY <1>7 DEF StopMove, mDisposal!Move
  <2>3. Elements(mConnections') = {} /\ NoDuplicates(mConnections')
    BY <2>2, ElementsOfSmall, NoDuplicatesInSmall
  <2>4. /\ Elements(mDequeDisposal') = Elements(mDequeDisposal) \cup Elements(mConnections)
        /\ NoDuplicates(mDequeDisposal')
    <3>1. Joins(mDequeDisposal, mConnections)
      BY <1>1, <1>2, Zenon
    <3> QED
      BY <2>2, <3>1 DEF PlacesOK, Joins
  <2> QED
    BY <2>1, <2>3, <2>4 DEF PlacesOK
<1>8. CASE DisposalCopy
  <2>1. UNCHANGED <<handed, destroyed, mConnections, Created, InHandler>>
    BY <1>8 DEF DisposalCopy, mDisposal!Copy, Created, InHandler
  <2>2. cache' = cache \o mDequeDisposal /\ mDequeDisposal' = <<>>
    BY <1>8 DEF DisposalCopy, mDisposal!Copy
  <2>3. Elements(mDequeDisposal') = {} /\ NoDuplicates(mDequeDisposal')
    BY <2>2, ElementsOfSmall, NoDuplicatesInSmall
  <2>4. /\ Elements(cache') = Elements(cache) \cup Elements(mDequeDisposal)
        /\ NoDuplicates(cache')
    <3>1. Joins(cache, mDequeDisposal)
      BY <1>1, <1>2, Zenon
    <3> QED
      BY <2>2, <3>1 DEF PlacesOK, Joins
  <2> QED
    BY <2>1, <2>3, <2>4 DEF PlacesOK
<1>9. CASE DestroyDelete
  <2>1. cache # <<>>
    BY <1>9 DEF DestroyDelete, mDisposal!Destroyed, DisposalOK
  <2> DEFINE h == Head(cache)
  <2>2. /\ h \in Instance /\ Tail(cache) \in Seq(Instance)
        /\ cache = <<h>> \o Tail(cache)
    BY <1>1, <2>1, HeadAndTail
  <2>3. destroyed' = destroyed \o <<h>> /\ cache' = Tail(cache)
    <3>1. MovesOn(destroyed, cache)
      BY <1>1, <2>1, HeadMovesOn, Zenon
    <3> QED
      BY <1>9, <3>1 DEF DestroyDelete, mDisposal!Destroyed, MovesOn
  <2>4. h \in Elements(cache)
    BY <1>1, <2>1 DEF Elements
  <2>5. UNCHANGED <<handed, mConnections, mDequeDisposal, ioPc>>
    BY <1>9 DEF DestroyDelete, mDisposal!Destroyed
  <2>6. Created' = Created
    BY <1>9, <2>2, <2>4 DEF DestroyDelete, PlacesOK, Created, TypeOK
  <2>7. InHandler' = InHandler
    BY <2>5, <2>6 DEF InHandler
  <2> HIDE DEF h
  <2>8. /\ Elements(cache) = Elements(cache') \cup {h}
        /\ NoDuplicates(cache') /\ h \notin Elements(cache')
    <3>1. NoDuplicates(cache) /\ cache = <<h>> \o cache'
      BY <2>2, <2>3 DEF PlacesOK
    <3>2. JoinsOne(cache', h)
      BY <1>2a, <2>2, <2>3
    <3> QED
      BY <3>1, <3>2 DEF JoinsOne
  <2>9. /\ Elements(destroyed') = Elements(destroyed) \cup {h}
        /\ NoDuplicates(destroyed')
    <3>1. NoDuplicates(destroyed) /\ h \notin Elements(destroyed)
      BY <2>4 DEF PlacesOK
    <3>2. JoinsOne(destroyed, h)
      BY <1>1, <1>2a, <2>2, Zenon
    <3> QED
      BY <2>3, <3>1, <3>2 DEF JoinsOne
  <2> QED
    BY <2>5, <2>6, <2>7, <2>8, <2>9 DEF PlacesOK
<1>10. CASE DestroyCheck
  <2>1. Head(cache) \in Instance /\ Head(cache) \in Elements(cache)
    BY <1>10, HeadOfCache DEF DestroyCheck
  <2>2. Created' = Created
    BY <1>10, <2>1 DEF DestroyCheck, PlacesOK, Created, TypeOK
  <2> QED
    BY <1>10, <2>2 DEF DestroyCheck, PlacesOK, InHandler
<1>11. ASSUME NEW i \in Instance, InstanceStop(i) \/ InstanceStopped(i)
       PROVE  PlacesOK'
  <2>1. Created' = Created
    BY <1>11 DEF InstanceStop, InstanceStopped, Created, TypeOK
  <2> QED
    BY <1>11, <2>1 DEF InstanceStop, InstanceStopped, PlacesOK, InHandler
<1>12. CASE IoExit
  BY <1>12 DEF IoExit, PlacesOK, InHandler, Created
<1>13. CASE UNCHANGED <<handed, destroyed, cache, mDequeDisposal, mConnections, status>>
            /\ InHandler' = InHandler
  BY <1>13 DEF PlacesOK, Created
<1>14. CASE InitStep
  <2>1. /\ UNCHANGED <<handed, destroyed, cache, mDequeDisposal, mConnections, status>>
        /\ ioPc' = ioPc \/ (ioPc = "none" /\ ioPc' = "run")
    BY <1>14 DEF InitStep, InitBegin, InitStartIo, InitStartDisposal, InitEnd,
           mDisposal!Start, ThreadsOK
  <2> QED
    BY <2>1, <1>13 DEF InHandler, Created
<1>15. \/ /\ UNCHANGED <<handed, destroyed, cache, mDequeDisposal, mConnections, status>>
          /\ InHandler' = InHandler
       \/ DisposalCopy \/ DestroyDelete \/ DestroyCheck \/ StopMove \/ InitStep \/ IoExit
       \/ GetConnections
       \/ \E i \in Instance : AcceptNew(i) \/ AcceptPush(i) \/ ReturnConnections(i)
                               \/ InstanceStop(i) \/ InstanceStopped(i)
  BY DEF Next, vars, OrderStop, StopStep, StopBegin, StopIo, StopJoinIo, StopRequest,
         StopJoin, mDisposal!RequestStop, DisposalStep, DisposalTest, mDisposal!Test,
         DestroyReturnIndex, Terminated, InHandler, Created
<1> QED
  BY <1>3, <1>4, <1>5, <1>6, <1>7, <1>8, <1>9, <1>10, <1>11, <1>12, <1>13, <1>14, <1>15

(* Each step deletes what it puts among the destroyed, and nothing else.     *)
LEMMA StatusStep ==
    ASSUME TypeOK, DisposalOK, PlacesOK, StatusOK, [Next]_vars
    PROVE  StatusOK'
<1> USE DEF life, io, index, disposal
<1>1. \A i \in Elements(destroyed) : i \in Created
  BY DEF PlacesOK
<1>2. ASSUME NEW i \in Instance, AcceptNew(i)
      PROVE  StatusOK'
  <2>1. status[i] = "none" /\ i \notin Created
    BY <1>2 DEF AcceptNew, Created, Instance
  <2> QED
    BY <1>1, <1>2, <2>1, HeadOfCache DEF AcceptNew, StatusOK, DisposalOK, TypeOK
<1>3. ASSUME NEW i \in Instance, InstanceStop(i) \/ InstanceStopped(i)
      PROVE  StatusOK'
  BY <1>3, HeadOfCache DEF InstanceStop, InstanceStopped, StatusOK, DisposalOK, TypeOK
<1>4. CASE DestroyCheck
  <2>1. Head(cache) \in Instance /\ Head(cache) \notin Elements(destroyed)
    BY <1>4, HeadOfCache DEF DestroyCheck, PlacesOK
  <2> QED
    BY <1>4, <2>1 DEF DestroyCheck, StatusOK, TypeOK
<1>5. CASE DestroyReturnIndex
  BY <1>5 DEF DestroyReturnIndex, StatusOK
<1>6. CASE DestroyDelete
  <2>1. Head(cache) \in Instance /\ cache # <<>>
    BY <1>6, HeadOfCache DEF DestroyDelete, mDisposal!Destroyed, DisposalOK
  <2>2. destroyed \in Seq(Instance) /\ cache \in Seq(Instance)
    BY DEF TypeOK, mDisposal!TypeOK
  <2>3. Elements(destroyed') = Elements(destroyed) \cup {Head(cache)}
    <3>1. MovesOn(destroyed, cache)
      BY <2>1, <2>2, HeadMovesOn, Zenon
    <3>2. JoinsOne(destroyed, Head(cache))
      BY <2>1, <2>2, JoiningOne, Zenon
    <3> QED
      BY <1>6, <3>1, <3>2 DEF DestroyDelete, mDisposal!Destroyed, MovesOn, JoinsOne
  <2> QED
    BY <1>6, <2>1, <2>3 DEF DestroyDelete, StatusOK, TypeOK
<1>7. CASE DisposalCopy
  BY <1>7 DEF DisposalCopy, mDisposal!Copy, StatusOK, DisposalOK
<1>8. CASE UNCHANGED <<status, destroyed, cache, destroyPc>>
  BY <1>8 DEF StatusOK
<1>9. \/ UNCHANGED <<status, destroyed, cache, destroyPc>>
      \/ DestroyCheck \/ DestroyReturnIndex \/ DestroyDelete \/ DisposalCopy
      \/ \E i \in Instance : AcceptNew(i) \/ InstanceStop(i) \/ InstanceStopped(i)
  BY DEF Next, vars, InitStep, InitBegin, InitStartIo, InitStartDisposal, InitEnd,
         mDisposal!Start, OrderStop, StopStep, StopBegin, StopIo, StopJoinIo, StopMove,
         StopRequest, StopJoin, mDisposal!Move, mDisposal!RequestStop, AcceptPush, IoExit,
         GetConnections, ReturnConnections, DisposalStep, DisposalTest, mDisposal!Test,
         Terminated
<1> QED
  BY <1>2, <1>3, <1>4, <1>5, <1>6, <1>7, <1>8, <1>9

-----------------------------------------------------------------------------
(* Indices *)

(* An instance whose life cycle, index and place in the lambda are the same  *)
(* holds its index as before.                                                *)
LEMMA IndexFrame ==
    ASSUME IndexOK, UNCHANGED index,
           \A i \in Instance : HoldsIndex(i)' => HoldsIndex(i)
    PROVE  IndexOK'
BY DEF IndexOK, IndexIsExclusive, index

(* Each step keeps the indices apart: a new instance takes one that nobody   *)
(* has, and only the destroying lambda gives one back, once.                 *)
LEMMA IndexStep ==
    ASSUME TypeOK, DisposalOK, PlacesOK, StatusOK, IndexOK, [Next]_vars
    PROVE  IndexOK'
<1> USE DEF life, io, disposal
<1>1. mReturnedIndex \in Seq(Nat) /\ mCurrentIndex \in Nat /\ mIndex \in [Instance -> Nat]
  BY DEF TypeOK
<1>1a. \A s \in Seq(Nat), x \in Nat : JoinsOne(s, x)
  BY JoiningOne, Zenon
<1>2. ASSUME NEW i \in Instance, AcceptNew(i)
      PROVE  IndexOK'
  <2>1. /\ status[i] = "none" /\ status' = [status EXCEPT ![i] = "running"]
        /\ UNCHANGED <<destroyPc, cache>> /\ TakeIndex(i)
    BY <1>2 DEF AcceptNew, Instance
  <2>2. \A j \in Instance \ {i} :
          (HoldsIndex(j)' => HoldsIndex(j)) /\ mIndex'[j] = mIndex[j]
    BY <2>1, <1>1 DEF HoldsIndex, TypeOK, TakeIndex
  <2>3. CASE mReturnedIndex = <<>>
    <3>1. /\ mIndex'[i] = mCurrentIndex /\ mCurrentIndex' = mCurrentIndex + 1
          /\ mReturnedIndex' = <<>>
      BY <2>1, <2>3, <1>1 DEF TakeIndex
    <3>2. Elements(mReturnedIndex') = {} /\ NoDuplicates(mReturnedIndex')
      BY <3>1, ElementsOfSmall, NoDuplicatesInSmall
    <3>3. \A j \in Instance \ {i} : HoldsIndex(j)' => mIndex'[j] < mCurrentIndex
      BY <2>2 DEF IndexOK
    <3>4. \A j \in Instance : HoldsIndex(j)' => mIndex'[j] < mCurrentIndex'
      BY <3>1, <3>3, <1>1, <2>2
    <3>5. \A j, k \in Instance :
            HoldsIndex(j)' /\ HoldsIndex(k)' /\ mIndex'[j] = mIndex'[k] => j = k
      BY <3>1, <3>3, <1>1, <2>2 DEF IndexOK, IndexIsExclusive
    <3> QED
      BY <3>2, <3>4, <3>5 DEF IndexOK, IndexIsExclusive
  <2>4. CASE mReturnedIndex # <<>>
    <3> DEFINE n == Head(mReturnedIndex)
    <3>1. /\ n \in Nat /\ Tail(mReturnedIndex) \in Seq(Nat)
          /\ mReturnedIndex = <<n>> \o Tail(mReturnedIndex)
      BY <1>1, <2>4, HeadAndTail
    <3>2. /\ mIndex'[i] = n /\ mCurrentIndex' = mCurrentIndex
          /\ mReturnedIndex' = Tail(mReturnedIndex)
      BY <2>1, <2>4, <1>1 DEF TakeIndex
    <3> HIDE DEF n
    <3>3. /\ Elements(mReturnedIndex) = Elements(mReturnedIndex') \cup {n}
          /\ NoDuplicates(mReturnedIndex') /\ n \notin Elements(mReturnedIndex')
      <4>1. NoDuplicates(mReturnedIndex) /\ mReturnedIndex = <<n>> \o mReturnedIndex'
        BY <3>1, <3>2 DEF IndexOK
      <4>2. JoinsOne(mReturnedIndex', n)
        BY <1>1a, <3>1, <3>2
      <4> QED
        BY <4>1, <4>2 DEF JoinsOne
    <3>4. \A j \in Instance \ {i} :
            HoldsIndex(j)' => /\ mIndex'[j] < mCurrentIndex
                              /\ mIndex'[j] \notin Elements(mReturnedIndex)
      BY <2>2 DEF IndexOK, IndexIsExclusive
    <3>5. n < mCurrentIndex /\ \A m \in Elements(mReturnedIndex') : m < mCurrentIndex
      BY <3>3 DEF IndexOK
    <3>6. \A j, k \in Instance :
            HoldsIndex(j)' /\ HoldsIndex(k)' /\ mIndex'[j] = mIndex'[k] => j = k
      BY <3>2, <3>3, <3>4, <2>2 DEF IndexOK, IndexIsExclusive
    <3>7. \A j \in Instance :
            HoldsIndex(j)' => /\ mIndex'[j] < mCurrentIndex
                              /\ mIndex'[j] \notin Elements(mReturnedIndex')
      BY <3>2, <3>3, <3>4, <3>5
    <3> QED
      BY <3>2, <3>3, <3>5, <3>6, <3>7 DEF IndexOK, IndexIsExclusive
  <2> QED
    BY <2>3, <2>4
<1>3. CASE DestroyReturnIndex
  <2>0. PICK h \in Instance : h = Head(cache)
    BY <1>3, HeadOfCache DEF DestroyReturnIndex
  <2>1. PICK n \in Nat : n = mIndex[h]
    BY <1>1, <2>0
  <2>2. HoldsIndex(h)
    BY <1>3, <2>0 DEF DestroyReturnIndex, HoldsIndex
  <2>3. ~HoldsIndex(h)'
    BY <1>3, <2>0 DEF DestroyReturnIndex, HoldsIndex
  <2>4. \A j \in Instance : HoldsIndex(j)' => HoldsIndex(j)
    BY <1>3 DEF DestroyReturnIndex, HoldsIndex
  <2>5. mReturnedIndex' = mReturnedIndex \o <<n>> /\ UNCHANGED <<mIndex, mCurrentIndex>>
    BY <1>1, <1>3, <2>0, <2>1 DEF DestroyReturnIndex
  <2>6. n < mCurrentIndex /\ n \notin Elements(mReturnedIndex)
          /\ \A j \in Instance : HoldsIndex(j)' => mIndex[j] # n
    BY <2>1, <2>2, <2>3, <2>4 DEF IndexOK, IndexIsExclusive
  <2>7. /\ Elements(mReturnedIndex') = Elements(mReturnedIndex) \cup {n}
        /\ NoDuplicates(mReturnedIndex')
    <3>1. NoDuplicates(mReturnedIndex)
      BY DEF IndexOK
    <3>2. JoinsOne(mReturnedIndex, n)
      BY <1>1, <1>1a, Zenon
    <3> QED
      BY <2>5, <2>6, <3>1, <3>2 DEF JoinsOne
  <2> QED
    BY <2>4, <2>5, <2>6, <2>7 DEF IndexOK, IndexIsExclusive
<1>4. CASE DestroyCheck
  <2>1. Head(cache) \in Instance /\ Head(cache) \in Created
          /\ Head(cache) \notin Elements(destroyed)
    BY <1>4, HeadOfCache DEF DestroyCheck, PlacesOK
  <2>2. status[Head(cache)] \in {"running", "ordered", "stopped"}
    BY <2>1 DEF Created, StatusOK, TypeOK
  <2>3. \A i \in Instance : HoldsIndex(i)' => HoldsIndex(i)
    BY <1>4, <2>1, <2>2 DEF DestroyCheck, HoldsIndex, TypeOK
  <2> QED
    BY <1>4, <2>3, IndexFrame DEF DestroyCheck
<1>5. CASE DestroyDelete
  <2>1. Head(cache) \in Instance
    BY <1>5, HeadOfCache DEF DestroyDelete, mDisposal!Destroyed
  <2>2. \A i \in Instance : HoldsIndex(i)' => HoldsIndex(i)
    BY <1>5, <2>1 DEF DestroyDelete, HoldsIndex, TypeOK
  <2> QED
    BY <1>5, <2>2, IndexFrame DEF DestroyDelete
<1>6. ASSUME NEW i \in Instance, InstanceStop(i) \/ InstanceStopped(i)
      PROVE  IndexOK'
  <2>1. \A j \in Instance : HoldsIndex(j)' => HoldsIndex(j)
    BY <1>6 DEF InstanceStop, InstanceStopped, HoldsIndex, TypeOK
  <2> QED
    BY <1>6, <2>1, IndexFrame DEF InstanceStop, InstanceStopped
<1>7. CASE DisposalCopy
  <2>1. destroyPc # "delete"
    BY <1>7 DEF DisposalCopy, mDisposal!Copy, DisposalOK
  <2>2. \A i \in Instance : HoldsIndex(i)' => HoldsIndex(i)
    BY <1>7, <2>1 DEF DisposalCopy, HoldsIndex
  <2> QED
    BY <1>7, <2>2, IndexFrame DEF DisposalCopy
<1>8. CASE UNCHANGED <<status, destroyPc, cache, index>>
  <2>1. \A i \in Instance : HoldsIndex(i)' => HoldsIndex(i)
    BY <1>8 DEF HoldsIndex
  <2> QED
    BY <1>8, <2>1, IndexFrame
<1>9. \/ UNCHANGED <<status, destroyPc, cache, index>>
      \/ DestroyReturnIndex \/ DestroyCheck \/ DestroyDelete \/ DisposalCopy
      \/ \E i \in Instance : AcceptNew(i) \/ InstanceStop(i) \/ InstanceStopped(i)
  BY DEF Next, vars, InitStep, InitBegin, InitStartIo, InitStartDisposal, InitEnd,
         mDisposal!Start, OrderStop, StopStep, StopBegin, StopIo, StopJoinIo, StopMove,
         StopRequest, StopJoin, mDisposal!Move, mDisposal!RequestStop, AcceptPush, IoExit,
         GetConnections, ReturnConnections, DisposalStep, DisposalTest, mDisposal!Test,
         Terminated
<1> QED
  BY <1>2, <1>3, <1>4, <1>5, <1>6, <1>7, <1>8, <1>9

-----------------------------------------------------------------------------
(* Nothing is lost *)

(* In each step the disposal's line stays as it is, or grows at its end.     *)
LEMMA LineGrows ==
    ASSUME TypeOK, DisposalOK, [Next]_vars
    PROVE  /\ mDisposal!Moved \in Seq(Instance)
           /\ \E t \in Seq(Instance) : mDisposal!Moved' = mDisposal!Moved \o t
           /\ \E t \in Seq(Instance) : destroyed' = destroyed \o t
<1>1. /\ mDequeDisposal \in Seq(Instance) /\ cache \in Seq(Instance)
      /\ destroyed \in Seq(Instance) /\ mConnections \in Seq(Instance)
      /\ <<>> \in Seq(Instance)
  BY EmptySeq DEF TypeOK, mDisposal!TypeOK
<1>2. destroyed \o cache \in Seq(Instance) /\ mDisposal!Moved \in Seq(Instance)
  BY <1>1 DEF mDisposal!Moved
<1>3. mDisposal!Moved = mDisposal!Moved \o <<>> /\ destroyed = destroyed \o <<>>
  BY <1>1, <1>2, ConcatLaws
<1>4. ASSUME NEW items \in Seq(Instance), mDisposal!Move(items)
      PROVE  mDisposal!Moved' = mDisposal!Moved \o items /\ destroyed' = destroyed
  <2>1. Regroups(destroyed \o cache, mDequeDisposal, items)
    BY <1>1, <1>2, Regrouping, Zenon
  <2> QED
    BY <1>4, <2>1 DEF mDisposal!Moved, mDisposal!Move, Regroups
<1>5. CASE DisposalCopy
  <2>1. Regroups(destroyed, cache, mDequeDisposal)
    BY <1>1, Regrouping, Zenon
  <2>2. destroyed' \o cache' = mDisposal!Moved /\ mDequeDisposal' = <<>>
          /\ destroyed' = destroyed
    BY <1>5, <2>1 DEF DisposalCopy, mDisposal!Copy, mDisposal!Moved, Regroups
  <2>3. mDisposal!Moved' = mDisposal!Moved \o <<>>
    BY <2>2 DEF mDisposal!Moved
  <2> QED
    BY <1>1, <1>2, <1>3, <2>2, <2>3
<1>6. CASE DestroyDelete
  <2>1. cache # <<>>
    BY <1>6 DEF DestroyDelete, mDisposal!Destroyed, DisposalOK
  <2>2. MovesOn(destroyed, cache) /\ <<Head(cache)>> \in Seq(Instance)
    BY <1>1, <2>1, HeadMovesOn, Zenon
  <2>3. /\ destroyed' \o cache' = destroyed \o cache
        /\ destroyed' = destroyed \o <<Head(cache)>>
        /\ UNCHANGED mDequeDisposal
    BY <1>6, <2>2 DEF DestroyDelete, mDisposal!Destroyed, MovesOn
  <2>4. mDisposal!Moved' = mDisposal!Moved
    BY <2>3 DEF mDisposal!Moved
  <2> QED
    BY <1>1, <1>2, <1>3, <2>2, <2>3, <2>4
<1>7. CASE StopMove
  BY <1>1, <1>2, <1>3, <1>4, <1>7 DEF StopMove
<1>8. ASSUME NEW i \in Instance, ReturnConnections(i)
      PROVE  mDisposal!Move(<<i>>) /\ <<i>> \in Seq(Instance)
  BY <1>8 DEF ReturnConnections
<1>8a. CASE UNCHANGED <<mDequeDisposal, cache, destroyed>>
  <2>1. mDisposal!Moved' = mDisposal!Moved
    BY <1>8a DEF mDisposal!Moved
  <2> QED
    BY <1>1, <1>2, <1>3, <1>8a, <2>1
<1>9. \/ UNCHANGED <<mDequeDisposal, cache, destroyed>>
      \/ DisposalCopy \/ DestroyDelete \/ StopMove
      \/ \E i \in Instance : ReturnConnections(i)
  BY DEF Next, vars, disposal, InitStep, InitBegin, InitStartIo, InitStartDisposal,
         InitEnd, mDisposal!Start, OrderStop, StopStep, StopBegin, StopIo, StopJoinIo,
         StopRequest, StopJoin, mDisposal!RequestStop, AcceptNew, AcceptPush, IoExit,
         GetConnections, InstanceStop, InstanceStopped, DisposalStep, DisposalTest,
         mDisposal!Test, DestroyCheck, DestroyReturnIndex, Terminated
<1> QED
  BY <1>1, <1>2, <1>3, <1>4, <1>5, <1>6, <1>7, <1>8, <1>8a, <1>9

-----------------------------------------------------------------------------
(* The theorems *)

(* The invariant holds at the start. *)
LEMMA InvInit == Init => Inv
<1>1. ASSUME Init
      PROVE  Inv
  <2> USE <1>1 DEF Init, mDisposal!Init
  <2>1. TypeOK
    BY TypeInit
  <2>2. ThreadsOK /\ DisposalOK
    BY DEF ThreadsOK, DisposalOK, NewCore
  <2>3. Created = {} /\ InHandler = {} /\ \A i \in Instance : ~HoldsIndex(i)
    BY DEF Created, InHandler, HoldsIndex
  <2>4. PlacesOK
    BY <2>3, ElementsOfSmall, NoDuplicatesInSmall DEF PlacesOK
  <2>5. StatusOK
    BY ElementsOfSmall DEF StatusOK
  <2>6. IndexOK
    BY <2>3, ElementsOfSmall, NoDuplicatesInSmall DEF IndexOK, IndexIsExclusive
  <2> QED
    BY <2>1, <2>2, <2>4, <2>5, <2>6 DEF Inv
<1> QED
  BY <1>1

(* The invariant holds always: it is inductive. *)
LEMMA Invariant == Spec => []Inv
<1>1. Inv /\ [Next]_vars => Inv'
  BY TypeStep, ThreadsStep, DisposalStepOK, PlacesStep, StatusStep, IndexStep DEF Inv
<1> QED
  BY InvInit, <1>1, PTL DEF Spec

(* The factory and its disposal keep their types: what is connected, cached  *)
(* or destroyed is an instance, which rests on the disposal thread never     *)
(* reaching its lambda with an empty cache.                                  *)
THEOREM TypeCorrect == Spec => []TypeOK
<1>1. Inv => TypeOK
  BY DEF Inv
<1> QED
  BY <1>1, Invariant, PTL

(* Each created instance has one owner, and a stopped factory and its        *)
(* disposal thread hold nothing, however many connections there are.         *)
THEOREM OwnedOnceHolds == Spec => []OwnedOnce
<1>1. ASSUME Inv
      PROVE  OwnedOnce
  <2>1. /\ mDequeDisposal \in Seq(Instance) /\ cache \in Seq(Instance)
        /\ destroyed \in Seq(Instance) /\ mConnections \in Seq(Instance)
    BY <1>1 DEF Inv, TypeOK, mDisposal!TypeOK
  <2>2. destroyed \o cache \in Seq(Instance) /\ mDisposal!Moved \in Seq(Instance)
    BY <2>1, ConcatLaws DEF mDisposal!Moved
  <2>3. Joins(destroyed, cache) /\ Joins(destroyed \o cache, mDequeDisposal)
    BY <2>1, <2>2, Joining, Zenon
  <2>4. Joins(mDisposal!Moved, mConnections)
    BY <2>1, <2>2, Joining, Zenon
  <2>5. PlacesOK
    BY <1>1 DEF Inv
  <2>6. NoDuplicates(Queued)
    BY <2>3, <2>4, <2>5 DEF PlacesOK, Joins, Queued, mDisposal!Moved
  <2>7. /\ handed \cap Elements(Queued) = {}
        /\ InHandler \cap (handed \cup Elements(Queued)) = {}
        /\ Created = InHandler \cup handed \cup Elements(Queued)
    BY <2>3, <2>4, <2>5 DEF PlacesOK, Joins, Queued, mDisposal!Moved
  <2>8. IsInState(core, "Stopped") =>
          mConnections = <<>> /\ cache = <<>> /\ ioPc \in {"none", "exited"}
    <3>1. IsInState(core, "Stopped") => stopPc = "done"
      BY <1>1 DEF Inv, ThreadsOK, TypeOK, IsInState
    <3> QED
      BY <1>1, <3>1 DEF Inv, ThreadsOK, DisposalOK
  <2> QED
    BY <2>6, <2>7, <2>8 DEF OwnedOnce
<1> QED
  BY <1>1, Invariant, PTL

(* No two instances that live hold one index, and no index on the list of    *)
(* returned ones is held, although indices are reused without end.           *)
THEOREM IndexIsExclusiveHolds == Spec => []IndexIsExclusive
<1>1. Inv => IndexIsExclusive
  BY DEF Inv, IndexOK
<1> QED
  BY <1>1, Invariant, PTL

(* No step of a bridge, of the accepting thread, of the disposal or of a     *)
(* stop loses, repeats or reorders what was handed in for disposal.          *)
THEOREM NothingLostHolds == Spec => NothingLost
<1>1. ASSUME Inv, [Next]_vars
      PROVE  /\ mDisposal!Moved = SubSeq(mDisposal!Moved', 1, Len(mDisposal!Moved))
             /\ destroyed = SubSeq(destroyed', 1, Len(destroyed))
  <2>1. TypeOK /\ DisposalOK
    BY <1>1 DEF Inv
  <2>2. destroyed \in Seq(Instance)
    BY <2>1 DEF TypeOK, mDisposal!TypeOK
  <2>3. /\ mDisposal!Moved \in Seq(Instance)
        /\ \E t \in Seq(Instance) : mDisposal!Moved' = mDisposal!Moved \o t
    BY <1>1, <2>1, LineGrows, Zenon
  <2>4. IsFront(mDisposal!Moved, mDisposal!Moved')
    BY <2>3, FrontOfConcat, Zenon
  <2>5. \E t \in Seq(Instance) : destroyed' = destroyed \o t
    BY <1>1, <2>1, LineGrows, Zenon
  <2>6. IsFront(destroyed, destroyed')
    BY <2>2, <2>5, FrontOfConcat, Zenon
  <2> QED
    BY <2>4, <2>6 DEF IsFront
<1> QED
  BY <1>1, Invariant, PTL DEF Spec, NothingLost

-----------------------------------------------------------------------------
(* The life cycle *)

(* Each step of a factory is a step of Lifecycle, or leaves it as it is:     *)
(* the transition that works is the one that the flag of the core stands     *)
(* for, so none begins while another works and none after the last.          *)
LEMMA LifecycleStep ==
    ASSUME Inv, [Next]_vars
    PROVE  [AsLifecycle!Next]_Phase
<1> USE DEF Phase, PhaseOf
<1>1. TypeOK /\ ThreadsOK
  BY DEF Inv
<1>2. CASE InitBegin
  <2>1. CASE MayInitialize(core)
    <3>1. stopPc = "none"
      BY <1>1, <1>2, <2>1 DEF InitBegin, MayDecide, MayInitialize, ThreadsOK, TypeOK
    <3>2. AsLifecycle!BeginInitializing
      BY <1>1, <1>2, <2>1, <3>1 DEF InitBegin, MayDecide, MayInitialize,
         BeginInitializing, AsLifecycle!BeginInitializing, TypeOK, StateMachineCore
    <3> QED
      BY <3>2 DEF AsLifecycle!Next
  <2>2. CASE ~MayInitialize(core)
    BY <1>2, <2>2 DEF InitBegin
  <2> QED
    BY <2>1, <2>2
<1>3. CASE InitEnd
  <2>1. AsLifecycle!EndInitializing
    BY <1>1, <1>3 DEF InitEnd, EndInitializing, AsLifecycle!EndInitializing, TypeOK,
       ThreadsOK, StateMachineCore
  <2> QED
    BY <2>1 DEF AsLifecycle!Next
<1>4. CASE StopBegin
  <2>1. AsLifecycle!BeginStopping
    BY <1>1, <1>4 DEF StopBegin, MayDecide, MayStop, BeginStopping,
       AsLifecycle!BeginStopping, TypeOK, StateMachineCore
  <2> QED
    BY <2>1 DEF AsLifecycle!Next
<1>5. CASE StopJoin
  <2>1. AsLifecycle!EndStopping
    BY <1>1, <1>5 DEF StopJoin, EndStopping, AsLifecycle!EndStopping, TypeOK, ThreadsOK,
       StateMachineCore
  <2> QED
    BY <2>1 DEF AsLifecycle!Next
<1>6. CASE UNCHANGED core /\ (stopPc' # "none") = (stopPc # "none")
  BY <1>6
<1> QED
  BY <1>2, <1>3, <1>4, <1>5, <1>6
  DEF Next, vars, life, InitStep, InitStartIo, InitStartDisposal, StopStep, StopIo,
      StopJoinIo, StopMove, StopRequest, OrderStop, AcceptNew, AcceptPush, IoExit,
      GetConnections, ReturnConnections, InstanceStop, InstanceStopped, DisposalStep,
      DisposalCopy, DisposalTest, DestroyCheck, DestroyReturnIndex, DestroyDelete,
      Terminated

(* A factory starts at most once and stops at most once, never both at a     *)
(* time, whatever connects, is returned or is disposed of meanwhile: it      *)
(* implements Lifecycle.                                                     *)
THEOREM LifecycleHolds == Spec => ImplementsLifecycle
<1>1. Init => AsLifecycle!Init
  BY DEF Init, AsLifecycle!Init, NewCore, Phase, PhaseOf
<1>2. Inv /\ [Next]_vars => [AsLifecycle!Next]_Phase
  BY LifecycleStep
<1> QED
  BY <1>1, <1>2, Invariant, PTL DEF Spec, ImplementsLifecycle, AsLifecycle!Safety

=============================================================================
