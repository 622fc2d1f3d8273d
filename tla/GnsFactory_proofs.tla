-------------------------- MODULE GnsFactory_proofs --------------------------
(***************************************************************************)
(* Proofs about GnsInstance and about GnsFactory, which composes it, for   *)
(* every capacity and any number of messages.                              *)
(***************************************************************************)
EXTENDS GnsFactory, SequenceLemmas, TLAPS

-----------------------------------------------------------------------------
(* The inductive invariant of the instance *)

\* InternalStop is under way.
TeardownWorks ==
    teardownPc \in {"close", "unregister", "invalidate", "requestStop", "join"}

(* InternalStop runs in the one transition that works, and CtxWorker between *)
(* its start and the join.                                                   *)
ThreadsOK ==
    /\ initPc \in {"connect", "register", "startCtx", "end"} =>
         core.mIsInTransition /\ teardownPc = "none"
    /\ initPc = "failing" => TeardownWorks
    /\ TeardownWorks => core.mIsInTransition
    /\ teardownPc = "none" => core.mState # "Stopped"
    /\ teardownPc = "done" => core.mState = "Stopped"
    /\ ctxPc # "none" => initPc \in {"end", "done"}
    /\ teardownPc = "done" => ctxPc \in {"none", "exited"}

(* Who knows of the connection: the library, the instance, the router and a  *)
(* callback that is under way; and what a teardown has undone so far.        *)
ConnectionOK ==
    /\ initPc \in {"spawned", "connect", "failing"} =>
         mGnsConnection = "invalid" /\ connection = "none"
    /\ initPc \in {"register", "startCtx", "end"} => mGnsConnection = "handle"
    /\ pollPc = "stop" => registered
    /\ registered => mGnsConnection = "handle"
    /\ mGnsConnection = "invalid" /\ teardownPc \in {"none", "close"} =>
         connection = "none"
    /\ teardownPc \in {"unregister", "invalidate", "requestStop", "join", "done"} =>
         connection \in {"none", "closed"}
    /\ teardownPc \in {"invalidate", "requestStop", "join", "done"} => ~registered
    /\ teardownPc \in {"requestStop", "join", "done"} => mGnsConnection = "invalid"

(* What has arrived is what the bridge took, followed by what waits for it   *)
(* and by what CtxWorker holds.                                              *)
ReceivedOK ==
    /\ Len(arrived) + mGnsMessages <= MaxFrames
    /\ arrived = taken \o mRecvMsg \o incoming

(* What was given is what was sent, followed by what CtxWorker holds and by  *)
(* what waits for it, until the connection is closed.                        *)
GivenOK ==
    /\ \E rest \in Seq(Message) : given = sent \o rest
    /\ connection # "closed" => given = sent \o outbound \o mSendMsg
    /\ ctxPc \in {"sendTest", "send"} => outbound # <<>>

Inv == TypeOK /\ ThreadsOK /\ ConnectionOK /\ ReceivedOK /\ GivenOK

-----------------------------------------------------------------------------
(* The inductive invariant of the factory *)

(* The factory runs while a bridge has the instance; and an instance that no *)
(* bridge has is one that has not begun or one that is stopped.              *)
PlaceOK ==
    /\ place = "none" => initPc = "spawned" /\ teardownPc = "none"
    /\ place \in {"returned", "deleted"} => teardownPc = "done"
    /\ place = "bridge" => ~factoryStopOrdered /\ IsInState(factoryCore, "Running")

(* Where the factory's threads can be, and what is up while they are there.  *)
FactoryOK ==
    /\ ~factoryStopOrdered => factoryStopPc = "none"
    /\ factoryInitPc = "spawned" => ~factoryCore.mHasRunInitializing
    /\ factoryInitPc \in {"library", "sockets", "disposal", "poll", "end"} =>
         factoryCore.mIsInTransition /\ factoryStopPc = "none"
    /\ factoryInitPc \in {"spawned", "library", "sockets", "disposal", "poll"} =>
         mTdPoll = "none"
    /\ factoryInitPc \in {"spawned", "library", "sockets", "disposal", "poll", "end"} =>
         place = "none"
    /\ factoryStopPc = "none" => factoryCore.mState # "Stopped"
    /\ factoryStopPc \in {"joinPoll", "sockets", "disposal", "joinDisposal", "kill"} =>
         factoryCore.mIsInTransition
    /\ factoryStopPc = "done" => factoryCore.mState = "Stopped"
    /\ factoryStopPc \in {"sockets", "disposal", "joinDisposal", "kill", "done"} =>
         mTdPoll # "loop"
    /\ fatal => place = "none" /\ mTdPoll = "none"
    /\ IsInState(factoryCore, "Running") => factoryInitPc = "done"

(* The library and its interface are there once the constructor's thread has *)
(* got them, until the stop has joined the poll thread.                      *)
LibraryOK ==
    ~fatal =>
      /\ factoryInitPc \in {"sockets", "disposal", "poll", "end"} => steam = "up"
      /\ factoryInitPc \in {"disposal", "poll", "end"} => mGnsSockets = "sockets"
      /\ factoryInitPc = "done" /\ factoryStopPc = "none" =>
           steam = "up" /\ mGnsSockets = "sockets"
      /\ mTdPoll = "loop" => steam = "up" /\ mGnsSockets = "sockets"

FactoryInv ==
    /\ Inv /\ FactoryTypeOK /\ (tdDisposal = "destroy" => cache # <<>>)
    /\ PlaceOK /\ FactoryOK /\ LibraryOK

-----------------------------------------------------------------------------
(* Typing *)

(* The next number of a stream, and a list of them, are messages. *)
LEMMA MessageTyping ==
    /\ MaxFrames \in Nat /\ MaxGiven \in Nat
    /\ 1..MaxFrames \subseteq Message /\ 1..MaxGiven \subseteq Message
    /\ \A n \in Nat : \A m \in n..MaxGiven : Following(n, m) \in Seq(Message)
<1>1. MaxFrames \in Nat /\ MaxGiven \in Nat
  BY BoundsAssumption
<1>2. 1..MaxFrames \subseteq Message /\ 1..MaxGiven \subseteq Message
  BY <1>1 DEF Message
<1>3. ASSUME NEW n \in Nat, NEW m \in n..MaxGiven
      PROVE  Following(n, m) \in Seq(Message)
  <2>1. m - n \in Nat /\ \A k \in 1..(m - n) : n + k \in 1..MaxGiven
    BY <1>1
  <2> QED
    BY <2>1, <1>2 DEF Following
<1> QED
  BY <1>1, <1>2, <1>3

(* The transitions of a state machine keep its type. *)
LEMMA CoreTyping ==
    ASSUME NEW c \in StateMachineCore
    PROVE  /\ BeginInitializing(c) \in StateMachineCore
           /\ BeginStopping(c) \in StateMachineCore
           /\ \A b \in BOOLEAN : EndInitializing(c, b) \in StateMachineCore
           /\ EndStopping(c) \in StateMachineCore
BY DEF StateMachineCore, States, BeginInitializing, BeginStopping,
       EndInitializing, EndStopping

(* The queues and the histories, and what is left to arrive. *)
LEMMA QueueTyping ==
    TypeOK => /\ incoming \in Seq(Message) /\ mRecvMsg \in Seq(Message)
              /\ outbound \in Seq(Message) /\ mSendMsg \in Seq(Message)
              /\ arrived \in Seq(Message) /\ taken \in Seq(Message)
              /\ given \in Seq(Message) /\ sent \in Seq(Message)
              /\ Len(arrived) \in Nat /\ Len(given) \in Nat
              /\ mGnsMessages \in Nat
BY DEF TypeOK

(* Each step keeps the types; that of a sent message needs that there is one, *)
(* and that of a parsed one that the server sends no more than MaxFrames.    *)
LEMMA TypeStep == ASSUME TypeOK, ReceivedOK, GivenOK, [Next]_vars PROVE TypeOK'
<1> USE DEF TypeOK, life, library, recvSide, sendSide
<1>1. CASE InitStep
  <2>1. CASE InitConnect
    <3>1. "news" \in Change
      BY DEF Change
    <3> QED
      BY <2>1, <3>1 DEF InitConnect
  <2>2. CASE InitStep /\ ~InitConnect
    BY <2>2, CoreTyping DEF InitStep, InitBegin, InitFail, InitRegister, InitStartCtx, InitEnd
  <2> QED
    BY <1>1, <2>1, <2>2
<1>2. CASE StopStep
  BY <1>2, CoreTyping DEF StopStep, StopBegin, DisconnectClose, DisconnectUnregister,
     DisconnectInvalidate, RequestStop, TeardownEnd
<1>3. CASE OrderStop
  BY <1>3 DEF OrderStop
<1>4. CASE CtxStep
  <2>1. CASE CtxTop
    BY <2>1 DEF CtxTop
  <2>2. CASE CtxSwap
    BY <2>2 DEF CtxSwap
  <2>3. CASE SendTest \/ RecvTest
    BY <2>3 DEF SendTest, RecvTest
  <2>4. CASE SendGns
    <3>1. Head(outbound) \in Message /\ Tail(outbound) \in Seq(Message)
      BY <2>4, HeadAndTail DEF SendGns, GivenOK
    <3> QED
      BY <2>4, <3>1 DEF SendGns
  <2>5. CASE Receive
    <3>1. mGnsMessages' \in 0..MaxFrames
      <4>1. mGnsMessages' \in {0} \/ mGnsMessages' \in 0..(MaxFrames - Len(arrived))
        BY <2>5, Zenon DEF Receive
      <4> QED
        BY <4>1, MessageTyping, QueueTyping
    <3> QED
      BY <2>5, <3>1 DEF Receive
  <2>6. CASE Parse
    <3>1. CASE mGnsMessages = 0
      BY <2>6, <3>1 DEF Parse
    <3>2. CASE mGnsMessages # 0
      <4>1. Len(arrived) + 1 \in Message /\ mGnsMessages - 1 \in 0..MaxFrames
        BY <3>2, MessageTyping, QueueTyping DEF ReceivedOK
      <4>2. /\ Append(arrived, Len(arrived) + 1) \in Seq(Message)
            /\ Append(incoming, Len(arrived) + 1) \in Seq(Message)
        BY <4>1
      <4>3. /\ mGnsMessages' = mGnsMessages - 1
            /\ arrived' = Append(arrived, Len(arrived) + 1)
            /\ incoming' = Append(incoming, Len(arrived) + 1)
            /\ UNCHANGED <<life, stopOrdered, ctxPc, userPc, library, mRecvMsg, taken,
                           sendSide>>
        BY <2>6, <3>2, Zenon DEF Parse
      <4> QED
        BY <4>1, <4>2, <4>3
    <3> QED
      BY <3>1, <3>2
  <2>7. CASE CtxMove
    <3>1. stopOrdered' \in BOOLEAN
      BY <2>7 DEF CtxMove, CheckSize
    <3> QED
      BY <2>7, <3>1 DEF CtxMove
  <2> QED
    BY <1>4, <2>1, <2>2, <2>3, <2>4, <2>5, <2>6, <2>7 DEF CtxStep
<1>5. CASE UserCheck
  BY <1>5 DEF UserCheck
<1>6. CASE UserStep
  <2>1. CASE UserSend
    <3>1. PICK m \in Len(given)..MaxGiven :
             /\ given' = given \o Following(Len(given), m)
             /\ mSendMsg' = mSendMsg \o Following(Len(given), m)
      BY <2>1 DEF UserSend
    <3>2. Following(Len(given), m) \in Seq(Message)
      BY MessageTyping
    <3>3. stopOrdered' \in BOOLEAN
      BY <2>1 DEF UserSend, CheckSize
    <3> QED
      BY <2>1, <3>1, <3>2, <3>3 DEF UserSend
  <2>2. CASE UserRecv
    BY <2>2 DEF UserRecv
  <2> QED
    BY <1>6, <2>1, <2>2 DEF UserStep
<1>7. CASE Lose
  <2>1. "loss" \in Change
    BY DEF Change
  <2> QED
    BY <1>7, <2>1 DEF Lose
<1>8. CASE PollDispatch
  <2>1. Head(posted) \in Change /\ Tail(posted) \in Seq(Change)
    BY <1>8, HeadAndTail DEF PollDispatch
  <2> QED
    BY <1>8, <2>1 DEF PollDispatch
<1>9. CASE PollHandle
  BY <1>9 DEF PollHandle
<1>10. CASE UNCHANGED vars
  BY <1>10 DEF vars
<1> QED
  BY <1>1, <1>2, <1>3, <1>4, <1>5, <1>6, <1>7, <1>8, <1>9, <1>10
  DEF Next, PollStep, Terminated

-----------------------------------------------------------------------------
(* Threads and the connection *)

(* Each step keeps what is known of the threads from where they are. *)
LEMMA ThreadsStep == ASSUME TypeOK, ThreadsOK, [Next]_vars PROVE ThreadsOK'
<1> USE DEF ThreadsOK, TeardownWorks, life
<1>1. CASE InitBegin
  BY <1>1 DEF InitBegin, MayDecide, MayInitialize, BeginInitializing, TypeOK,
     StateMachineCore
<1>2. CASE InitFail \/ InitConnect \/ InitRegister \/ InitStartCtx
  BY <1>2 DEF InitFail, InitConnect, InitRegister, InitStartCtx
<1>3. CASE InitEnd
  BY <1>3 DEF InitEnd, EndInitializing, TypeOK, StateMachineCore
<1>4. CASE StopBegin
  BY <1>4 DEF StopBegin, MayDecide, MayStop, BeginStopping, TypeOK, StateMachineCore
<1>5. CASE DisconnectClose \/ DisconnectUnregister \/ DisconnectInvalidate \/ RequestStop
  BY <1>5 DEF DisconnectClose, DisconnectUnregister, DisconnectInvalidate, RequestStop
<1>6. CASE TeardownEnd
  BY <1>6 DEF TeardownEnd, EndInitializing, EndStopping, TypeOK, StateMachineCore
<1>7. CASE CtxStep
  <2>1. UNCHANGED <<core, initPc, teardownPc>>
    BY <1>7, Zenon DEF CtxStep, CtxTop, CtxSwap, SendTest, SendGns, RecvTest, Receive,
       Parse, CtxMove
  <2>2. ctxPc \notin {"none", "exited"}
    BY <1>7 DEF CtxStep, CtxTop, CtxSwap, SendTest, SendGns, RecvTest, Receive, Parse, CtxMove
  <2> QED
    BY <2>1, <2>2
<1>8. CASE OrderStop \/ UserCheck \/ UserStep \/ Lose \/ PollStep \/ UNCHANGED vars
  <2>1. UNCHANGED <<core, initPc, teardownPc, ctxPc>>
    BY <1>8, Zenon DEF OrderStop, UserCheck, UserStep, UserSend, UserRecv, Lose, PollStep,
       PollDispatch, PollHandle, vars
  <2> QED
    BY <2>1
<1> QED
  BY <1>1, <1>2, <1>3, <1>4, <1>5, <1>6, <1>7, <1>8
  DEF Next, InitStep, StopStep, Terminated

(* Each step keeps what is known of the connection.  UnregisterClient waits   *)
(* for a callback that is under way, and after it none begins.               *)
LEMMA ConnectionStep ==
    ASSUME TypeOK, ThreadsOK, ConnectionOK, [Next]_vars
    PROVE  ConnectionOK'
<1> USE DEF ConnectionOK, life, library
<1>1. CASE InitBegin \/ InitFail
  BY <1>1 DEF InitBegin, InitFail, ThreadsOK
<1>2. CASE InitConnect
  BY <1>2 DEF InitConnect, ThreadsOK
<1>3. CASE InitRegister
  BY <1>3 DEF InitRegister, ThreadsOK
<1>4. CASE InitStartCtx \/ InitEnd
  <2>1. /\ UNCHANGED <<mGnsConnection, connection, registered, pollPc, teardownPc>>
        /\ initPc \in {"startCtx", "end"} /\ initPc' \in {"end", "done"}
    BY <1>4 DEF InitStartCtx, InitEnd
  <2> QED
    BY <2>1
<1>5. CASE StopBegin
  BY <1>5 DEF StopBegin
<1>6. CASE DisconnectClose
  BY <1>6 DEF DisconnectClose, TypeOK, ThreadsOK, TeardownWorks
<1>7. CASE DisconnectUnregister
  BY <1>7 DEF DisconnectUnregister
<1>8. CASE DisconnectInvalidate
  BY <1>8 DEF DisconnectInvalidate, ThreadsOK, TeardownWorks
<1>9. CASE RequestStop \/ TeardownEnd
  <2>1. /\ UNCHANGED <<mGnsConnection, connection, registered, pollPc>>
        /\ teardownPc \in {"requestStop", "join"} /\ teardownPc' \in {"join", "done"}
        /\ initPc' \in {initPc, "done"}
    BY <1>9 DEF RequestStop, TeardownEnd
  <2> QED
    BY <2>1
<1>10. CASE Lose
  BY <1>10 DEF Lose
<1>11. CASE PollStep
  BY <1>11 DEF PollStep, PollDispatch, PollHandle
<1>12. CASE OrderStop \/ CtxStep \/ UserCheck \/ UserStep \/ UNCHANGED vars
  <2>1. UNCHANGED <<initPc, teardownPc, mGnsConnection, connection, registered, pollPc>>
    BY <1>12, Zenon DEF OrderStop, CtxStep, CtxTop, CtxSwap, SendTest, SendGns, RecvTest,
       Receive, Parse, CtxMove, UserCheck, UserStep, UserSend, UserRecv, vars
  <2> QED
    BY <2>1
<1> QED
  BY <1>1, <1>2, <1>3, <1>4, <1>5, <1>6, <1>7, <1>8, <1>9, <1>10, <1>11, <1>12
  DEF Next, InitStep, StopStep, Terminated

-----------------------------------------------------------------------------
(* The two streams *)

(* Each step of CtxWorker and of the bridge moves what arrives on in order. *)
LEMMA ReceivedStep ==
    ASSUME TypeOK, ReceivedOK, [Next]_vars
    PROVE  ReceivedOK'
<1> USE DEF life, library, recvSide, sendSide
<1>1. /\ taken \in Seq(Message) /\ mRecvMsg \in Seq(Message) /\ incoming \in Seq(Message)
      /\ arrived \in Seq(Message) /\ Len(arrived) \in Nat /\ mGnsMessages \in Nat
      /\ taken \o mRecvMsg \in Seq(Message) /\ mRecvMsg \o incoming \in Seq(Message)
  BY QueueTyping, ConcatLaws
<1>2. /\ arrived = (taken \o mRecvMsg) \o incoming
      /\ Len(arrived) + mGnsMessages <= MaxFrames
  BY DEF ReceivedOK
<1>3. CASE Receive
  <2>1. UNCHANGED <<arrived, taken, mRecvMsg, incoming>>
    BY <1>3, Zenon DEF Receive
  <2>2. Len(arrived) + mGnsMessages' <= MaxFrames
    <3>1. mGnsMessages' \in {0} \/ mGnsMessages' \in 0..(MaxFrames - Len(arrived))
      BY <1>3, Zenon DEF Receive
    <3> QED
      BY <1>1, <1>2, <3>1, MessageTyping
  <2> QED
    BY <1>2, <2>1, <2>2, Zenon DEF ReceivedOK
<1>4. CASE Parse /\ mGnsMessages # 0
  <2> DEFINE x == <<Len(arrived) + 1>>
  <2>1. Len(arrived) + 1 \in Message
    BY <1>1, <1>2, <1>4, MessageTyping
  <2>2. x \in Seq(Message)
    BY <2>1
  <2>3. /\ arrived' = Append(arrived, Len(arrived) + 1)
        /\ incoming' = Append(incoming, Len(arrived) + 1)
        /\ mGnsMessages' = mGnsMessages - 1 /\ UNCHANGED <<taken, mRecvMsg>>
    BY <1>4, Zenon DEF Parse
  <2>4. /\ arrived' = arrived \o x /\ incoming' = incoming \o x
        /\ Len(arrived') = Len(arrived) + 1
    <3>1. /\ Append(arrived, Len(arrived) + 1) = arrived \o x
          /\ Append(incoming, Len(arrived) + 1) = incoming \o x
      BY <1>1, <2>1, AppendIsConcat, Zenon
    <3>2. Len(Append(arrived, Len(arrived) + 1)) = Len(arrived) + 1
      BY <1>1, <2>1, AppendProperties, Zenon
    <3> QED
      BY <2>3, <3>1, <3>2, Zenon
  <2> HIDE DEF x
  <2>5. Regroups(taken \o mRecvMsg, incoming, x)
    BY <1>1, <2>2, Regrouping, Zenon
  <2>6. arrived' = (taken' \o mRecvMsg') \o incoming'
    BY <1>2, <2>3, <2>4, <2>5, Zenon DEF Regroups
  <2>7. Len(arrived') + mGnsMessages' <= MaxFrames
    BY <1>1, <1>2, <2>3, <2>4, MessageTyping
  <2> QED
    BY <2>6, <2>7, Zenon DEF ReceivedOK
<1>5. CASE CtxMove
  <2>1. Regroups(taken, mRecvMsg, incoming)
    BY <1>1, Regrouping, Zenon
  <2>2. /\ mRecvMsg' = mRecvMsg \o incoming /\ incoming' = <<>>
        /\ UNCHANGED <<arrived, taken, mGnsMessages>>
    BY <1>5, Zenon DEF CtxMove
  <2>3. taken \o (mRecvMsg \o incoming) \in Seq(Message)
    BY <1>1, ConcatLaws
  <2>4. (taken \o (mRecvMsg \o incoming)) \o <<>> = taken \o (mRecvMsg \o incoming)
    BY <2>3, ConcatLaws, Zenon
  <2>5. arrived' = (taken' \o mRecvMsg') \o incoming'
    BY <1>2, <2>1, <2>2, <2>4, Zenon DEF Regroups
  <2> QED
    BY <1>2, <2>2, <2>5, Zenon DEF ReceivedOK
<1>6. CASE UserRecv
  <2>1. /\ taken' = taken \o mRecvMsg /\ mRecvMsg' = <<>>
        /\ UNCHANGED <<arrived, incoming, mGnsMessages>>
    BY <1>6, Zenon DEF UserRecv
  <2>2. (taken \o mRecvMsg) \o <<>> = taken \o mRecvMsg
    BY <1>1, ConcatLaws, Zenon
  <2> QED
    BY <1>2, <2>1, <2>2, Zenon DEF ReceivedOK
<1>7. CASE UNCHANGED <<arrived, taken, mRecvMsg, incoming, mGnsMessages>>
  BY <1>2, <1>7, Zenon DEF ReceivedOK
<1>8. CASE Parse /\ mGnsMessages = 0
  BY <1>7, <1>8, Zenon DEF Parse
<1>9. CASE InitStep \/ StopStep \/ OrderStop
  BY <1>7, <1>9, Zenon DEF InitStep, InitBegin, InitFail, InitConnect, InitRegister,
     InitStartCtx, InitEnd, StopStep, StopBegin, DisconnectClose, DisconnectUnregister,
     DisconnectInvalidate, RequestStop, TeardownEnd, OrderStop
<1>10. CASE CtxTop \/ CtxSwap \/ SendTest \/ SendGns \/ RecvTest
  BY <1>7, <1>10, Zenon DEF CtxTop, CtxSwap, SendTest, SendGns, RecvTest
<1>11. CASE UserCheck \/ UserSend \/ Lose \/ PollStep \/ UNCHANGED vars
  BY <1>7, <1>11, Zenon DEF UserCheck, UserSend, Lose, PollStep, PollDispatch,
     PollHandle, vars
<1> QED
  BY <1>3, <1>4, <1>5, <1>6, <1>8, <1>9, <1>10, <1>11, Zenon
  DEF Next, CtxStep, UserStep, Terminated

(* Each step of the bridge and of CtxWorker moves what is given on in order, *)
(* and once the connection is closed nothing more is sent.                   *)
LEMMA GivenStep ==
    ASSUME TypeOK, ThreadsOK, ConnectionOK, GivenOK, [Next]_vars
    PROVE  GivenOK'
<1> USE DEF life, library, recvSide, sendSide
<1>1. /\ sent \in Seq(Message) /\ outbound \in Seq(Message) /\ mSendMsg \in Seq(Message)
      /\ given \in Seq(Message)
      /\ sent \o outbound \in Seq(Message) /\ outbound \o mSendMsg \in Seq(Message)
  BY QueueTyping, ConcatLaws
<1>2. PICK rest \in Seq(Message) : given = sent \o rest
  BY Zenon DEF GivenOK
<1>3. connection # "closed" => given = (sent \o outbound) \o mSendMsg
  BY Zenon DEF GivenOK
<1>4. CASE UserSend
  <2>1. PICK n \in Len(given)..MaxGiven :
           /\ given' = given \o Following(Len(given), n)
           /\ mSendMsg' = mSendMsg \o Following(Len(given), n)
    BY <1>4, Zenon DEF UserSend
  <2> DEFINE x == Following(Len(given), n)
  <2>2. x \in Seq(Message)
    BY <1>1, MessageTyping
  <2>3. /\ UNCHANGED <<sent, outbound, ctxPc, connection>>
        /\ given' = given \o x /\ mSendMsg' = mSendMsg \o x
    BY <1>4, <2>1, Zenon DEF UserSend
  <2> HIDE DEF x
  <2>4. \E more \in Seq(Message) : given' = sent' \o more
    <3>1. Regroups(sent, rest, x)
      BY <1>1, <1>2, <2>2, Regrouping, Zenon
    <3>2. rest \o x \in Seq(Message)
      BY <1>2, <2>2, ConcatLaws, Zenon
    <3>3. given' = sent' \o (rest \o x)
      BY <1>2, <2>3, <3>1, Zenon DEF Regroups
    <3> QED
      BY <3>2, <3>3, Zenon
  <2>5. connection' # "closed" => given' = (sent' \o outbound') \o mSendMsg'
    <3>1. Regroups(sent \o outbound, mSendMsg, x)
      BY <1>1, <2>2, Regrouping, Zenon
    <3> QED
      BY <1>3, <2>3, <3>1, Zenon DEF Regroups
  <2> QED
    BY <2>3, <2>4, <2>5, Zenon DEF GivenOK
<1>5. CASE CtxSwap
  <2>1. /\ outbound' = outbound \o mSendMsg /\ mSendMsg' = <<>>
        /\ UNCHANGED <<sent, given, connection>>
    BY <1>5, Zenon DEF CtxSwap
  <2>2. ctxPc' \in {"sendTest", "send"} => outbound' # <<>>
    BY <1>5 DEF CtxSwap
  <2>3. Regroups(sent, outbound, mSendMsg)
    BY <1>1, Regrouping, Zenon
  <2>4. sent \o (outbound \o mSendMsg) \in Seq(Message)
    BY <1>1, ConcatLaws, Zenon
  <2>5. (sent \o (outbound \o mSendMsg)) \o <<>> = sent \o (outbound \o mSendMsg)
    BY <2>4, ConcatLaws, Zenon
  <2>6. connection' # "closed" => given' = (sent' \o outbound') \o mSendMsg'
    BY <1>3, <2>1, <2>3, <2>5, Zenon DEF Regroups
  <2> QED
    BY <1>2, <2>1, <2>2, <2>6, Zenon DEF GivenOK
<1>6. CASE SendGns
  <2>1. ctxPc = "send" /\ outbound # <<>>
    BY <1>6 DEF SendGns, GivenOK
  <2>2. /\ outbound' = Tail(outbound) /\ UNCHANGED <<given, mSendMsg, connection>>
        /\ ctxPc' = IF Len(outbound) = 1 THEN "recvTest" ELSE "send"
    BY <1>6, Zenon DEF SendGns
  <2>3. Tail(outbound) \in Seq(Message) /\ (Len(outbound) # 1 => Tail(outbound) # <<>>)
    BY <1>1, <2>1, HeadAndTail, Zenon
  <2>4. ctxPc' \in {"sendTest", "send"} => outbound' # <<>>
    BY <2>2, <2>3
  <2>5. CASE connection = "closed"
    <3>1. sent' = sent
      BY <1>6, <2>5, Zenon DEF SendGns
    <3> QED
      BY <1>2, <2>2, <2>4, <2>5, <3>1, Zenon DEF GivenOK
  <2>6. CASE connection # "closed"
    <3>1. sent' = Append(sent, Head(outbound))
      BY <1>6, <2>6, Zenon DEF SendGns
    <3>2. /\ MovesOn(sent, outbound) /\ Append(sent, Head(outbound)) \in Seq(Message)
      BY <1>1, <2>1, HeadMovesOn, Zenon
    <3>3. given' = (sent' \o outbound') \o mSendMsg'
      BY <1>3, <2>2, <2>6, <3>1, <3>2, Zenon DEF MovesOn
    <3>4. Regroups(sent', outbound', mSendMsg)
      BY <1>1, <2>2, <2>3, <3>1, <3>2, Regrouping, Zenon
    <3>5. given' = sent' \o (outbound' \o mSendMsg)
      BY <2>2, <3>3, <3>4, Zenon DEF Regroups
    <3>6. outbound' \o mSendMsg \in Seq(Message)
      BY <1>1, <2>2, <2>3, ConcatLaws, Zenon
    <3> QED
      BY <2>4, <3>3, <3>5, <3>6, Zenon DEF GivenOK
  <2> QED
    BY <2>5, <2>6
<1>7. CASE /\ UNCHANGED <<sent, outbound, mSendMsg, given>>
           /\ connection' # "closed" => connection # "closed"
           /\ ctxPc' \in {"sendTest", "send"} => ctxPc \in {"sendTest", "send"}
  BY <1>7, Zenon DEF GivenOK
<1>8. CASE InitStep \/ StopStep \/ OrderStop
  <2>1. UNCHANGED <<sent, outbound, mSendMsg, given>>
    BY <1>8, Zenon DEF InitStep, InitBegin, InitFail, InitConnect, InitRegister,
       InitStartCtx, InitEnd, StopStep, StopBegin, DisconnectClose, DisconnectUnregister,
       DisconnectInvalidate, RequestStop, TeardownEnd, OrderStop
  <2>2. ctxPc' \in {ctxPc, "top"}
    BY <1>8 DEF InitStep, InitBegin, InitFail, InitConnect, InitRegister, InitStartCtx,
       InitEnd, StopStep, StopBegin, DisconnectClose, DisconnectUnregister,
       DisconnectInvalidate, RequestStop, TeardownEnd, OrderStop
  <2>3. connection' # "closed" => connection # "closed"
    BY <1>8 DEF InitStep, InitBegin, InitFail, InitConnect, InitRegister, InitStartCtx,
       InitEnd, StopStep, StopBegin, DisconnectClose, DisconnectUnregister,
       DisconnectInvalidate, RequestStop, TeardownEnd, OrderStop, ConnectionOK
  <2> QED
    BY <1>7, <2>1, <2>2, <2>3
<1>9. CASE CtxTop \/ SendTest \/ RecvTest \/ Receive \/ Parse \/ CtxMove
  <2>1. UNCHANGED <<sent, outbound, mSendMsg, given, connection>>
    BY <1>9, Zenon DEF CtxTop, SendTest, RecvTest, Receive, Parse, CtxMove
  <2>2. ctxPc' \in {"sendTest", "send"} => ctxPc \in {"sendTest", "send"}
    BY <1>9 DEF CtxTop, SendTest, RecvTest, Receive, Parse, CtxMove
  <2> QED
    BY <1>7, <2>1, <2>2
<1>10. CASE UserCheck \/ UserRecv \/ Lose \/ PollStep \/ UNCHANGED vars
  <2>1. UNCHANGED <<sent, outbound, mSendMsg, given, ctxPc>>
    BY <1>10, Zenon DEF UserCheck, UserRecv, Lose, PollStep, PollDispatch, PollHandle, vars
  <2>2. connection' # "closed" => connection # "closed"
    BY <1>10 DEF UserCheck, UserRecv, Lose, PollStep, PollDispatch, PollHandle, vars
  <2> QED
    BY <1>7, <2>1, <2>2
<1> QED
  BY <1>4, <1>5, <1>6, <1>8, <1>9, <1>10, Zenon
  DEF Next, CtxStep, UserStep, Terminated

-----------------------------------------------------------------------------
(* The instance implements Endpoint *)

(* Only the end of the transition that ran InternalStop stops an instance. *)
LEMMA StoppedStep ==
    ASSUME Inv, [Next]_vars
    PROVE  \/ IsInState(core, "Stopped")' = IsInState(core, "Stopped")
           \/ TeardownEnd /\ IsInState(core, "Stopped")' = TRUE
<1> USE DEF IsInState, life
<1>1. CASE InitBegin
  BY <1>1 DEF InitBegin, MayDecide, MayInitialize, BeginInitializing, Inv, TypeOK,
     StateMachineCore
<1>2. CASE InitEnd
  BY <1>2 DEF InitEnd, EndInitializing, Inv, TypeOK, ThreadsOK, StateMachineCore
<1>3. CASE StopBegin
  BY <1>3 DEF StopBegin, MayStop, BeginStopping, Inv, TypeOK, StateMachineCore
<1>4. CASE TeardownEnd
  BY <1>4 DEF TeardownEnd, EndInitializing, EndStopping, Inv, TypeOK, StateMachineCore
<1>5. CASE UNCHANGED core
  BY <1>5
<1>6. InitBegin \/ InitEnd \/ StopBegin \/ TeardownEnd \/ UNCHANGED core
  BY Zenon DEF Next, vars, InitStep, InitFail, InitConnect, InitRegister, InitStartCtx,
     StopStep, DisconnectClose, DisconnectUnregister, DisconnectInvalidate, RequestStop,
     OrderStop, CtxStep, CtxTop, CtxSwap, SendTest, SendGns, RecvTest, Receive, Parse,
     CtxMove, UserCheck, UserStep, UserSend, UserRecv, Lose, PollStep, PollDispatch,
     PollHandle, Terminated
<1> QED
  BY <1>1, <1>2, <1>3, <1>4, <1>5, <1>6

(* Each step of the instance is a step of Endpoint, or leaves it as it is.   *)
LEMMA EndpointStep ==
    ASSUME Inv, [Next]_vars
    PROVE  [AsEndpoint!Next]_AsEndpoint!vars
<1> USE DEF life, library, recvSide, sendSide
<1>1. TypeOK /\ ThreadsOK /\ ReceivedOK /\ GivenOK
  BY Zenon DEF Inv
<1>2. ctxPc \notin {"none", "exited"} => ~IsInState(core, "Stopped")
  BY <1>1 DEF ThreadsOK, TeardownWorks, TypeOK, IsInState
<1>3. CASE Parse /\ mGnsMessages # 0
  <2>1. Len(arrived) + 1 \in Message
    BY <1>1, <1>3, MessageTyping, QueueTyping DEF ReceivedOK
  <2>2. ~IsInState(core, "Stopped")
    BY <1>2, <1>3 DEF Parse
  <2>3. /\ arrived' = Append(arrived, Len(arrived) + 1)
        /\ UNCHANGED <<taken, given, sent, core>>
    BY <1>3, Zenon DEF Parse
  <2>4. UNCHANGED IsInState(core, "Stopped")
    BY <2>3 DEF IsInState
  <2>5. AsEndpoint!Arrive(Len(arrived) + 1)
    BY <2>2, <2>3, <2>4, Zenon DEF AsEndpoint!Arrive
  <2> QED
    BY <2>1, <2>5 DEF AsEndpoint!Next
<1>4. CASE UserRecv
  <2> DEFINE tm == taken \o mRecvMsg
  <2>1. /\ taken \in Seq(Message) /\ mRecvMsg \in Seq(Message) /\ incoming \in Seq(Message)
        /\ arrived = tm \o incoming
    BY <1>1, QueueTyping, Zenon DEF ReceivedOK
  <2>2. Reaches(taken, tm, arrived)
    BY <2>1, FrontReaches, Zenon
  <2>3. taken' = tm /\ UNCHANGED <<arrived, given, sent, core>>
    BY <1>4, Zenon DEF UserRecv
  <2>4. UNCHANGED IsInState(core, "Stopped")
    BY <2>3 DEF IsInState
  <2> HIDE DEF tm
  <2>5. AsEndpoint!Take
    BY <2>2, <2>3, <2>4, Zenon DEF AsEndpoint!Take, Reaches
  <2> QED
    BY <2>5 DEF AsEndpoint!Next
<1>5. CASE UserSend
  <2>1. PICK n \in Len(given)..MaxGiven : given' = given \o Following(Len(given), n)
    BY <1>5, Zenon DEF UserSend
  <2>2. Len(given) \in 0..MaxGiven /\ n \in 0..MaxGiven
    BY <1>1, <2>1, MessageTyping, QueueTyping
  <2>3. UNCHANGED <<arrived, taken, sent, core>>
    BY <1>5, Zenon DEF UserSend
  <2>4. UNCHANGED IsInState(core, "Stopped")
    BY <2>3 DEF IsInState
  <2>5. AsEndpoint!Give(Following(Len(given), n))
    BY <2>1, <2>3, <2>4, Zenon DEF AsEndpoint!Give
  <2>6. Following(Len(given), n) \in {Following(k, m) : k, m \in 0..MaxGiven}
    BY <2>2
  <2> QED
    BY <2>5, <2>6 DEF AsEndpoint!Next
<1>6. CASE SendGns /\ connection # "closed"
  <2> DEFINE h == <<Head(outbound)>>
             t == Tail(outbound) \o mSendMsg
  <2>1. /\ ctxPc = "send" /\ outbound # <<>> /\ given = (sent \o outbound) \o mSendMsg
    BY <1>1, <1>6 DEF SendGns, GivenOK
  <2>2. /\ sent' = Append(sent, Head(outbound)) /\ UNCHANGED <<arrived, taken, given, core>>
    BY <1>6, Zenon DEF SendGns
  <2>3. /\ sent \in Seq(Message) /\ outbound \in Seq(Message) /\ mSendMsg \in Seq(Message)
    BY <1>1, QueueTyping, Zenon
  <2>4. /\ MovesOn(sent, outbound) /\ h \in Seq(Message)
        /\ Append(sent, Head(outbound)) \in Seq(Message)
    BY <2>1, <2>3, HeadMovesOn, Zenon
  <2>5. Tail(outbound) \in Seq(Message)
    BY <2>1, <2>3, HeadAndTail, Zenon
  <2>6. Append(sent, Head(outbound)) = sent \o h
    BY <2>4, Zenon DEF MovesOn
  <2>7. Regroups(Append(sent, Head(outbound)), Tail(outbound), mSendMsg)
    BY <2>3, <2>4, <2>5, Regrouping, Zenon
  <2>8. given = (sent \o h) \o t
    BY <2>1, <2>4, <2>6, <2>7, Zenon DEF Regroups, MovesOn
  <2>9. t \in Seq(Message)
    BY <2>3, <2>5, ConcatLaws, Zenon
  <2> HIDE DEF h, t
  <2>10. Reaches(sent, sent \o h, given)
    BY <2>3, <2>4, <2>8, <2>9, FrontReaches, Zenon
  <2>11. ~IsInState(core, "Stopped")
    BY <1>2, <2>1
  <2>12. UNCHANGED IsInState(core, "Stopped")
    BY <2>2 DEF IsInState
  <2>13. AsEndpoint!Transmit
    BY <2>2, <2>6, <2>10, <2>11, <2>12, Zenon DEF AsEndpoint!Transmit, Reaches
  <2> QED
    BY <2>13 DEF AsEndpoint!Next
<1>7. CASE UNCHANGED <<arrived, taken, given, sent>>
  <2>1. CASE UNCHANGED IsInState(core, "Stopped")
    BY <1>7, <2>1, Zenon DEF AsEndpoint!vars
  <2>2. CASE IsInState(core, "Stopped")' = TRUE
    BY <1>7, <2>2 DEF AsEndpoint!Next, AsEndpoint!Stop
  <2> QED
    BY <2>1, <2>2, StoppedStep, Zenon
<1>8. CASE Parse /\ mGnsMessages = 0
  BY <1>7, <1>8, Zenon DEF Parse
<1>9. CASE SendGns /\ connection = "closed"
  BY <1>7, <1>9, Zenon DEF SendGns
<1>10. CASE InitStep \/ StopStep \/ OrderStop
  BY <1>7, <1>10, Zenon DEF InitStep, InitBegin, InitFail, InitConnect, InitRegister,
     InitStartCtx, InitEnd, StopStep, StopBegin, DisconnectClose, DisconnectUnregister,
     DisconnectInvalidate, RequestStop, TeardownEnd, OrderStop
<1>11. CASE CtxTop \/ CtxSwap \/ SendTest \/ RecvTest \/ Receive \/ CtxMove
  BY <1>7, <1>11, Zenon DEF CtxTop, CtxSwap, SendTest, RecvTest, Receive, CtxMove
<1>12. CASE UserCheck \/ Lose \/ PollStep \/ UNCHANGED vars
  BY <1>7, <1>12, Zenon DEF UserCheck, Lose, PollStep, PollDispatch, PollHandle, vars
<1> QED
  BY <1>3, <1>4, <1>5, <1>6, <1>8, <1>9, <1>10, <1>11, <1>12, Zenon
  DEF Next, CtxStep, UserStep, Terminated

-----------------------------------------------------------------------------
(* The factory around the instance *)

(* A step of the factory is one of the instance or leaves it as it is: that  *)
(* of the disposal thread which may stop it is a Stop() like another.        *)
LEMMA InstanceStep == ASSUME TypeOK, [FactoryNext]_allVars PROVE [Next]_vars
<1>1. CASE InstanceInit \/ InstanceStop \/ InstanceCtx \/ BridgeCalls \/ BridgeWorks
           \/ ConnectionLost \/ PollCallbacks
  BY <1>1 DEF InstanceInit, InstanceStop, InstanceCtx, BridgeCalls, BridgeWorks,
     ConnectionLost, PollCallbacks, Next
<1>2. CASE DestroyCheck
  <2>1. UNCHANGED <<life, ctxPc, userPc, library, recvSide, sendSide>>
    BY <1>2, Zenon DEF DestroyCheck
  <2>2. UNCHANGED stopOrdered \/ (~stopOrdered /\ stopOrdered' = TRUE)
    BY <1>2 DEF DestroyCheck, TypeOK
  <2>3. CASE UNCHANGED stopOrdered
    BY <2>1, <2>3 DEF vars
  <2>4. CASE ~stopOrdered /\ stopOrdered' = TRUE
    <3>1. OrderStop
      BY <2>1, <2>4, Zenon DEF OrderStop
    <3> QED
      BY <3>1 DEF Next
  <2> QED
    BY <2>2, <2>3, <2>4
<1>3. CASE UNCHANGED vars
  BY <1>3
<1>4. \/ InstanceInit \/ InstanceStop \/ InstanceCtx \/ BridgeCalls \/ BridgeWorks
         \/ ConnectionLost \/ PollCallbacks
      \/ DestroyCheck \/ UNCHANGED vars
  BY Zenon DEF FactoryNext, allVars, FactoryInitStep, FactoryBegin, FactoryInitLibrary,
     FactoryGetSockets, FactoryStartDisposal, FactoryStartPoll, FactoryEnd,
     FactoryOrderStop, FactoryStopStep, FactoryStopBegin, FactoryJoinPoll,
     FactoryClearSockets, FactoryStopDisposal, FactoryJoinDisposal, FactoryKill,
     GetConnections, ReturnConnections, DisposalStep, DisposalTurn, DestroyDelete,
     PollExit, FactoryTerminated
<1> QED
  BY <1>1, <1>2, <1>3, <1>4

(* Each step keeps the types of the factory and of its disposal. *)
LEMMA FactoryTypeStep ==
    ASSUME FactoryTypeOK, TypeOK', tdDisposal = "destroy" => cache # <<>>,
           [FactoryNext]_allVars
    PROVE  FactoryTypeOK' /\ (tdDisposal' = "destroy" => cache' # <<>>)
<1> USE DEF FactoryTypeOK, mDisposal!TypeOK, factory, factoryLife, poll, disposal,
            mDisposal!vars
<1>1. CASE FactoryInitStep
  <2>1. CASE FactoryStartDisposal
    BY <2>1 DEF FactoryStartDisposal, mDisposal!Start
  <2>2. CASE FactoryInitStep /\ ~FactoryStartDisposal
    BY <2>2, CoreTyping DEF FactoryInitStep, FactoryBegin, FactoryInitLibrary,
       FactoryGetSockets, FactoryStartPoll, FactoryEnd
  <2> QED
    BY <1>1, <2>1, <2>2
<1>2. CASE FactoryStopStep
  <2>1. CASE FactoryStopDisposal
    BY <2>1 DEF FactoryStopDisposal, mDisposal!RequestStop
  <2>2. CASE FactoryStopStep /\ ~FactoryStopDisposal
    BY <2>2, CoreTyping DEF FactoryStopStep, FactoryStopBegin, FactoryJoinPoll,
       FactoryClearSockets, FactoryJoinDisposal, FactoryKill
  <2> QED
    BY <1>2, <2>1, <2>2
<1>3. CASE FactoryOrderStop \/ GetConnections \/ PollExit
  BY <1>3 DEF FactoryOrderStop, GetConnections, PollExit
<1>4. CASE ReturnConnections
  <2>1. <<"instance">> \in Seq({"instance"})
    OBVIOUS
  <2>2. mDequeDisposal \o <<"instance">> \in Seq({"instance"})
    BY <2>1
  <2> QED
    BY <1>4, <2>2 DEF ReturnConnections, mDisposal!Move
<1>5. CASE DisposalTurn
  <2>1. CASE mDisposal!Copy
    <3>1. cache' = cache \o mDequeDisposal /\ mDequeDisposal' = <<>>
      BY <2>1, Zenon DEF mDisposal!Copy
    <3>2. cache \in Seq({"instance"}) /\ mDequeDisposal \in Seq({"instance"})
      OBVIOUS
    <3>3. cache \o mDequeDisposal \in Seq({"instance"}) /\ <<>> \in Seq({"instance"})
      BY <3>2
    <3>4. /\ {mDequeDisposal, cache, destroyed}' \subseteq Seq({"instance"})
          /\ tdDisposal' = "test" /\ UNCHANGED <<stopRequested, destroyed>>
      BY <2>1, <3>1, <3>2, <3>3 DEF mDisposal!Copy
    <3> QED
      BY <1>5, <3>4 DEF DisposalTurn
  <2>2. CASE mDisposal!Test
    BY <1>5, <2>2 DEF DisposalTurn, mDisposal!Test
  <2> QED
    BY <1>5, <2>1, <2>2 DEF DisposalTurn
<1>6. CASE DestroyCheck
  BY <1>6 DEF DestroyCheck
<1>7. CASE DestroyDelete
  <2>1. /\ tdDisposal = "destroy" /\ cache # <<>> /\ destroyed' = Append(destroyed, Head(cache))
        /\ cache' = Tail(cache) /\ tdDisposal' = IF Len(cache) = 1 THEN "copy" ELSE "destroy"
    BY <1>7 DEF DestroyDelete, mDisposal!Destroyed
  <2>2. /\ Head(cache) \in {"instance"} /\ Tail(cache) \in Seq({"instance"})
        /\ Len(cache) # 1 => Tail(cache) # <<>>
    BY <2>1, HeadAndTail, Zenon
  <2>3. Append(destroyed, Head(cache)) \in Seq({"instance"})
    BY <2>2
  <2>4. /\ tdDisposal' \in {"copy", "destroy"} /\ (tdDisposal' = "destroy" => cache' # <<>>)
        /\ cache' \in Seq({"instance"}) /\ destroyed' \in Seq({"instance"})
    BY <2>1, <2>2, <2>3
  <2> QED
    BY <1>7, <2>4 DEF DestroyDelete, mDisposal!Destroyed
<1>8. CASE UNCHANGED factory
  BY <1>8
<1>9. CASE InstanceInit \/ InstanceStop \/ InstanceCtx \/ BridgeCalls \/ BridgeWorks
           \/ ConnectionLost \/ PollCallbacks \/ FactoryTerminated \/ UNCHANGED allVars
  BY <1>8, <1>9, Zenon DEF InstanceInit, InstanceStop, InstanceCtx, BridgeCalls,
     BridgeWorks, ConnectionLost, PollCallbacks, FactoryTerminated, allVars
<1> QED
  BY <1>1, <1>2, <1>3, <1>4, <1>5, <1>6, <1>7, <1>9, Zenon DEF FactoryNext, DisposalStep

(* A step is one of the instance's threads, which leaves the factory as it   *)
(* is, or one that leaves those threads where they are.                      *)
LEMMA FactoryFrame ==
    ASSUME [FactoryNext]_allVars
    PROVE  \/ /\ ~fatal /\ UNCHANGED factory
              /\ \/ place \in {"bridge", "returned"} /\ (InitStep \/ StopStep)
                 \/ UNCHANGED <<core, initPc, teardownPc>>
           \/ /\ ~fatal /\ UNCHANGED <<core, initPc, teardownPc>>
              /\ \/ FactoryInitStep \/ FactoryOrderStop \/ FactoryStopStep
                 \/ GetConnections \/ ReturnConnections \/ DisposalStep \/ PollExit
           \/ UNCHANGED <<core, initPc, teardownPc, factory>>
<1> USE DEF vars, life
<1>1. CASE ~fatal /\ (InstanceInit \/ InstanceStop)
  BY <1>1, Zenon DEF InstanceInit, InstanceStop
<1>2. CASE ~fatal /\ (InstanceCtx \/ BridgeCalls \/ BridgeWorks \/ ConnectionLost
                      \/ PollCallbacks)
  <2>1. UNCHANGED <<core, initPc, teardownPc, factory>>
    BY <1>2, Zenon DEF InstanceCtx, BridgeCalls, BridgeWorks, ConnectionLost,
       PollCallbacks, OrderStop, CtxStep, CtxTop, CtxSwap, SendTest, SendGns, RecvTest,
       Receive, Parse, CtxMove, UserCheck, UserStep, UserSend, UserRecv, Lose, PollStep,
       PollDispatch, PollHandle
  <2> QED
    BY <2>1
<1>3. CASE ~fatal /\ (FactoryInitStep \/ FactoryStopStep)
  <2>1. UNCHANGED <<core, initPc, teardownPc>>
    BY <1>3, Zenon DEF FactoryInitStep, FactoryBegin, FactoryInitLibrary,
       FactoryGetSockets, FactoryStartDisposal, FactoryStartPoll, FactoryEnd,
       FactoryStopStep, FactoryStopBegin, FactoryJoinPoll, FactoryClearSockets,
       FactoryStopDisposal, FactoryJoinDisposal, FactoryKill
  <2> QED
    BY <1>3, <2>1, Zenon
<1>4. CASE ~fatal /\ (FactoryOrderStop \/ GetConnections \/ ReturnConnections
                      \/ DisposalStep \/ PollExit)
  <2>1. UNCHANGED <<core, initPc, teardownPc>>
    BY <1>4, Zenon DEF FactoryOrderStop, GetConnections, ReturnConnections, DisposalStep,
       DisposalTurn, DestroyCheck, DestroyDelete, PollExit
  <2> QED
    BY <1>4, <2>1, Zenon
<1>5. CASE FactoryTerminated \/ UNCHANGED allVars
  BY <1>5, Zenon DEF FactoryTerminated, allVars
<1> QED
  BY <1>1, <1>2, <1>3, <1>4, <1>5, Zenon DEF FactoryNext

(* Whoever finds the instance Stopped finds its teardown done. *)
LEMMA StoppedIsDown ==
    ASSUME TypeOK, ThreadsOK, IsInState(core, "Stopped")
    PROVE  teardownPc = "done"
BY DEF TypeOK, ThreadsOK, TeardownWorks, IsInState

(* Each step keeps what the place of the instance says of it and of the      *)
(* factory: a bridge returns it stopped, and a stopped one stays that.       *)
LEMMA PlaceStep ==
    ASSUME TypeOK, ThreadsOK, FactoryTypeOK, PlaceOK, FactoryOK, [FactoryNext]_allVars
    PROVE  PlaceOK'
<1> USE DEF PlaceOK, factory, factoryLife
<1>1. IsInState(core, "Stopped") => teardownPc = "done"
  BY StoppedIsDown, Zenon
<1>2. CASE UNCHANGED factory /\ UNCHANGED <<core, initPc, teardownPc>>
  BY <1>2
<1>3. CASE /\ UNCHANGED factory /\ place \in {"bridge", "returned"}
           /\ InitStep \/ StopStep
  <2>1. CASE InitStep
    <3>1. UNCHANGED teardownPc \/ InitFail
      BY <2>1, Zenon DEF InitStep, InitBegin, InitConnect, InitRegister, InitStartCtx,
         InitEnd, life
    <3>2. InitFail => teardownPc = "none"
      BY DEF InitFail, ThreadsOK
    <3> QED
      BY <1>3, <3>1, <3>2
  <2>2. CASE StopStep
    <3>1. teardownPc # "done"
      BY <2>2 DEF StopStep, StopBegin, DisconnectClose, DisconnectUnregister,
         DisconnectInvalidate, RequestStop, TeardownEnd
    <3> QED
      BY <1>3, <3>1
  <2> QED
    BY <1>3, <2>1, <2>2
<1>4. CASE UNCHANGED <<core, initPc, teardownPc>> /\ FactoryInitStep
  <2>1. place = "none" /\ UNCHANGED place
    BY <1>4 DEF FactoryInitStep, FactoryBegin, FactoryInitLibrary, FactoryGetSockets,
       FactoryStartDisposal, FactoryStartPoll, FactoryEnd, FactoryOK
  <2> QED
    BY <1>4, <2>1
<1>5. CASE UNCHANGED <<core, initPc, teardownPc>> /\ FactoryStopStep
  <2>1. place # "bridge" /\ UNCHANGED place
    BY <1>5 DEF FactoryStopStep, FactoryStopBegin, FactoryJoinPoll, FactoryClearSockets,
       FactoryStopDisposal, FactoryJoinDisposal, FactoryKill, FactoryOK
  <2> QED
    BY <1>5, <2>1
<1>6. CASE UNCHANGED <<core, initPc, teardownPc>> /\ (FactoryOrderStop \/ GetConnections
                                                      \/ PollExit)
  BY <1>6 DEF FactoryOrderStop, GetConnections, PollExit
<1>7. CASE UNCHANGED <<core, initPc, teardownPc>> /\ ReturnConnections
  BY <1>1, <1>7 DEF ReturnConnections
<1>8. CASE UNCHANGED <<core, initPc, teardownPc>> /\ DisposalStep
  BY <1>1, <1>8 DEF DisposalStep, DisposalTurn, DestroyCheck, DestroyDelete
<1> QED
  BY <1>2, <1>3, <1>4, <1>5, <1>6, <1>7, <1>8, FactoryFrame, Zenon

(* Each step keeps what is known of the factory's threads from where they    *)
(* are: the constructor's and that of the stop never work at once.           *)
LEMMA FactoryThreadsStep ==
    ASSUME TypeOK, ThreadsOK, PlaceOK, FactoryTypeOK, FactoryOK, [FactoryNext]_allVars
    PROVE  FactoryOK'
<1> USE DEF FactoryOK, factory, factoryLife, poll
<1>1. CASE UNCHANGED factory
  BY <1>1 DEF IsInState
<1>2. CASE FactoryBegin /\ ~fatal
  BY <1>2 DEF FactoryBegin, MayDecide, MayInitialize, BeginInitializing, IsInState,
     FactoryTypeOK, StateMachineCore
<1>3. CASE FactoryInitLibrary /\ ~fatal
  BY <1>3 DEF FactoryInitLibrary, IsInState
<1>4. CASE (FactoryGetSockets \/ FactoryStartDisposal \/ FactoryStartPoll) /\ ~fatal
  BY <1>4 DEF FactoryGetSockets, FactoryStartDisposal, FactoryStartPoll, IsInState
<1>5. CASE FactoryEnd /\ ~fatal
  BY <1>5 DEF FactoryEnd, EndInitializing, IsInState, FactoryTypeOK, StateMachineCore
<1>6. CASE FactoryStopBegin /\ ~fatal
  BY <1>6 DEF FactoryStopBegin, MayDecide, MayStop, BeginStopping, IsInState,
     FactoryTypeOK, StateMachineCore
<1>7. CASE /\ FactoryJoinPoll \/ FactoryClearSockets \/ FactoryStopDisposal
              \/ FactoryJoinDisposal
           /\ ~fatal
  BY <1>7 DEF FactoryJoinPoll, FactoryClearSockets, FactoryStopDisposal,
     FactoryJoinDisposal, IsInState
<1>8. CASE FactoryKill /\ ~fatal
  BY <1>8 DEF FactoryKill, EndStopping, IsInState, FactoryTypeOK, StateMachineCore
<1>9. CASE (FactoryOrderStop \/ GetConnections \/ PollExit) /\ ~fatal
  BY <1>9 DEF FactoryOrderStop, GetConnections, PollExit, IsInState
<1>10. CASE (ReturnConnections \/ DisposalStep) /\ ~fatal
  <2>1. IsInState(core, "Stopped") => place # "none"
    BY StoppedIsDown DEF PlaceOK
  <2>2. place # "none" \/ UNCHANGED place
    BY <1>10, <2>1 DEF ReturnConnections, DisposalStep, DisposalTurn, DestroyCheck,
       DestroyDelete
  <2> QED
    BY <1>10, <2>2 DEF ReturnConnections, DisposalStep, DisposalTurn, DestroyCheck,
       DestroyDelete, IsInState
<1> QED
  BY <1>1, <1>2, <1>3, <1>4, <1>5, <1>6, <1>7, <1>8, <1>9, <1>10, FactoryFrame, Zenon
  DEF FactoryInitStep, FactoryStopStep

(* Each step keeps the library up while it is needed. *)
LEMMA LibraryStep ==
    ASSUME FactoryTypeOK, FactoryOK, LibraryOK, [FactoryNext]_allVars
    PROVE  LibraryOK'
<1> USE DEF LibraryOK, factory, factoryLife, poll
<1>1. CASE UNCHANGED <<steam, mGnsSockets, mTdPoll, factoryInitPc, factoryStopPc, fatal>>
  BY <1>1
<1>2. CASE UNCHANGED factory
  BY <1>1, <1>2
<1>3. CASE FactoryBegin /\ ~fatal
  BY <1>3 DEF FactoryBegin, FactoryOK, MayDecide, MayInitialize, IsInState,
     FactoryTypeOK, StateMachineCore, States
<1>4. CASE (FactoryInitLibrary \/ FactoryGetSockets \/ FactoryStartDisposal) /\ ~fatal
  BY <1>4 DEF FactoryInitLibrary, FactoryGetSockets, FactoryStartDisposal, FactoryOK
<1>5. CASE (FactoryStartPoll \/ FactoryEnd) /\ ~fatal
  BY <1>5 DEF FactoryStartPoll, FactoryEnd, FactoryOK
<1>6. CASE (FactoryStopBegin \/ FactoryJoinPoll) /\ ~fatal
  BY <1>6 DEF FactoryStopBegin, FactoryJoinPoll, FactoryOK
<1>7. CASE FactoryStopStep /\ ~fatal /\ ~FactoryStopBegin /\ ~FactoryJoinPoll
  <2>1. /\ factoryStopPc \in {"sockets", "disposal", "joinDisposal", "kill"}
        /\ factoryStopPc' \in {"disposal", "joinDisposal", "kill", "done"}
        /\ UNCHANGED <<mTdPoll, factoryInitPc, fatal>>
    BY <1>7 DEF FactoryStopStep, FactoryClearSockets, FactoryStopDisposal,
       FactoryJoinDisposal, FactoryKill
  <2>2. /\ factoryInitPc \notin {"library", "sockets", "disposal", "poll", "end"}
        /\ mTdPoll # "loop"
    BY <2>1 DEF FactoryOK
  <2> QED
    BY <2>1, <2>2
<1>8. CASE PollExit /\ ~fatal
  BY <1>8 DEF PollExit
<1>9. CASE (FactoryOrderStop \/ GetConnections \/ ReturnConnections \/ DisposalStep)
           /\ ~fatal
  BY <1>1, <1>9, Zenon DEF FactoryOrderStop, GetConnections, ReturnConnections,
     DisposalStep, DisposalTurn, DestroyCheck, DestroyDelete
<1> QED
  BY <1>2, <1>3, <1>4, <1>5, <1>6, <1>7, <1>8, <1>9, FactoryFrame, Zenon
  DEF FactoryInitStep

-----------------------------------------------------------------------------
(* The theorems *)

(* The invariant holds at the start. *)
LEMMA FactoryInvInit == FactoryInit => FactoryInv
<1> SUFFICES ASSUME FactoryInit PROVE FactoryInv
  OBVIOUS
<1> USE DEF FactoryInit, Init
<1>1. NewCore \in StateMachineCore
  BY DEF NewCore, StateMachineCore, States
<1>2. /\ <<>> \in Seq(Message) /\ <<>> \in Seq(Change) /\ <<>> \in Seq({"instance"})
      /\ 0 \in 0..MaxFrames
  BY EmptySeq, MessageTyping
<1>3. TypeOK
  BY <1>1, <1>2 DEF TypeOK
<1>4. FactoryTypeOK /\ (tdDisposal = "destroy" => cache # <<>>)
  BY <1>1, <1>2, <1>3 DEF FactoryTypeOK, mDisposal!TypeOK, mDisposal!Init
<1>5. ThreadsOK /\ ConnectionOK
  BY DEF ThreadsOK, ConnectionOK, TeardownWorks, NewCore
<1>6. ReceivedOK /\ GivenOK
  <2>1. <<>> = (<<>> \o <<>>) \o <<>> /\ <<>> = <<>> \o <<>>
    BY <1>2, ConcatLaws
  <2>2. Len(arrived) + mGnsMessages <= MaxFrames
    BY MessageTyping
  <2>3. \E rest \in Seq(Message) : given = sent \o rest
    BY <1>2, <2>1, Zenon
  <2>4. ctxPc \notin {"sendTest", "send"}
    OBVIOUS
  <2> QED
    BY <2>1, <2>2, <2>3, <2>4, Zenon DEF ReceivedOK, GivenOK
<1>7. PlaceOK /\ FactoryOK /\ LibraryOK
  BY DEF PlaceOK, FactoryOK, LibraryOK, NewCore, IsInState
<1> QED
  BY <1>3, <1>4, <1>5, <1>6, <1>7, Zenon DEF FactoryInv, Inv

(* Each step keeps it. *)
LEMMA FactoryInvStep == FactoryInv /\ [FactoryNext]_allVars => FactoryInv'
<1> SUFFICES ASSUME FactoryInv, [FactoryNext]_allVars PROVE FactoryInv'
  OBVIOUS
<1>1. TypeOK /\ ThreadsOK /\ ConnectionOK /\ ReceivedOK /\ GivenOK
  BY Zenon DEF FactoryInv, Inv
<1>2. [Next]_vars
  BY <1>1, InstanceStep, Zenon
<1>3. TypeOK'
  BY <1>1, <1>2, TypeStep, Zenon
<1>4. Inv'
  BY <1>1, <1>2, <1>3, ThreadsStep, ConnectionStep, ReceivedStep, GivenStep, Zenon DEF Inv
<1>5. FactoryTypeOK' /\ (tdDisposal' = "destroy" => cache' # <<>>)
  BY <1>3, FactoryTypeStep, Zenon DEF FactoryInv
<1>6. PlaceOK' /\ FactoryOK' /\ LibraryOK'
  BY <1>1, PlaceStep, FactoryThreadsStep, LibraryStep, Zenon DEF FactoryInv
<1> QED
  BY <1>4, <1>5, <1>6, Zenon DEF FactoryInv

(* The invariant holds always. *)
LEMMA FactoryInvariant == FactorySpec => []FactoryInv
BY FactoryInvInit, FactoryInvStep, PTL DEF FactorySpec

(* The variables of the factory and of its instance keep their types. *)
THEOREM FactoryTypeCorrect == FactorySpec => []FactoryTypeOK
<1>1. FactoryInv => FactoryTypeOK
  BY Zenon DEF FactoryInv
<1> QED
  BY <1>1, FactoryInvariant, PTL

(* Nothing touches an instance that says Stopped: no thread, no callback and *)
(* no entry of the router; and its connection is closed.                     *)
THEOREM StoppedIsQuiescentHolds == FactorySpec => []StoppedIsQuiescent
<1>1. FactoryInv => StoppedIsQuiescent
  <2> SUFFICES ASSUME TypeOK, ThreadsOK, ConnectionOK, IsInState(core, "Stopped")
               PROVE  StoppedIsQuiescent
    BY Zenon DEF FactoryInv, Inv, StoppedIsQuiescent
  <2>1. teardownPc = "done"
    BY StoppedIsDown, Zenon
  <2> QED
    BY <2>1 DEF TypeOK, ThreadsOK, ConnectionOK, StoppedIsQuiescent
<1> QED
  BY <1>1, FactoryInvariant, PTL

(* The library is called only between its start and its kill, by the threads *)
(* of an instance only while the factory runs: whoever calls it belongs to   *)
(* an instance that a bridge still has, or is the poll thread, which the     *)
(* stop joins first.                                                         *)
THEOREM LibraryInWorkTimeHolds == FactorySpec => []LibraryInWorkTime
<1>1. FactoryInv => LibraryInWorkTime
  <2> SUFFICES ASSUME TypeOK, ThreadsOK, FactoryTypeOK, PlaceOK, FactoryOK, LibraryOK
               PROVE  LibraryInWorkTime
    BY Zenon DEF FactoryInv, Inv
  <2>1. CallsLibrary => place = "bridge"
    BY DEF CallsLibrary, ThreadsOK, PlaceOK, FactoryTypeOK
  <2>2. place = "bridge" => /\ IsInState(factoryCore, "Running") /\ ~fatal
                            /\ factoryStopPc = "none" /\ factoryInitPc = "done"
    BY DEF PlaceOK, FactoryOK, FactoryTypeOK
  <2>3. mTdPoll = "loop" => ~fatal
    BY DEF FactoryOK, FactoryTypeOK
  <2> QED
    BY <2>1, <2>2, <2>3 DEF LibraryOK, LibraryInWorkTime
<1> QED
  BY <1>1, FactoryInvariant, PTL

(* The instance keeps both streams in order, duplicates nothing and loses    *)
(* messages only at the end: it implements Endpoint inside its factory, for  *)
(* every capacity and any number of messages.                                *)
THEOREM EndpointHolds == FactorySpec => ImplementsEndpoint
<1>1. FactoryInit => AsEndpoint!Init
  BY DEF FactoryInit, Init, AsEndpoint!Init, NewCore, IsInState
<1>2. FactoryInv /\ [FactoryNext]_allVars => [AsEndpoint!Next]_AsEndpoint!vars
  <2> SUFFICES ASSUME FactoryInv, [FactoryNext]_allVars
               PROVE  [AsEndpoint!Next]_AsEndpoint!vars
    OBVIOUS
  <2>1. Inv /\ TypeOK
    BY Zenon DEF FactoryInv, Inv
  <2>2. [Next]_vars
    BY <2>1, InstanceStep, Zenon
  <2> QED
    BY <2>1, <2>2, EndpointStep
<1> QED
  BY <1>1, <1>2, FactoryInvariant, PTL DEF FactorySpec, ImplementsEndpoint, AsEndpoint!Spec

-----------------------------------------------------------------------------
(* The life cycles *)

(* Each step of the instance is a step of Lifecycle, or leaves it as it is:  *)
(* InternalStop belongs to the transition that called it, so a failing start *)
(* ends as an initialization and a granted Stop() as a stop.                 *)
LEMMA LifecycleStep ==
    ASSUME TypeOK, ThreadsOK, [Next]_vars
    PROVE  [AsLifecycle!Next]_Phase
<1> USE DEF Phase, PhaseOf
<1>1. CASE InitBegin
  <2>1. CASE MayInitialize(core)
    <3>1. teardownPc = "none"
      BY <1>1, <2>1 DEF InitBegin, MayDecide, MayInitialize, ThreadsOK, TeardownWorks, TypeOK
    <3>2. AsLifecycle!BeginInitializing
      BY <1>1, <2>1, <3>1 DEF InitBegin, MayDecide, MayInitialize, BeginInitializing,
         AsLifecycle!BeginInitializing, TypeOK, StateMachineCore
    <3> QED
      BY <3>2 DEF AsLifecycle!Next
  <2>2. CASE ~MayInitialize(core)
    BY <1>1, <2>2 DEF InitBegin
  <2> QED
    BY <2>1, <2>2
<1>2. CASE InitFail
  BY <1>2 DEF InitFail, ThreadsOK
<1>3. CASE InitConnect \/ InitRegister \/ InitStartCtx
  BY <1>3 DEF InitConnect, InitRegister, InitStartCtx
<1>4. CASE InitEnd
  <2>1. AsLifecycle!EndInitializing
    BY <1>4 DEF InitEnd, EndInitializing, AsLifecycle!EndInitializing, TypeOK, ThreadsOK,
       StateMachineCore
  <2> QED
    BY <2>1 DEF AsLifecycle!Next
<1>5. CASE StopBegin
  <2>1. initPc # "failing"
    BY <1>5 DEF StopBegin, ThreadsOK, TeardownWorks
  <2>2. AsLifecycle!BeginStopping
    BY <1>5, <2>1 DEF StopBegin, MayDecide, MayStop, BeginStopping,
       AsLifecycle!BeginStopping, TypeOK, StateMachineCore
  <2> QED
    BY <2>2 DEF AsLifecycle!Next
<1>6. CASE DisconnectClose \/ DisconnectUnregister \/ DisconnectInvalidate \/ RequestStop
  BY <1>6 DEF DisconnectClose, DisconnectUnregister, DisconnectInvalidate, RequestStop
<1>7. CASE TeardownEnd
  <2>1. core.mIsInTransition
    BY <1>7 DEF TeardownEnd, ThreadsOK, TeardownWorks
  <2>2. CASE initPc = "failing"
    <3>1. AsLifecycle!EndInitializing
      BY <1>7, <2>1, <2>2 DEF TeardownEnd, EndInitializing, AsLifecycle!EndInitializing,
         TypeOK, StateMachineCore
    <3> QED
      BY <3>1 DEF AsLifecycle!Next
  <2>3. CASE initPc # "failing"
    <3>1. AsLifecycle!EndStopping
      BY <1>7, <2>1, <2>3 DEF TeardownEnd, EndStopping, AsLifecycle!EndStopping, TypeOK,
         StateMachineCore
    <3> QED
      BY <3>1 DEF AsLifecycle!Next
  <2> QED
    BY <2>2, <2>3
<1>8. CASE UNCHANGED <<core, initPc, teardownPc>>
  BY <1>8
<1> QED
  BY <1>1, <1>2, <1>3, <1>4, <1>5, <1>6, <1>7, <1>8
  DEF Next, vars, life, InitStep, StopStep, OrderStop, CtxStep, CtxTop, CtxSwap, SendTest,
      SendGns, RecvTest, Receive, Parse, CtxMove, UserCheck, UserStep, UserSend, UserRecv,
      Lose, PollStep, PollDispatch, PollHandle, Terminated

(* So is each step of the factory one of a Lifecycle of its own. *)
LEMMA FactoryLifecycleStep ==
    ASSUME FactoryTypeOK, FactoryOK, [FactoryNext]_allVars
    PROVE  [FactoryAsLifecycle!Next]_FactoryPhase
<1> USE DEF FactoryPhase, PhaseOf
<1>1. CASE FactoryBegin
  <2>1. CASE MayInitialize(factoryCore)
    <3>1. factoryStopPc = "none"
      BY <1>1, <2>1 DEF FactoryBegin, MayDecide, MayInitialize, FactoryOK, FactoryTypeOK
    <3>2. FactoryAsLifecycle!BeginInitializing
      BY <1>1, <2>1, <3>1 DEF FactoryBegin, MayDecide, MayInitialize, BeginInitializing,
         FactoryAsLifecycle!BeginInitializing, FactoryTypeOK, StateMachineCore
    <3> QED
      BY <3>2 DEF FactoryAsLifecycle!Next
  <2>2. CASE ~MayInitialize(factoryCore)
    BY <1>1, <2>2 DEF FactoryBegin
  <2> QED
    BY <2>1, <2>2
<1>2. CASE FactoryEnd
  <2>1. FactoryAsLifecycle!EndInitializing
    BY <1>2 DEF FactoryEnd, EndInitializing, FactoryAsLifecycle!EndInitializing,
       FactoryTypeOK, FactoryOK, StateMachineCore
  <2> QED
    BY <2>1 DEF FactoryAsLifecycle!Next
<1>3. CASE FactoryStopBegin
  <2>1. FactoryAsLifecycle!BeginStopping
    BY <1>3 DEF FactoryStopBegin, MayDecide, MayStop, BeginStopping,
       FactoryAsLifecycle!BeginStopping, FactoryTypeOK, StateMachineCore
  <2> QED
    BY <2>1 DEF FactoryAsLifecycle!Next
<1>4. CASE FactoryKill
  <2>1. FactoryAsLifecycle!EndStopping
    BY <1>4 DEF FactoryKill, EndStopping, FactoryAsLifecycle!EndStopping, FactoryTypeOK,
       FactoryOK, StateMachineCore
  <2> QED
    BY <2>1 DEF FactoryAsLifecycle!Next
<1>5. CASE /\ UNCHANGED factoryCore
           /\ (factoryStopPc' # "none") = (factoryStopPc # "none")
  BY <1>5
<1>6. CASE FactoryInitStep \/ FactoryStopStep
  BY <1>1, <1>2, <1>3, <1>4, <1>5, <1>6
  DEF FactoryInitStep, FactoryInitLibrary, FactoryGetSockets, FactoryStartDisposal,
      FactoryStartPoll, FactoryStopStep, FactoryJoinPoll, FactoryClearSockets,
      FactoryStopDisposal, FactoryJoinDisposal
<1>7. CASE FactoryOrderStop \/ GetConnections \/ ReturnConnections \/ DisposalStep
           \/ PollExit \/ UNCHANGED factory
  BY <1>5, <1>7
  DEF FactoryOrderStop, GetConnections, ReturnConnections, DisposalStep, DisposalTurn,
      DestroyCheck, DestroyDelete, PollExit, factory, factoryLife
<1> QED
  BY <1>6, <1>7, FactoryFrame, Zenon

(* Neither the instance nor its factory ever starts twice, stops twice, does *)
(* both at a time or is used again after a stop, although any thread and the *)
(* library call Stop(), and a failing start stops too: each implements       *)
(* Lifecycle.                                                                *)
THEOREM LifecycleHolds == FactorySpec => ImplementsLifecycle
<1>1. FactoryInit => AsLifecycle!Init /\ FactoryAsLifecycle!Init
  BY DEF FactoryInit, Init, AsLifecycle!Init, FactoryAsLifecycle!Init, NewCore, Phase,
     FactoryPhase, PhaseOf
<1>2. /\ FactoryInv
      /\ [FactoryNext]_allVars
      => [AsLifecycle!Next]_Phase /\ [FactoryAsLifecycle!Next]_FactoryPhase
  <2> SUFFICES ASSUME FactoryInv, [FactoryNext]_allVars
               PROVE  [AsLifecycle!Next]_Phase /\ [FactoryAsLifecycle!Next]_FactoryPhase
    OBVIOUS
  <2>1. TypeOK /\ ThreadsOK /\ FactoryTypeOK /\ FactoryOK
    BY Zenon DEF FactoryInv, Inv
  <2>2. [Next]_vars
    BY <2>1, InstanceStep, Zenon
  <2> QED
    BY <2>1, <2>2, LifecycleStep, FactoryLifecycleStep, Zenon
<1> QED
  BY <1>1, <1>2, FactoryInvariant, PTL
  DEF FactorySpec, ImplementsLifecycle, AsLifecycle!Safety, FactoryAsLifecycle!Safety

=============================================================================
