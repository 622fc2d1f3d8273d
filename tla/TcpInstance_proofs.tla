------------------------- MODULE TcpInstance_proofs -------------------------
(***************************************************************************)
(* Proofs about TcpInstance, for every capacity and any number of frames   *)
(* and messages: a stopped instance is quiescent, and an instance          *)
(* implements Endpoint and Lifecycle.                                      *)
(***************************************************************************)
EXTENDS TcpInstance, SequenceLemmas, TLAPS

-----------------------------------------------------------------------------
(* The inductive invariant *)

(* A worker exists only after its start; only the thread of a granted        *)
(* transition is past its first location; and a stop that has come to a      *)
(* certain point leaves the socket closed and the workers gone.              *)
ThreadsOK ==
    /\ initPc \in {"spawned", "startRecv"} => recvPc = "none"
    /\ initPc \in {"spawned", "startRecv", "startSend"} => sendPc = "none"
    /\ initPc \in {"startRecv", "startSend", "end"} =>
         core.mIsInTransition /\ stopPc = "none"
    /\ stopPc = "none" => core.mState # "Stopped"
    /\ stopPc \in {"close", "requestRecv", "joinRecv", "joinSend"} =>
         core.mIsInTransition
    /\ stopPc = "done" => core.mState = "Stopped"
    /\ stopPc \in {"requestRecv", "joinRecv", "joinSend", "done"} => ~socketOpen
    /\ stopPc \in {"joinSend", "done"} => recvPc \in {"none", "exited"}
    /\ stopPc = "done" => sendPc \in {"none", "exited"}

(* What has arrived is what the bridge took, followed by what waits for it   *)
(* and by what the receiver holds, until the receiver leaves.                *)
ReceivedOK ==
    /\ \E rest \in Seq(Message) : arrived = taken \o mRecvMsg \o rest
    /\ recvPc # "exited" => arrived = taken \o mRecvMsg \o recvInter

(* What was given is what was sent, followed by what the sender holds and by *)
(* what waits for it, until the sender leaves.                               *)
GivenOK ==
    /\ \E rest \in Seq(Message) : given = sent \o rest
    /\ sendPc # "exited" => given = sent \o sendInter \o mSendMsg
    /\ sendPc = "writing" => sendInter # <<>>
    /\ sendPc \in {"none", "top", "swap"} => sendInter = <<>>

Inv == TypeOK /\ ThreadsOK /\ ReceivedOK /\ GivenOK

-----------------------------------------------------------------------------
(* Typing *)

(* The next number of a stream, and a list of them, are messages. *)
LEMMA MessageTyping ==
    /\ MaxFrames \in Nat /\ MaxGiven \in Nat
    /\ 1..MaxFrames \subseteq Message /\ 1..MaxGiven \subseteq Message
    /\ \A n \in Nat : \A m \in n..MaxGiven : Following(n, m) \in Seq(Message)
<1>1. MaxFrames \in Nat /\ MaxGiven \in Nat
  BY BoundsAssumption
<1>2. 1..MaxFrames \subseteq Message /\ 1..MaxGiven \subseteq Message
  BY <1>1 DEF Message
<1>3. ASSUME NEW n \in Nat, NEW m \in n..MaxGiven
      PROVE  Following(n, m) \in Seq(Message)
  <2>1. m - n \in Nat /\ \A k \in 1..(m - n) : n + k \in 1..MaxGiven
    BY <1>1
  <2> QED
    BY <2>1, <1>2 DEF Following
<1> QED
  BY <1>1, <1>2, <1>3

(* The transitions of a state machine keep its type. *)
LEMMA CoreTyping ==
    ASSUME NEW c \in StateMachineCore
    PROVE  /\ BeginInitializing(c) \in StateMachineCore
           /\ BeginStopping(c) \in StateMachineCore
           /\ EndInitializing(c, FALSE) \in StateMachineCore
           /\ EndStopping(c) \in StateMachineCore
BY DEF StateMachineCore, States, BeginInitializing, BeginStopping,
       EndInitializing, EndStopping

(* The four queues, and the four histories. *)
LEMMA QueueTyping ==
    TypeOK => /\ recvInter \in Seq(Message) /\ mRecvMsg \in Seq(Message)
              /\ sendInter \in Seq(Message) /\ mSendMsg \in Seq(Message)
              /\ arrived \in Seq(Message) /\ taken \in Seq(Message)
              /\ given \in Seq(Message) /\ sent \in Seq(Message)
BY DEF TypeOK

(* Each step keeps the types; the sender's need that it writes only what it  *)
(* has.                                                                      *)
LEMMA TypeStep == ASSUME TypeOK, GivenOK, [Next]_vars PROVE TypeOK'
<1> USE DEF TypeOK, life, url, recvSide, sendSide
<1>1. CASE InitStep
  BY <1>1, CoreTyping DEF InitStep, InitBegin, InitStartRecv, InitStartSend, InitEnd
<1>2. CASE StopStep
  BY <1>2, CoreTyping DEF StopStep, StopBegin, StopClose, StopRequestRecv, StopJoinRecv,
       StopJoinSend
<1>3. CASE OrderStop
  BY <1>3 DEF OrderStop
<1>4. CASE RecvStep
  <2>1. CASE RecvTop
    BY <2>1 DEF RecvTop
  <2>2. CASE RecvData
    <3>1. Len(arrived) + 1 \in Message
      BY <2>2, MessageTyping DEF RecvData
    <3> QED
      BY <2>2, <3>1 DEF RecvData
  <2>3. CASE RecvCommand
    <3>1. commands + 1 \in 0..MaxCommands
      BY <2>3, BoundsAssumption DEF RecvCommand
    <3> QED
      BY <2>3, <3>1 DEF RecvCommand
  <2>4. CASE RecvCopyUrl
    BY <2>4 DEF RecvCopyUrl
  <2>5. CASE RecvFail
    BY <2>5 DEF RecvFail
  <2>6. CASE RecvCheck
    BY <2>6 DEF RecvCheck
  <2>7. CASE RecvMove
    <3>1. stopOrdered' \in BOOLEAN
      BY <2>7 DEF RecvMove, CheckSize
    <3> QED
      BY <2>7, <3>1 DEF RecvMove
  <2> QED
    BY <1>4, <2>1, <2>2, <2>3, <2>4, <2>5, <2>6, <2>7 DEF RecvStep
<1>5. CASE SendStep
  <2>1. CASE SendTop
    BY <2>1 DEF SendTop
  <2>2. CASE SendSwap
    BY <2>2 DEF SendSwap
  <2>3. CASE SendWrite
    <3>1. Head(sendInter) \in Message /\ Tail(sendInter) \in Seq(Message)
      BY <2>3, HeadAndTail DEF SendWrite, GivenOK
    <3> QED
      BY <2>3, <3>1 DEF SendWrite
  <2>4. CASE SendFail
    BY <2>4 DEF SendFail
  <2> QED
    BY <1>5, <2>1, <2>2, <2>3, <2>4 DEF SendStep
<1>6. CASE UserCheck
  BY <1>6 DEF UserCheck
<1>7. CASE UserStep
  <2>1. CASE UserSend
    <3>1. PICK m \in Len(given)..MaxGiven :
             /\ given' = given \o Following(Len(given), m)
             /\ mSendMsg' = mSendMsg \o Following(Len(given), m)
      BY <2>1 DEF UserSend
    <3>2. Following(Len(given), m) \in Seq(Message)
      <4>1. given \in Seq(Message)
        BY QueueTyping, Zenon
      <4>2. Len(given) \in Nat
        BY <4>1
      <4> QED
        BY <4>2, MessageTyping, Zenon
    <3>3. stopOrdered' \in BOOLEAN
      BY <2>1 DEF UserSend, CheckSize
    <3> QED
      BY <2>1, <3>1, <3>2, <3>3 DEF UserSend
  <2>2. CASE UserRecv
    BY <2>2 DEF UserRecv
  <2>3. CASE UserUrl
    BY <2>3 DEF UserUrl
  <2> QED
    BY <1>7, <2>1, <2>2, <2>3 DEF UserStep
<1>8. CASE PeerClose
  BY <1>8 DEF PeerClose
<1>9. CASE UNCHANGED vars
  BY <1>9 DEF vars
<1> QED
  BY <1>1, <1>2, <1>3, <1>4, <1>5, <1>6, <1>7, <1>8, <1>9 DEF Next, Terminated

-----------------------------------------------------------------------------
(* Threads *)

(* Each step keeps what is known of the threads from where they are. *)
LEMMA ThreadsStep == ASSUME TypeOK, ThreadsOK, [Next]_vars PROVE ThreadsOK'
<1> USE DEF ThreadsOK, life, url, recvSide, sendSide
<1>1. CASE InitStep
  <2>1. CASE InitBegin
    BY <2>1 DEF InitBegin, MayDecide, MayInitialize, BeginInitializing, TypeOK,
       StateMachineCore
  <2>2. CASE InitStartRecv
    BY <2>2 DEF InitStartRecv
  <2>3. CASE InitStartSend
    BY <2>3 DEF InitStartSend
  <2>4. CASE InitEnd
    BY <2>4 DEF InitEnd, EndInitializing, TypeOK, StateMachineCore
  <2> QED
    BY <1>1, <2>1, <2>2, <2>3, <2>4 DEF InitStep
<1>2. CASE StopStep
  <2>1. CASE StopBegin
    BY <2>1 DEF StopBegin, MayDecide, MayStop, BeginStopping, TypeOK, StateMachineCore
  <2>2. CASE StopClose
    BY <2>2 DEF StopClose
  <2>3. CASE StopRequestRecv
    BY <2>3 DEF StopRequestRecv
  <2>4. CASE StopJoinRecv
    BY <2>4 DEF StopJoinRecv
  <2>5. CASE StopJoinSend
    BY <2>5 DEF StopJoinSend, EndStopping, TypeOK, StateMachineCore
  <2> QED
    BY <1>2, <2>1, <2>2, <2>3, <2>4, <2>5 DEF StopStep
<1>3. CASE OrderStop
  BY <1>3 DEF OrderStop
<1>4. CASE RecvStep
  BY <1>4 DEF RecvStep, RecvTop, RecvData, RecvCommand, RecvCopyUrl, RecvFail, RecvCheck,
       RecvMove
<1>5. CASE SendStep
  BY <1>5 DEF SendStep, SendTop, SendSwap, SendWrite, SendFail
<1>6. CASE UserCheck \/ UserStep
  BY <1>6 DEF UserCheck, UserStep, UserSend, UserRecv, UserUrl
<1>7. CASE PeerClose
  BY <1>7 DEF PeerClose
<1>8. CASE UNCHANGED vars
  BY <1>8 DEF vars
<1> QED
  BY <1>1, <1>2, <1>3, <1>4, <1>5, <1>6, <1>7, <1>8 DEF Next, Terminated

-----------------------------------------------------------------------------
(* The stream to the bridge *)

(* Each step of the receiver and of the bridge moves messages on in order. *)
LEMMA ReceivedStep ==
    ASSUME TypeOK, ThreadsOK, ReceivedOK, [Next]_vars
    PROVE  ReceivedOK'
<1> USE DEF life, url, recvSide, sendSide
<1>1. /\ taken \in Seq(Message) /\ mRecvMsg \in Seq(Message) /\ recvInter \in Seq(Message)
      /\ arrived \in Seq(Message) /\ <<>> \in Seq(Message)
  BY QueueTyping, EmptySeq
<1>2. taken \o mRecvMsg \in Seq(Message) /\ mRecvMsg \o recvInter \in Seq(Message)
  BY <1>1
<1>4. CASE RecvData
  <2> DEFINE x == <<Len(arrived) + 1>>
  <2>1. x \in Seq(Message)
    <3>1. Len(arrived) + 1 \in Message
      BY <1>1, <1>4, MessageTyping DEF RecvData
    <3> QED
      BY <3>1
  <2>2. /\ arrived' = arrived \o x /\ recvInter' = recvInter \o x
        /\ recvInter \o x \in Seq(Message)
    BY <1>1, <1>4, <2>1 DEF RecvData
  <2> HIDE DEF x
  <2>3. Regroups(taken \o mRecvMsg, recvInter, x)
    BY <1>1, <1>2, <2>1, Regrouping, Zenon
  <2>4. UNCHANGED <<taken, mRecvMsg>> /\ arrived = (taken \o mRecvMsg) \o recvInter
    BY <1>4 DEF RecvData, ReceivedOK
  <2>5. arrived' = taken' \o mRecvMsg' \o recvInter'
    BY <2>2, <2>3, <2>4 DEF Regroups
  <2> QED
    BY <2>2, <2>5 DEF ReceivedOK
<1>5. CASE RecvMove
  <2>1. Regroups(taken, mRecvMsg, recvInter)
    BY <1>1, Regrouping, Zenon
  <2>2. arrived' = taken \o mRecvMsg \o recvInter
    BY <1>5 DEF RecvMove, ReceivedOK
  <2>3. taken' = taken /\ mRecvMsg' = mRecvMsg \o recvInter /\ recvInter' = <<>>
    BY <1>5 DEF RecvMove
  <2>4. taken \o (mRecvMsg \o recvInter) \in Seq(Message)
    BY <1>1, <1>2
  <2>5. arrived' = taken' \o mRecvMsg' \o <<>>
    BY <2>1, <2>2, <2>3, <2>4, ConcatLaws DEF Regroups
  <2> QED
    BY <1>1, <2>3, <2>5 DEF ReceivedOK
<1>6. CASE UserRecv
  <2>1. (taken \o mRecvMsg) \o <<>> = taken \o mRecvMsg
    BY <1>2, ConcatLaws
  <2>2. taken' = taken \o mRecvMsg /\ mRecvMsg' = <<>>
          /\ UNCHANGED <<arrived, recvInter, recvPc>>
    BY <1>6 DEF UserRecv
  <2> QED
    BY <2>1, <2>2 DEF ReceivedOK
<1>7. CASE RecvFail
  BY <1>7 DEF RecvFail, ReceivedOK
<1>8. CASE /\ UNCHANGED <<arrived, taken, mRecvMsg, recvInter>>
           /\ recvPc' # "exited" => recvPc # "exited"
  BY <1>8 DEF ReceivedOK
<1>9. CASE RecvStep
  BY <1>4, <1>5, <1>7, <1>8, <1>9
  DEF RecvStep, RecvTop, RecvCommand, RecvCopyUrl, RecvCheck
<1>10. CASE InitStep
  BY <1>8, <1>10 DEF InitStep, InitBegin, InitStartRecv, InitStartSend, InitEnd, ThreadsOK
<1>11. CASE StopStep
  BY <1>8, <1>11 DEF StopStep, StopBegin, StopClose, StopRequestRecv, StopJoinRecv,
         StopJoinSend
<1>12. CASE SendStep \/ UserCheck \/ UserSend \/ UserUrl \/ PeerClose \/ OrderStop
            \/ UNCHANGED vars
  BY <1>8, <1>12 DEF vars, SendStep, SendTop, SendSwap, SendWrite, SendFail, UserCheck,
         UserSend, UserUrl, PeerClose, OrderStop
<1> QED
  BY <1>6, <1>9, <1>10, <1>11, <1>12 DEF Next, Terminated, UserStep

-----------------------------------------------------------------------------
(* The stream from the bridge *)

(* Each step of the bridge and of the sender moves messages on in order. *)
LEMMA GivenStep ==
    ASSUME TypeOK, ThreadsOK, GivenOK, [Next]_vars
    PROVE  GivenOK'
<1> USE DEF life, url, recvSide, sendSide
<1>1. /\ sent \in Seq(Message) /\ sendInter \in Seq(Message) /\ mSendMsg \in Seq(Message)
      /\ given \in Seq(Message)
  BY QueueTyping
<1>2. sent \o sendInter \in Seq(Message) /\ sendInter \o mSendMsg \in Seq(Message)
  BY <1>1
<1>4. CASE UserSend
  <2>1. PICK n \in Len(given)..MaxGiven :
           /\ given' = given \o Following(Len(given), n)
           /\ mSendMsg' = mSendMsg \o Following(Len(given), n)
    BY <1>4 DEF UserSend
  <2> DEFINE x == Following(Len(given), n)
  <2>2. x \in Seq(Message)
    BY <1>1, MessageTyping
  <2>3. /\ UNCHANGED <<sent, sendInter, sendPc>>
        /\ given' = given \o x /\ mSendMsg' = mSendMsg \o x
    BY <1>4, <2>1 DEF UserSend
  <2> HIDE DEF x
  <2>4. \E rest \in Seq(Message) : given' = sent' \o rest
    <3>1. PICK rest \in Seq(Message) : given = sent \o rest
      BY DEF GivenOK
    <3>2. Regroups(sent, rest, x)
      BY <1>1, <2>2, Regrouping, Zenon
    <3>3. rest \o x \in Seq(Message)
      BY <2>2
    <3> QED
      BY <2>3, <3>1, <3>2, <3>3 DEF Regroups
  <2>5. ASSUME sendPc # "exited"
        PROVE  given' = sent' \o sendInter' \o mSendMsg'
    <3>1. Regroups(sent \o sendInter, mSendMsg, x)
      BY <1>1, <1>2, <2>2, Regrouping, Zenon
    <3> QED
      BY <2>3, <2>5, <3>1 DEF GivenOK, Regroups
  <2> QED
    BY <2>3, <2>4, <2>5 DEF GivenOK
<1>5. CASE SendSwap
  <2>1. sendInter = <<>> /\ given = sent \o sendInter \o mSendMsg
    BY <1>5 DEF SendSwap, GivenOK
  <2>2. sendInter' = sendInter \o mSendMsg /\ mSendMsg' = <<>> /\ UNCHANGED <<sent, given>>
          /\ sendPc' = IF mSendMsg = <<>> THEN "top" ELSE "writing"
    BY <1>5 DEF SendSwap
  <2>3. /\ Regroups(sent, sendInter, mSendMsg)
        /\ sent \o (sendInter \o mSendMsg) \in Seq(Message)
    BY <1>1, <1>2, Regrouping
  <2>4. sent \o (sendInter \o mSendMsg) \o <<>> = sent \o (sendInter \o mSendMsg)
    BY <2>3, ConcatLaws
  <2>5. given' = sent' \o sendInter' \o mSendMsg'
    BY <2>1, <2>2, <2>3, <2>4 DEF Regroups
  <2>6. sendInter' = mSendMsg
    BY <1>1, <2>1, <2>2, ConcatEmptySeq
  <2> QED
    BY <2>2, <2>5, <2>6 DEF GivenOK
<1>6. CASE SendWrite
  <2>1. sendInter # <<>> /\ given = sent \o sendInter \o mSendMsg
    BY <1>6 DEF SendWrite, GivenOK
  <2>2. MovesOn(sent, sendInter)
    BY <1>1, <2>1, HeadMovesOn, Zenon
  <2>3. /\ sent' = Append(sent, Head(sendInter)) /\ sendInter' = Tail(sendInter)
        /\ UNCHANGED <<given, mSendMsg>>
        /\ sendPc' = IF Len(sendInter) = 1 THEN "top" ELSE "writing"
    BY <1>6 DEF SendWrite
  <2>4. sent' \in Seq(Message) /\ sendInter' \in Seq(Message)
          /\ (Len(sendInter) = 1 <=> sendInter' = <<>>)
    BY <1>1, <2>1, <2>3, HeadAndTail, HeadMovesOn
  <2>5. given' = sent' \o sendInter' \o mSendMsg'
    BY <2>1, <2>2, <2>3 DEF MovesOn
  <2>6. Regroups(sent', sendInter', mSendMsg)
    BY <1>1, <2>4, Regrouping, Zenon
  <2>7. given' = sent' \o (sendInter' \o mSendMsg)
    BY <2>3, <2>5, <2>6 DEF Regroups
  <2>8. sendInter' \o mSendMsg \in Seq(Message)
    BY <1>1, <2>4, ConcatLaws, Zenon
  <2> QED
    BY <2>3, <2>4, <2>5, <2>7, <2>8 DEF GivenOK
<1>7. CASE SendFail
  BY <1>7 DEF SendFail, GivenOK
<1>8. CASE /\ UNCHANGED <<sent, sendInter, mSendMsg, given>>
           /\ \/ UNCHANGED sendPc
              \/ sendPc' = "exited"
              \/ sendPc = "top" /\ sendPc' = "swap"
              \/ sendPc = "none" /\ sendPc' = "top"
  BY <1>8 DEF GivenOK
<1>9. CASE SendStep
  BY <1>5, <1>6, <1>7, <1>8, <1>9 DEF SendStep, SendTop
<1>10. CASE InitStep
  BY <1>8, <1>10 DEF InitStep, InitBegin, InitStartRecv, InitStartSend, InitEnd, ThreadsOK
<1>11. CASE StopStep
  BY <1>8, <1>11 DEF StopStep, StopBegin, StopClose, StopRequestRecv, StopJoinRecv,
         StopJoinSend
<1>12. CASE RecvStep \/ UserCheck \/ UserRecv \/ UserUrl \/ PeerClose \/ OrderStop
            \/ UNCHANGED vars
  BY <1>8, <1>12 DEF vars, RecvStep, RecvTop, RecvData, RecvCommand, RecvCopyUrl, RecvFail,
         RecvCheck, RecvMove, UserCheck, UserRecv, UserUrl, PeerClose, OrderStop
<1> QED
  BY <1>4, <1>9, <1>10, <1>11, <1>12 DEF Next, Terminated, UserStep

-----------------------------------------------------------------------------
(* The theorems *)

(* The invariant holds at the start. *)
LEMMA InvInit == Init => Inv
<1>1. ASSUME Init
      PROVE  Inv
  <2> USE <1>1 DEF Init
  <2>1. <<>> \in Seq(Message) /\ NewCore \in StateMachineCore /\ 0 \in 0..MaxCommands
    BY EmptySeq, BoundsAssumption DEF NewCore, StateMachineCore, States
  <2>2. TypeOK
    BY <2>1 DEF TypeOK
  <2>3. ThreadsOK
    BY DEF ThreadsOK, NewCore
  <2>4. <<>> = <<>> \o <<>> /\ <<>> = <<>> \o <<>> \o <<>>
    BY <2>1, ConcatEmptySeq
  <2>5. ReceivedOK /\ GivenOK
    BY <2>1, <2>4 DEF ReceivedOK, GivenOK
  <2> QED
    BY <2>2, <2>3, <2>5 DEF Inv
<1> QED
  BY <1>1

(* The invariant holds always: it is inductive. *)
LEMMA Invariant == Spec => []Inv
<1>1. Inv /\ [Next]_vars => Inv'
  BY TypeStep, ThreadsStep, ReceivedStep, GivenStep DEF Inv
<1> QED
  BY InvInit, <1>1, PTL DEF Spec

(* Every variable of an instance keeps its type. *)
THEOREM TypeCorrect == Spec => []TypeOK
<1>1. Inv => TypeOK
  BY DEF Inv
<1> QED
  BY <1>1, Invariant, PTL

(* Once an instance says Stopped its socket is closed and its workers are    *)
(* gone, whenever the Stop() came: before, during or after the start.        *)
THEOREM StoppedIsQuiescentHolds == Spec => []StoppedIsQuiescent
<1>1. Inv => StoppedIsQuiescent
  BY DEF Inv, ThreadsOK, TypeOK, StoppedIsQuiescent, IsInState
<1> QED
  BY <1>1, Invariant, PTL

(* Only the end of the granted stop makes an instance say Stopped. *)
LEMMA StoppedStep ==
    ASSUME Inv, [Next]_vars
    PROVE  \/ IsInState(core, "Stopped")' = IsInState(core, "Stopped")
           \/ StopJoinSend /\ IsInState(core, "Stopped")' = TRUE
<1> USE DEF IsInState
<1>1. CASE InitStep
  BY <1>1 DEF InitStep, InitBegin, InitStartRecv, InitStartSend, InitEnd, MayDecide,
         MayInitialize, BeginInitializing, EndInitializing, Inv, TypeOK, ThreadsOK,
         StateMachineCore
<1>2. CASE StopBegin
  BY <1>2 DEF StopBegin, MayStop, BeginStopping, Inv, TypeOK, StateMachineCore
<1>3. CASE StopJoinSend
  BY <1>3 DEF StopJoinSend, EndStopping, Inv, TypeOK, StateMachineCore
<1>4. CASE UNCHANGED core
  BY <1>4
<1> QED
  BY <1>1, <1>2, <1>3, <1>4
  DEF Next, vars, life, StopStep, StopClose, StopRequestRecv, StopJoinRecv, OrderStop,
      RecvStep, RecvTop, RecvData, RecvCommand, RecvCopyUrl, RecvFail, RecvCheck, RecvMove,
      SendStep, SendTop, SendSwap, SendWrite, SendFail, UserCheck, UserStep, UserSend,
      UserRecv, UserUrl, PeerClose, Terminated

(* Each step of an instance is a step of Endpoint, or leaves it as it is: a  *)
(* prefix of what arrived is taken and a prefix of what was given is sent,   *)
(* whatever the workers hold; and the workers that read and write are those  *)
(* that a stopped instance has no more.                                      *)
LEMMA EndpointStep ==
    ASSUME Inv, [Next]_vars
    PROVE  [AsEndpoint!Next]_AsEndpoint!vars
<1> USE DEF life, url, recvSide, sendSide
<1>1. TypeOK /\ ThreadsOK /\ ReceivedOK /\ GivenOK
  BY DEF Inv
<1>2. recvPc = "reading" \/ sendPc = "writing" => ~IsInState(core, "Stopped")
  BY <1>1 DEF ThreadsOK, TypeOK, IsInState
<1>3. CASE RecvData
  <2>1. AsEndpoint!Arrive(Len(arrived) + 1)
    BY <1>2, <1>3 DEF RecvData, AsEndpoint!Arrive
  <2>2. Len(arrived) + 1 \in Message
    BY <1>1, <1>3, MessageTyping, QueueTyping DEF RecvData
  <2> QED
    BY <2>1, <2>2 DEF AsEndpoint!Next
<1>4. CASE UserRecv
  <2> DEFINE tm == taken \o mRecvMsg
  <2>1. taken \in Seq(Message) /\ mRecvMsg \in Seq(Message)
    BY <1>1, QueueTyping
  <2>2. PICK rest \in Seq(Message) : arrived = tm \o rest
    BY <1>1, Zenon DEF ReceivedOK
  <2>3. Reaches(taken, tm, arrived)
    BY <2>1, <2>2, FrontReaches, Zenon
  <2>4. taken' = tm /\ UNCHANGED <<arrived, given, sent, core>>
    BY <1>4, Zenon DEF UserRecv, life, url, sendSide
  <2> HIDE DEF tm
  <2>5. AsEndpoint!Take
    BY <2>3, <2>4, Zenon DEF AsEndpoint!Take, Reaches
  <2> QED
    BY <2>5 DEF AsEndpoint!Next
<1>5. CASE UserSend
  <2>1. PICK n \in Len(given)..MaxGiven : given' = given \o Following(Len(given), n)
    BY <1>5 DEF UserSend
  <2>2. Len(given) \in 0..MaxGiven /\ n \in 0..MaxGiven
    BY <1>1, <2>1, MessageTyping, QueueTyping
  <2>3. UNCHANGED <<arrived, taken, sent, core>>
    BY <1>5 DEF UserSend
  <2>4. AsEndpoint!Give(Following(Len(given), n))
    BY <2>1, <2>3 DEF AsEndpoint!Give
  <2> QED
    BY <2>2, <2>4 DEF AsEndpoint!Next
<1>6. CASE SendWrite
  <2>1. PICK rest \in Seq(Message) : given' = sent' \o rest
    BY GivenStep, <1>1 DEF GivenOK
  <2>2. sent' \in Seq(Message) /\ Len(sent') = Len(sent) + 1 /\ Len(sent) \in Nat
    <3>1. Head(sendInter) \in Message /\ sent \in Seq(Message)
      BY <1>1, <1>6, HeadAndTail, QueueTyping DEF SendWrite, GivenOK
    <3> QED
      BY <1>6, <3>1 DEF SendWrite
  <2>3. UNCHANGED <<arrived, taken, given, core>>
    BY <1>6 DEF SendWrite
  <2>4. IsFront(sent', sent' \o rest)
    BY <2>2, FrontOfConcat, Zenon
  <2>5. Len(sent') \in Len(sent)..Len(given) /\ sent' = SubSeq(given, 1, Len(sent'))
    <3>1. Len(given) \in Nat
      BY <1>1, QueueTyping
    <3> QED
      BY <2>1, <2>2, <2>3, <2>4, <3>1 DEF IsFront
  <2>6. AsEndpoint!Transmit
    BY <1>2, <1>6, <2>3, <2>5 DEF SendWrite, AsEndpoint!Transmit
  <2> QED
    BY <2>6 DEF AsEndpoint!Next
<1>7. CASE StopJoinSend /\ IsInState(core, "Stopped")' = TRUE
  BY <1>7 DEF StopJoinSend, AsEndpoint!Stop, AsEndpoint!Next
<1>8. CASE /\ UNCHANGED <<arrived, taken, given, sent>>
           /\ IsInState(core, "Stopped")' = IsInState(core, "Stopped")
  BY <1>8 DEF AsEndpoint!vars
<1>9. \/ UNCHANGED <<arrived, taken, given, sent>>
      \/ RecvData \/ UserRecv \/ UserSend \/ SendWrite
  BY DEF Next, vars, InitStep, InitBegin, InitStartRecv, InitStartSend, InitEnd, StopStep,
         StopBegin, StopClose, StopRequestRecv, StopJoinRecv, StopJoinSend, OrderStop,
         RecvStep, RecvTop, RecvCommand, RecvCopyUrl, RecvFail, RecvCheck, RecvMove,
         SendStep, SendTop, SendSwap, SendFail, UserCheck, UserStep, UserUrl, PeerClose,
         Terminated
<1> QED
  BY <1>3, <1>4, <1>5, <1>6, <1>7, <1>8, <1>9, StoppedStep

(* An instance keeps both streams in order, duplicates nothing, loses        *)
(* messages only at the end and is silent once it is stopped: it implements  *)
(* Endpoint, for every capacity and any number of messages.                  *)
THEOREM EndpointHolds == Spec => ImplementsEndpoint
<1>1. Init => AsEndpoint!Init
  BY DEF Init, AsEndpoint!Init, NewCore, IsInState
<1>2. Inv /\ [Next]_vars => [AsEndpoint!Next]_AsEndpoint!vars
  BY EndpointStep
<1> QED
  BY <1>1, <1>2, Invariant, PTL DEF Spec, ImplementsEndpoint, AsEndpoint!Spec

-----------------------------------------------------------------------------
(* The life cycle *)

(* Each step of an instance is a step of Lifecycle, or leaves it as it is:   *)
(* the transition that works is the one that the flag of the core stands     *)
(* for, so none begins while another works and none after the last.          *)
LEMMA LifecycleStep ==
    ASSUME Inv, [Next]_vars
    PROVE  [AsLifecycle!Next]_Phase
<1> USE DEF Phase, PhaseOf
<1>1. TypeOK /\ ThreadsOK
  BY DEF Inv
<1>2. CASE InitBegin
  <2>1. CASE MayInitialize(core)
    <3>1. stopPc = "none"
      BY <1>1, <1>2, <2>1 DEF InitBegin, MayDecide, MayInitialize, ThreadsOK, TypeOK
    <3>2. AsLifecycle!BeginInitializing
      BY <1>1, <1>2, <2>1, <3>1 DEF InitBegin, MayDecide, MayInitialize,
         BeginInitializing, AsLifecycle!BeginInitializing, TypeOK, StateMachineCore
    <3> QED
      BY <3>2 DEF AsLifecycle!Next
  <2>2. CASE ~MayInitialize(core)
    BY <1>2, <2>2 DEF InitBegin
  <2> QED
    BY <2>1, <2>2
<1>3. CASE InitEnd
  <2>1. AsLifecycle!EndInitializing
    BY <1>1, <1>3 DEF InitEnd, EndInitializing, AsLifecycle!EndInitializing, TypeOK,
       ThreadsOK, StateMachineCore
  <2> QED
    BY <2>1 DEF AsLifecycle!Next
<1>4. CASE StopBegin
  <2>1. AsLifecycle!BeginStopping
    BY <1>1, <1>4 DEF StopBegin, MayDecide, MayStop, BeginStopping,
       AsLifecycle!BeginStopping, TypeOK, StateMachineCore
  <2> QED
    BY <2>1 DEF AsLifecycle!Next
<1>5. CASE StopJoinSend
  <2>1. AsLifecycle!EndStopping
    BY <1>1, <1>5 DEF StopJoinSend, EndStopping, AsLifecycle!EndStopping, TypeOK, ThreadsOK,
       StateMachineCore
  <2> QED
    BY <2>1 DEF AsLifecycle!Next
<1>6. CASE UNCHANGED core /\ (stopPc' # "none") = (stopPc # "none")
  BY <1>6
<1> QED
  BY <1>2, <1>3, <1>4, <1>5, <1>6
  DEF Next, vars, life, InitStep, InitStartRecv, InitStartSend, StopStep, StopClose,
      StopRequestRecv, StopJoinRecv, OrderStop, RecvStep, RecvTop, RecvData, RecvCommand,
      RecvCopyUrl, RecvFail, RecvCheck, RecvMove, SendStep, SendTop, SendSwap, SendWrite,
      SendFail, UserCheck, UserStep, UserSend, UserRecv, UserUrl, PeerClose, Terminated

(* An instance starts at most once and stops at most once, never both at a   *)
(* time, and is never used again, whichever of its threads calls Stop() and  *)
(* when: it implements Lifecycle.                                            *)
THEOREM LifecycleHolds == Spec => ImplementsLifecycle
<1>1. Init => AsLifecycle!Init
  BY DEF Init, AsLifecycle!Init, NewCore, Phase, PhaseOf
<1>2. Inv /\ [Next]_vars => [AsLifecycle!Next]_Phase
  BY LifecycleStep
<1> QED
  BY <1>1, <1>2, Invariant, PTL DEF Spec, ImplementsLifecycle, AsLifecycle!Safety

=============================================================================
