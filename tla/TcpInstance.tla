---------------------------- MODULE TcpInstance -----------------------------
(***************************************************************************)
(* One TcpInstance: the thread of its constructor, the thread of its one   *)
(* granted Stop(), RecvWorker, SendWorker, the BridgeInstance thread that  *)
(* calls Send, Recv and GetOrderedUrl, and the peer at the other end of    *)
(* the socket.                                                             *)
(*                                                                         *)
(* Every Stop() only starts a thread that waits for its turn; as the first *)
(* to be granted is the only one (ModuleLifetime), stopOrdered remembers   *)
(* that there is one.  A read or write that blocks is a location that only *)
(* an event of the socket leaves.                                          *)
(***************************************************************************)
EXTENDS StateMachine, Queues

CONSTANTS NukeCapacity,  \* NUKE_CAPACITY
          MaxFrames,     \* bound: data frames the peer sends
          MaxCommands,   \* bound: command frames the peer sends
          MaxGiven       \* bound: messages the bridge passes to Send

ASSUME BoundsAssumption ==
    /\ NukeCapacity \in Nat \ {0}
    /\ {MaxFrames, MaxCommands, MaxGiven} \subseteq Nat

VARIABLES core,         \* mModuleStatus
          stopOrdered,  \* a Stop() thread waits for its grant, or had it
          initPc, stopPc, recvPc, sendPc, userPc,  \* where each thread is
          socketOpen,   \* mSocket.is_open()
          peerClosed,   \* the stream has ended or failed
          recvStop, sendStop,  \* stop_requested() of the two workers
          recvInter,    \* RecvWorker's intermsg
          mRecvMsg,
          mSendMsg,
          sendInter,    \* SendWorker's intermsg, what is left of it
          mOrderedUrl,  \* "none", "url", or "torn" between resize and memcpy
          commands,     \* command frames read so far
          gotUrl,       \* what GetOrderedUrl last returned
          arrived, taken, given, sent  \* history: see Endpoint

life == <<core, stopOrdered, initPc, stopPc, socketOpen, recvStop, sendStop>>
url == <<mOrderedUrl, commands, gotUrl>>
recvSide == <<recvPc, recvInter, mRecvMsg, arrived, taken>>
sendSide == <<sendPc, sendInter, mSendMsg, given, sent>>
vars == <<life, url, recvSide, sendSide, userPc, peerClosed>>

\* A message is its position in its stream.
Message == 1..(IF MaxFrames > MaxGiven THEN MaxFrames ELSE MaxGiven)

TypeOK ==
    /\ core \in StateMachineCore
    /\ {stopOrdered, socketOpen, peerClosed, recvStop, sendStop} \subseteq BOOLEAN
    /\ initPc \in {"spawned", "startRecv", "startSend", "end", "done"}
    /\ stopPc \in {"none", "close", "requestRecv", "joinRecv", "joinSend", "done"}
    /\ recvPc \in {"none", "top", "reading", "copyUrl", "check", "move", "exited"}
    /\ sendPc \in {"none", "top", "swap", "writing", "exited"}
    /\ userPc \in {"idle", "send", "recv", "url"}
    /\ {recvInter, mRecvMsg, sendInter, mSendMsg, arrived, taken, given, sent}
         \subseteq Seq(Message)
    /\ {mOrderedUrl, gotUrl} \subseteq {"none", "torn", "url"}
    /\ commands \in 0..MaxCommands

Init ==
    /\ core = NewCore /\ stopOrdered = FALSE
    /\ initPc = "spawned" /\ stopPc = "none"
    /\ recvPc = "none" /\ sendPc = "none" /\ userPc = "idle"
    /\ socketOpen = TRUE /\ peerClosed = FALSE
    /\ recvStop = FALSE /\ sendStop = FALSE
    /\ recvInter = <<>> /\ mRecvMsg = <<>> /\ mSendMsg = <<>> /\ sendInter = <<>>
    /\ mOrderedUrl = "none" /\ commands = 0 /\ gotUrl = "none"
    /\ arrived = <<>> /\ taken = <<>> /\ given = <<>> /\ sent = <<>>

-----------------------------------------------------------------------------
(* The constructor's thread *)

InitBegin ==
    /\ initPc = "spawned" /\ MayDecide(core)
    /\ IF MayInitialize(core)
       THEN initPc' = "startRecv" /\ core' = BeginInitializing(core)
       ELSE initPc' = "done" /\ UNCHANGED core
    /\ UNCHANGED <<stopOrdered, stopPc, socketOpen, recvStop, sendStop, url,
                   recvSide, sendSide, userPc, peerClosed>>

InitStartRecv ==
    /\ initPc = "startRecv" /\ initPc' = "startSend"
    /\ recvPc' = "top"
    /\ UNCHANGED <<core, stopOrdered, stopPc, socketOpen, recvStop, sendStop, url,
                   recvInter, mRecvMsg, arrived, taken, sendSide, userPc, peerClosed>>

InitStartSend ==
    /\ initPc = "startSend" /\ initPc' = "end"
    /\ sendPc' = "top"
    /\ UNCHANGED <<core, stopOrdered, stopPc, socketOpen, recvStop, sendStop, url,
                   recvSide, sendInter, mSendMsg, given, sent, userPc, peerClosed>>

InitEnd ==
    /\ initPc = "end" /\ initPc' = "done"
    /\ core' = EndInitializing(core, FALSE)
    /\ UNCHANGED <<stopOrdered, stopPc, socketOpen, recvStop, sendStop, url,
                   recvSide, sendSide, userPc, peerClosed>>

InitStep == InitBegin \/ InitStartRecv \/ InitStartSend \/ InitEnd

-----------------------------------------------------------------------------
(* Stop(): the thread whose transition is granted *)

StopBegin ==
    /\ stopOrdered /\ stopPc = "none" /\ stopPc' = "close"
    /\ MayDecide(core) /\ MayStop(core)
    /\ core' = BeginStopping(core)
    /\ UNCHANGED <<stopOrdered, initPc, socketOpen, recvStop, sendStop, url,
                   recvSide, sendSide, userPc, peerClosed>>

\* Slip: the socket is left open until the workers are joined.
StopCloseLate ==
    /\ stopPc = "close" /\ stopPc' = "requestRecv"
    /\ UNCHANGED <<core, stopOrdered, initPc, socketOpen, recvStop, sendStop, url,
                   recvSide, sendSide, userPc, peerClosed>>

StopClose ==
    /\ stopPc = "close" /\ stopPc' = "requestRecv"
    /\ socketOpen' = FALSE
    /\ UNCHANGED <<core, stopOrdered, initPc, recvStop, sendStop, url,
                   recvSide, sendSide, userPc, peerClosed>>

StopRequestRecv ==
    /\ stopPc = "requestRecv" /\ stopPc' = "joinRecv"
    /\ recvStop' = (recvPc # "none")
    /\ UNCHANGED <<core, stopOrdered, initPc, socketOpen, sendStop, url,
                   recvSide, sendSide, userPc, peerClosed>>

\* Slip: the receiver is asked to stop and not joined.
StopJoinRecvAtOnce ==
    /\ stopPc = "joinRecv" /\ stopPc' = "joinSend"
    /\ sendStop' = (sendPc # "none")
    /\ UNCHANGED <<core, stopOrdered, initPc, socketOpen, recvStop, url,
                   recvSide, sendSide, userPc, peerClosed>>

\* join() of the receiver returns, then request_stop() of the sender.
StopJoinRecv ==
    /\ stopPc = "joinRecv" /\ stopPc' = "joinSend"
    /\ recvPc \in {"none", "exited"}
    /\ sendStop' = (sendPc # "none")
    /\ UNCHANGED <<core, stopOrdered, initPc, socketOpen, recvStop, url,
                   recvSide, sendSide, userPc, peerClosed>>

StopJoinSend ==
    /\ stopPc = "joinSend" /\ stopPc' = "done"
    /\ sendPc \in {"none", "exited"}
    /\ core' = EndStopping(core)
    /\ UNCHANGED <<stopOrdered, initPc, socketOpen, recvStop, sendStop, url,
                   recvSide, sendSide, userPc, peerClosed>>

StopStep ==
    StopBegin \/ StopClose \/ StopRequestRecv \/ StopJoinRecv \/ StopJoinSend

\* The owner of the instance calls Stop().
OrderStop ==
    /\ ~stopOrdered /\ stopOrdered' = TRUE
    /\ UNCHANGED <<core, initPc, stopPc, socketOpen, recvStop, sendStop, url,
                   recvSide, sendSide, userPc, peerClosed>>

-----------------------------------------------------------------------------
(* RecvWorker *)

\* while (!st.stop_requested()); a closed socket only makes it spin.
RecvTop ==
    /\ recvPc = "top"
    /\ \/ recvStop /\ recvPc' = "exited"
       \/ ~recvStop /\ socketOpen /\ recvPc' = "reading"
    /\ UNCHANGED <<life, url, recvInter, mRecvMsg, arrived, taken, sendSide,
                   userPc, peerClosed>>

\* A whole data frame has been read.
RecvData ==
    /\ recvPc = "reading" /\ recvPc' = "check"
    /\ socketOpen /\ ~peerClosed
    /\ Len(arrived) < MaxFrames
    /\ arrived' = Append(arrived, Len(arrived) + 1)
    /\ recvInter' = Append(recvInter, Len(arrived) + 1)
    /\ UNCHANGED <<life, url, mRecvMsg, taken, sendSide, userPc, peerClosed>>

\* A whole command frame has been read: mOrderedUrl.resize(mUrlSize) ...
RecvCommand ==
    /\ recvPc = "reading" /\ recvPc' = "copyUrl"
    /\ socketOpen /\ ~peerClosed
    /\ commands < MaxCommands
    /\ commands' = commands + 1
    /\ mOrderedUrl' = "torn"
    /\ UNCHANGED <<life, gotUrl, recvInter, mRecvMsg, arrived, taken, sendSide,
                   userPc, peerClosed>>

\* ... and memcpy, both under mOrderedUrlMutex.
RecvCopyUrl ==
    /\ recvPc = "copyUrl" /\ recvPc' = "check"
    /\ mOrderedUrl' = "url"
    /\ UNCHANGED <<life, commands, gotUrl, recvInter, mRecvMsg, arrived, taken,
                   sendSide, userPc, peerClosed>>

\* A read fails, or the frame read is malformed; intermsg dies with the thread.
RecvFail ==
    /\ recvPc = "reading" /\ recvPc' = "exited"
    /\ stopOrdered' = TRUE
    /\ recvInter' = <<>>
    /\ UNCHANGED <<core, initPc, stopPc, socketOpen, recvStop, sendStop, url,
                   mRecvMsg, arrived, taken, sendSide, userPc, peerClosed>>

\* if (IsInState(Running)); otherwise intermsg waits for the next frame.
RecvCheck ==
    /\ recvPc = "check"
    /\ recvPc' = IF IsInState(core, "Running") THEN "move" ELSE "top"
    /\ UNCHANGED <<life, url, recvInter, mRecvMsg, arrived, taken, sendSide,
                   userPc, peerClosed>>

\* CheckSize calls Stop() at the nuke level.
CheckSize(size) == stopOrdered' = (stopOrdered \/ size >= NukeCapacity)

\* MoveDeque(intermsg, mRecvMsg) under mRecvMsgMutex, then CheckSize.
RecvMove ==
    /\ recvPc = "move" /\ recvPc' = "top"
    /\ mRecvMsg' = mRecvMsg \o recvInter
    /\ recvInter' = <<>>
    /\ CheckSize(Len(mRecvMsg'))
    /\ UNCHANGED <<core, initPc, stopPc, socketOpen, recvStop, sendStop, url,
                   arrived, taken, sendSide, userPc, peerClosed>>

RecvStep == RecvTop \/ RecvData \/ RecvCommand \/ RecvCopyUrl \/ RecvFail
            \/ RecvCheck \/ RecvMove

-----------------------------------------------------------------------------
(* SendWorker *)

\* Slip: the worker leaves, instead of waiting, when it starts too early.
SendTopLeave ==
    /\ sendPc = "top"
    /\ IF ~sendStop /\ socketOpen /\ IsInState(core, "Running")
       THEN sendPc' = "swap" ELSE sendPc' = "exited"
    /\ UNCHANGED <<life, url, recvSide, sendInter, mSendMsg, given, sent, userPc,
                   peerClosed>>

SendTop ==
    /\ sendPc = "top"
    /\ \/ sendStop /\ sendPc' = "exited"
       \/ ~sendStop /\ socketOpen /\ IsInState(core, "Running") /\ sendPc' = "swap"
    /\ UNCHANGED <<life, url, recvSide, sendInter, mSendMsg, given, sent, userPc,
                   peerClosed>>

\* Slip: the messages are copied, not moved.
SendSwapCopy ==
    /\ sendPc = "swap"
    /\ sendPc' = IF mSendMsg = <<>> THEN "top" ELSE "writing"
    /\ sendInter' = sendInter \o mSendMsg
    /\ UNCHANGED <<life, url, recvSide, mSendMsg, given, sent, userPc, peerClosed>>

SendSwap ==
    /\ sendPc = "swap"
    /\ sendPc' = IF mSendMsg = <<>> THEN "top" ELSE "writing"
    /\ sendInter' = sendInter \o mSendMsg
    /\ mSendMsg' = <<>>
    /\ UNCHANGED <<life, url, recvSide, given, sent, userPc, peerClosed>>

\* The four writes of one message all succeed: the peer made room for them.
SendWrite ==
    /\ sendPc = "writing" /\ socketOpen
    /\ sent' = Append(sent, Head(sendInter))
    /\ sendInter' = Tail(sendInter)
    /\ sendPc' = IF Len(sendInter) = 1 THEN "top" ELSE "writing"
    /\ UNCHANGED <<life, url, recvSide, mSendMsg, given, userPc, peerClosed>>

\* One of them fails: Stop(), and the rest of intermsg dies with the thread.
SendFail ==
    /\ sendPc = "writing" /\ sendPc' = "exited"
    /\ peerClosed \/ ~socketOpen
    /\ stopOrdered' = TRUE
    /\ sendInter' = <<>>
    /\ UNCHANGED <<core, initPc, stopPc, socketOpen, recvStop, sendStop, url,
                   recvSide, mSendMsg, given, sent, userPc, peerClosed>>

SendStep == SendTop \/ SendSwap \/ SendWrite \/ SendFail

-----------------------------------------------------------------------------
(* The bridge's thread and the peer *)

\* Send, Recv and GetOrderedUrl begin with if (!IsInState(Running)) return.
UserCheck ==
    /\ userPc = "idle" /\ IsInState(core, "Running")
    /\ userPc' \in {"send", "recv", "url"}
    /\ UNCHANGED <<life, url, recvSide, sendSide, peerClosed>>

\* Send(msg_list): MoveDeque under mSendMsgMutex, then CheckSize.
UserSend ==
    /\ userPc = "send" /\ userPc' = "idle"
    /\ \E m \in Len(given)..MaxGiven :
         /\ given' = given \o Following(Len(given), m)
         /\ mSendMsg' = mSendMsg \o Following(Len(given), m)
    /\ CheckSize(Len(mSendMsg'))
    /\ UNCHANGED <<core, initPc, stopPc, socketOpen, recvStop, sendStop, url,
                   recvSide, sendPc, sendInter, sent, peerClosed>>

UserRecv ==
    /\ userPc = "recv" /\ userPc' = "idle"
    /\ taken' = taken \o mRecvMsg
    /\ mRecvMsg' = <<>>
    /\ UNCHANGED <<life, url, recvPc, recvInter, arrived, sendSide, peerClosed>>

\* return mOrderedUrl, without mOrderedUrlMutex.
UserUrl ==
    /\ userPc = "url" /\ userPc' = "idle"
    /\ gotUrl' = mOrderedUrl
    /\ UNCHANGED <<life, mOrderedUrl, commands, recvSide, sendSide, peerClosed>>

UserStep == UserSend \/ UserRecv \/ UserUrl

PeerClose ==
    /\ ~peerClosed /\ peerClosed' = TRUE
    /\ UNCHANGED <<life, url, recvSide, sendSide, userPc>>

-----------------------------------------------------------------------------
\* The instance is stopped and every thread of it has run out.
Terminated ==
    /\ IsInState(core, "Stopped") /\ initPc = "done" /\ userPc = "idle"
    /\ UNCHANGED vars

Next == InitStep \/ StopStep \/ OrderStop \/ RecvStep \/ SendStep
        \/ UserCheck \/ UserStep \/ PeerClose \/ Terminated

Spec == Init /\ [][Next]_vars

\* The operating system runs every thread that can run.  A blocked read or
\* write returns once the socket is closed or the stream has ended, and not
\* before unless the peer sends or reads: RecvData, RecvCommand and SendWrite
\* have no fairness, so peer, bridge and owner need do nothing.
Fairness ==
    /\ WF_vars(InitStep) /\ WF_vars(StopStep)
    /\ WF_vars(SendTop \/ SendSwap \/ SendFail)
    /\ WF_vars(RecvTop \/ RecvCopyUrl \/ RecvCheck \/ RecvMove)
    /\ WF_vars(RecvFail /\ (peerClosed \/ ~socketOpen))
    /\ WF_vars(UserStep)

FairSpec == Spec /\ Fairness

-----------------------------------------------------------------------------
(* Both streams keep their order, duplicate nothing and lose messages only   *)
(* at the end, whichever threads hold them when the instance stops; and a    *)
(* stopped instance reads and writes nothing more.                           *)
AsEndpoint == INSTANCE Endpoint WITH
    stopped <- IsInState(core, "Stopped"),
    Batch <- {Following(n, m) : n, m \in 0..MaxGiven}

ImplementsEndpoint == AsEndpoint!Spec

Phase == PhaseOf(core, stopPc # "none")

(* To its bridge the instance is a Lifecycle: whichever of its six threads   *)
(* calls Stop(), and be it before the constructor's has begun, one           *)
(* transition works at a time, and a stopped instance never starts.  That    *)
(* transitions end is part of ComesDown.                                     *)
AsLifecycle == INSTANCE Lifecycle WITH phase <- Phase

ImplementsLifecycle == AsLifecycle!Safety

(* Once the instance says Stopped, the socket is closed and both workers     *)
(* have left, so that of its threads only further, refused calls of Stop()   *)
(* (NoThreadOutlivesObject) can touch it while it is deleted: this needs the *)
(* close before the joins, and no worker started after them.                 *)
StoppedIsQuiescent ==
    IsInState(core, "Stopped") =>
        /\ ~socketOpen
        /\ recvPc \in {"none", "exited"} /\ sendPc \in {"none", "exited"}

(* A Stop() issued at any time, or a queue at the nuke level on either side, *)
(* takes the instance down: the joins never wait for a worker that blocks in *)
(* a read or that waits for the module to run.                               *)
StopCompletes ==
    stopOrdered \/ NukeCapacity <= Len(mRecvMsg) \/ NukeCapacity <= Len(mSendMsg)
        ~> IsInState(core, "Stopped")

(* When the peer goes away the instance notices and stops by itself.         *)
PeerCloseStops == peerClosed ~> IsInState(core, "Stopped")

(* Whatever should take the instance down does.                              *)
ComesDown == StopCompletes /\ PeerCloseStops

(* With a peer that keeps reading, which is what fairness of the write       *)
(* means, whatever Send() accepted is written, unless the instance stops.    *)
GivenIsSent ==
    WF_vars(SendWrite) =>
        (Len(given) > Len(sent) ~> sent = given \/ IsInState(core, "Stopped"))

(* tcp_instance.hpp:45, "Command message will provide a URL which the        *)
(* endpoint want to connect": what GetOrderedUrl returns is that URL, or     *)
(* nothing yet.                                                              *)
UrlIsWhole == gotUrl # "torn"

=============================================================================
