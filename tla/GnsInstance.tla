---------------------------- MODULE GnsInstance -----------------------------
(***************************************************************************)
(* One GnsInstance: the thread of its constructor, which resolves the      *)
(* server and connects, the thread of its one granted Stop(), CtxWorker,   *)
(* the BridgeInstance thread that calls Send and Recv, and the factory's   *)
(* poll thread, which brings status changes of the connection through the  *)
(* router map to HandleConnectionStatusChanged.  Here the factory runs     *)
(* throughout; GnsFactory puts it around the instance, says which threads  *)
(* are sure to run, and is where the properties below are checked.         *)
(*                                                                         *)
(* The library, GameNetworkingSockets, holds the connection: it may lose   *)
(* it at any time, takes the messages handed to it (whether they get to    *)
(* the server is not asked) and refuses them once the connection is closed.*)
(***************************************************************************)
EXTENDS StateMachine, Queues

CONSTANTS NukeCapacity,  \* NUKE_CAPACITY
          MaxFrames,     \* bound: messages the server sends
          MaxGiven       \* bound: messages the bridge passes to Send

ASSUME BoundsAssumption ==
    NukeCapacity \in Nat \ {0} /\ {MaxFrames, MaxGiven} \subseteq Nat

VARIABLES core, stopOrdered,
          initPc, teardownPc, ctxPc, userPc,
          ctxStop,         \* stop_requested() of CtxWorker
          mGnsConnection,  \* "invalid" or "handle"
          connection,      \* the library's: "none", "open", "lost" or "closed"
          posted,          \* status changes not yet dispatched
          registered,      \* mRouterMap has the handle
          pollPc,          \* "stop": in the handler, with mRouterMutex shared
          missed,          \* changes of a connection in use that found no client
          mGnsMessages,    \* messages received and not yet parsed: a number
          incoming, mRecvMsg, mSendMsg, outbound,
          arrived, taken, given, sent  \* history: see Endpoint

life == <<core, initPc, teardownPc, ctxStop>>
library == <<mGnsConnection, connection, posted, registered, pollPc, missed>>
recvSide == <<mGnsMessages, incoming, mRecvMsg, arrived, taken>>
sendSide == <<mSendMsg, outbound, given, sent>>
vars == <<life, stopOrdered, ctxPc, userPc, library, recvSide, sendSide>>

\* A message is its position in its stream.
Message == 1..(IF MaxFrames > MaxGiven THEN MaxFrames ELSE MaxGiven)

Change == {"news", "loss"}  \* "news" is only logged

TypeOK ==
    /\ core \in StateMachineCore
    /\ {stopOrdered, ctxStop, registered} \subseteq BOOLEAN
    /\ initPc \in {"spawned", "connect", "register", "startCtx", "end", "failing",
                   "done"}
    /\ teardownPc \in {"none", "close", "unregister", "invalidate", "requestStop",
                       "join", "done"}
    /\ ctxPc \in {"none", "top", "swap", "sendTest", "send", "recvTest", "receive",
                  "parse", "move", "exited"}
    /\ userPc \in {"idle", "send", "recv"}
    /\ mGnsConnection \in {"invalid", "handle"}
    /\ connection \in {"none", "open", "lost", "closed"}
    /\ posted \in Seq(Change) /\ missed \subseteq Change
    /\ pollPc \in {"idle", "stop"}
    /\ mGnsMessages \in 0..MaxFrames
    /\ {incoming, mRecvMsg, mSendMsg, outbound, arrived, taken, given, sent}
         \subseteq Seq(Message)

Init ==
    /\ core = NewCore /\ stopOrdered = FALSE
    /\ initPc = "spawned" /\ teardownPc = "none" /\ ctxPc = "none" /\ userPc = "idle"
    /\ ctxStop = FALSE
    /\ mGnsConnection = "invalid" /\ connection = "none"
    /\ posted = <<>> /\ registered = FALSE /\ pollPc = "idle" /\ missed = {}
    /\ mGnsMessages = 0
    /\ incoming = <<>> /\ mRecvMsg = <<>> /\ mSendMsg = <<>> /\ outbound = <<>>
    /\ arrived = <<>> /\ taken = <<>> /\ given = <<>> /\ sent = <<>>

-----------------------------------------------------------------------------
(* The constructor's thread *)

InitBegin ==
    /\ initPc = "spawned" /\ MayDecide(core)
    /\ IF MayInitialize(core)
       THEN initPc' = "connect" /\ core' = BeginInitializing(core)
       ELSE initPc' = "done" /\ UNCHANGED core
    /\ UNCHANGED <<teardownPc, ctxStop, stopOrdered, ctxPc, userPc, library, recvSide,
                   sendSide>>

\* The name is not resolved, or no address takes a connection: InternalStop.
InitFail ==
    /\ initPc = "connect" /\ initPc' = "failing"
    /\ teardownPc' = "close"
    /\ UNCHANGED <<core, ctxStop, stopOrdered, ctxPc, userPc, library, recvSide,
                   sendSide>>

\* ConnectByIPAddress for one of the addresses; the library posts the change.
InitConnect ==
    /\ initPc = "connect" /\ initPc' = "register"
    /\ connection' = "open" /\ mGnsConnection' = "handle"
    /\ posted' = Append(posted, "news")
    /\ UNCHANGED <<core, teardownPc, ctxStop, stopOrdered, ctxPc, userPc, registered,
                   pollPc, missed, recvSide, sendSide>>

\* RegisterClient, with mRouterMutex.
InitRegister ==
    /\ initPc = "register" /\ initPc' = "startCtx"
    /\ pollPc = "idle"
    /\ registered' = TRUE
    /\ UNCHANGED <<core, teardownPc, ctxStop, stopOrdered, ctxPc, userPc,
                   mGnsConnection, connection, posted, pollPc, missed, recvSide, sendSide>>

InitStartCtx ==
    /\ initPc = "startCtx" /\ initPc' = "end"
    /\ ctxPc' = "top"
    /\ UNCHANGED <<core, teardownPc, ctxStop, stopOrdered, userPc, library, recvSide,
                   sendSide>>

InitEnd ==
    /\ initPc = "end" /\ initPc' = "done"
    /\ core' = EndInitializing(core, FALSE)
    /\ UNCHANGED <<teardownPc, ctxStop, stopOrdered, ctxPc, userPc, library, recvSide,
                   sendSide>>

InitStep == InitBegin \/ InitFail \/ InitConnect \/ InitRegister \/ InitStartCtx
            \/ InitEnd

-----------------------------------------------------------------------------
(* Stop() and InternalStop() *)

\* The bridge calls Stop().
OrderStop ==
    /\ ~stopOrdered /\ stopOrdered' = TRUE
    /\ UNCHANGED <<life, ctxPc, userPc, library, recvSide, sendSide>>

StopBegin ==
    /\ stopOrdered /\ teardownPc = "none" /\ teardownPc' = "close"
    /\ MayDecide(core) /\ MayStop(core)
    /\ core' = BeginStopping(core)
    /\ UNCHANGED <<initPc, ctxStop, stopOrdered, ctxPc, userPc, library, recvSide,
                   sendSide>>

\* DisconnectGns: CloseConnection, if there is a connection, ...
DisconnectClose ==
    /\ teardownPc = "close"
    /\ IF mGnsConnection = "invalid"
       THEN teardownPc' = "requestStop" /\ UNCHANGED connection
       ELSE teardownPc' = "unregister" /\ connection' = "closed"
    /\ UNCHANGED <<core, initPc, ctxStop, stopOrdered, ctxPc, userPc, mGnsConnection,
                   posted, registered, pollPc, missed, recvSide, sendSide>>

\* Slip: the router map is changed without its mutex.
DisconnectUnregisterAtOnce ==
    /\ teardownPc = "unregister" /\ teardownPc' = "invalidate"
    /\ registered' = FALSE
    /\ UNCHANGED <<core, initPc, ctxStop, stopOrdered, ctxPc, userPc, mGnsConnection,
                   connection, posted, pollPc, missed, recvSide, sendSide>>

\* ... UnregisterClient, which waits for a callback that is under way, ...
DisconnectUnregister ==
    /\ teardownPc = "unregister" /\ teardownPc' = "invalidate"
    /\ pollPc = "idle"
    /\ registered' = FALSE
    /\ UNCHANGED <<core, initPc, ctxStop, stopOrdered, ctxPc, userPc, mGnsConnection,
                   connection, posted, pollPc, missed, recvSide, sendSide>>

\* ... and the handle is dropped, while CtxWorker may still be at work.
DisconnectInvalidate ==
    /\ teardownPc = "invalidate" /\ teardownPc' = "requestStop"
    /\ mGnsConnection' = "invalid"
    /\ UNCHANGED <<core, initPc, ctxStop, stopOrdered, ctxPc, userPc, connection, posted,
                   registered, pollPc, missed, recvSide, sendSide>>

\* Slip: the worker is joined and never told to stop.
RequestStopNot ==
    /\ teardownPc = "requestStop" /\ teardownPc' = "join"
    /\ UNCHANGED <<core, initPc, ctxStop, stopOrdered, ctxPc, userPc, library, recvSide,
                   sendSide>>

RequestStop ==
    /\ teardownPc = "requestStop" /\ teardownPc' = "join"
    /\ ctxStop' = (ctxPc # "none")
    /\ UNCHANGED <<core, initPc, stopOrdered, ctxPc, userPc, library, recvSide, sendSide>>

\* join() returns; the transition that ran InternalStop ends.
TeardownEnd ==
    /\ teardownPc = "join" /\ teardownPc' = "done"
    /\ ctxPc \in {"none", "exited"}
    /\ \/ initPc = "failing" /\ initPc' = "done" /\ core' = EndInitializing(core, TRUE)
       \/ initPc # "failing" /\ core' = EndStopping(core) /\ UNCHANGED initPc
    /\ UNCHANGED <<ctxStop, stopOrdered, ctxPc, userPc, library, recvSide, sendSide>>

StopStep == StopBegin \/ DisconnectClose \/ DisconnectUnregister
            \/ DisconnectInvalidate \/ RequestStop \/ TeardownEnd

-----------------------------------------------------------------------------
(* CtxWorker *)

CtxTop ==
    /\ ctxPc = "top"
    /\ \/ ctxStop /\ ctxPc' = "exited"
       \/ ~ctxStop /\ IsInState(core, "Running") /\ ctxPc' = "swap"
    /\ UNCHANGED <<life, stopOrdered, userPc, library, recvSide, sendSide>>

\* MoveDeque(mSendMsg, outbound_message) under mSendMsgMutex.
CtxSwap ==
    /\ ctxPc = "swap"
    /\ outbound' = outbound \o mSendMsg
    /\ mSendMsg' = <<>>
    /\ ctxPc' = IF outbound' = <<>> THEN "recvTest" ELSE "sendTest"
    /\ UNCHANGED <<life, stopOrdered, userPc, library, recvSide, given, sent>>

\* SendGns and RecvGns return at once when the handle is invalid.
SendTest ==
    /\ ctxPc = "sendTest"
    /\ ctxPc' = IF mGnsConnection = "invalid" THEN "recvTest" ELSE "send"
    /\ UNCHANGED <<life, stopOrdered, userPc, library, recvSide, sendSide>>

\* SendMessageToConnection for one message; its result is not looked at, and
\* the list is cleared in the end.
SendGns ==
    /\ ctxPc = "send"
    /\ outbound' = Tail(outbound)
    /\ sent' = IF connection = "closed" THEN sent ELSE Append(sent, Head(outbound))
    /\ ctxPc' = IF Len(outbound) = 1 THEN "recvTest" ELSE "send"
    /\ UNCHANGED <<life, stopOrdered, userPc, library, recvSide, mSendMsg, given>>

RecvTest ==
    /\ ctxPc = "recvTest"
    /\ ctxPc' = IF mGnsConnection = "invalid" THEN "move" ELSE "receive"
    /\ UNCHANGED <<life, stopOrdered, userPc, library, recvSide, sendSide>>

\* ReceiveMessagesOnConnection fills mGnsMessages; -1 on a closed connection.
Receive ==
    /\ ctxPc = "receive" /\ ctxPc' = "parse"
    /\ mGnsMessages' \in IF connection = "closed" THEN {0} ELSE 0..MaxFrames - Len(arrived)
    /\ UNCHANGED <<life, stopOrdered, userPc, library, incoming, mRecvMsg, arrived, taken,
                   sendSide>>

\* One of them, or the end of the loop.
Parse ==
    /\ ctxPc = "parse"
    /\ IF mGnsMessages = 0
       THEN ctxPc' = "move" /\ UNCHANGED <<mGnsMessages, arrived, incoming>>
       ELSE /\ mGnsMessages' = mGnsMessages - 1
            /\ arrived' = Append(arrived, Len(arrived) + 1)
            /\ incoming' = Append(incoming, Len(arrived) + 1)
            /\ UNCHANGED ctxPc
    /\ UNCHANGED <<life, stopOrdered, userPc, library, mRecvMsg, taken, sendSide>>

\* CheckSize calls Stop() at the nuke level.
CheckSize(size) == stopOrdered' = (stopOrdered \/ size >= NukeCapacity)

\* Slip: the messages are copied, not moved.
CtxMoveCopy ==
    /\ ctxPc = "move" /\ ctxPc' = "top"
    /\ mRecvMsg' = mRecvMsg \o incoming
    /\ CheckSize(Len(mRecvMsg'))
    /\ UNCHANGED <<life, userPc, library, mGnsMessages, incoming, arrived, taken, sendSide>>

\* MoveDeque(incoming_message, mRecvMsg) under mRecvMsgMutex, then CheckSize.
CtxMove ==
    /\ ctxPc = "move" /\ ctxPc' = "top"
    /\ mRecvMsg' = mRecvMsg \o incoming
    /\ incoming' = <<>>
    /\ CheckSize(Len(mRecvMsg'))
    /\ UNCHANGED <<life, userPc, library, mGnsMessages, arrived, taken, sendSide>>

CtxStep == CtxTop \/ CtxSwap \/ SendTest \/ SendGns \/ RecvTest \/ Receive \/ Parse
           \/ CtxMove

-----------------------------------------------------------------------------
(* The bridge's thread *)

\* Send and Recv begin with if (!IsInState(Running)) return.
UserCheck ==
    /\ userPc = "idle" /\ IsInState(core, "Running")
    /\ userPc' \in {"send", "recv"}
    /\ UNCHANGED <<life, stopOrdered, ctxPc, library, recvSide, sendSide>>

UserSend ==
    /\ userPc = "send" /\ userPc' = "idle"
    /\ \E m \in Len(given)..MaxGiven :
         /\ given' = given \o Following(Len(given), m)
         /\ mSendMsg' = mSendMsg \o Following(Len(given), m)
    /\ CheckSize(Len(mSendMsg'))
    /\ UNCHANGED <<life, ctxPc, library, recvSide, outbound, sent>>

UserRecv ==
    /\ userPc = "recv" /\ userPc' = "idle"
    /\ taken' = taken \o mRecvMsg
    /\ mRecvMsg' = <<>>
    /\ UNCHANGED <<life, stopOrdered, ctxPc, library, mGnsMessages, incoming, arrived,
                   sendSide>>

UserStep == UserSend \/ UserRecv

-----------------------------------------------------------------------------
(* The library and the poll thread *)

\* ClosedByPeer or ProblemDetectedLocally.
Lose ==
    /\ connection = "open" /\ connection' = "lost"
    /\ posted' = Append(posted, "loss")
    /\ UNCHANGED <<life, stopOrdered, ctxPc, userPc, mGnsConnection, registered, pollPc,
                   missed, recvSide, sendSide>>

\* RunCallbacks: GnsFactory::ProcConnectionStatusChanged looks the handle up.
PollDispatch ==
    /\ pollPc = "idle" /\ posted # <<>>
    /\ posted' = Tail(posted)
    /\ pollPc' = IF registered /\ Head(posted) = "loss" THEN "stop" ELSE "idle"
    /\ missed' = IF registered \/ connection = "closed" THEN missed
                 ELSE missed \cup {Head(posted)}
    /\ UNCHANGED <<life, stopOrdered, ctxPc, userPc, mGnsConnection, connection,
                   registered, recvSide, sendSide>>

\* Slip: the handler only logs.
PollHandleSilent ==
    /\ pollPc = "stop" /\ pollPc' = "idle"
    /\ UNCHANGED <<life, stopOrdered, ctxPc, userPc, mGnsConnection, connection, posted,
                   registered, missed, recvSide, sendSide>>

\* HandleConnectionStatusChanged: mInstance->Stop().
PollHandle ==
    /\ pollPc = "stop" /\ pollPc' = "idle"
    /\ stopOrdered' = TRUE
    /\ UNCHANGED <<life, ctxPc, userPc, mGnsConnection, connection, posted, registered,
                   missed, recvSide, sendSide>>

PollStep == PollDispatch \/ PollHandle

-----------------------------------------------------------------------------
\* The instance is stopped and every thread of it has run out.
Terminated ==
    /\ IsInState(core, "Stopped") /\ initPc = "done" /\ userPc = "idle"
    /\ UNCHANGED vars

Next == InitStep \/ StopStep \/ OrderStop \/ CtxStep \/ UserCheck \/ UserStep
        \/ Lose \/ PollStep \/ Terminated

Spec == Init /\ [][Next]_vars

-----------------------------------------------------------------------------
(* Both streams keep their order, duplicate nothing and lose messages only   *)
(* at the end, although DisconnectGns takes the connection away while        *)
(* CtxWorker is between its tests and its calls.  Sent is what was handed to *)
(* the library, whether it then refuses it or not.                           *)
AsEndpoint == INSTANCE Endpoint WITH
    stopped <- IsInState(core, "Stopped"),
    Batch <- {Following(n, m) : n, m \in 0..MaxGiven}

ImplementsEndpoint == AsEndpoint!Spec

\* To its bridge the instance is a Lifecycle; an initialization that fails is
\* one in which InternalStop already runs.
Phase == PhaseOf(core, teardownPc # "none" /\ initPc # "failing")

AsLifecycle == INSTANCE Lifecycle WITH phase <- Phase

(* Once the instance says Stopped and may be deleted, neither its worker nor *)
(* a callback can touch it, the router has forgotten it, and its connection  *)
(* does not stay open, however it came to stop.  Further, refused calls of   *)
(* Stop() are the matter of NoThreadOutlivesObject.                          *)
StoppedIsQuiescent ==
    IsInState(core, "Stopped") =>
        /\ ctxPc \in {"none", "exited"} /\ pollPc = "idle"
        /\ ~registered /\ mGnsConnection = "invalid"
        /\ connection \in {"none", "closed"}

(* A lost connection stops the instance, unless the callback that says so    *)
(* ran before RegisterClient.                                                *)
HeardLossStops ==
    connection = "lost" ~> IsInState(core, "Stopped") \/ "loss" \in missed

(* DESIGN.md:16: UserData tells the connections apart and not the connection *)
(* itself, because that has not been returned yet while it is made, "and the *)
(* callback object would not be found".  So every callback of a connection   *)
(* in use finds its client.                                                  *)
CallbackFindsClient == missed = {}

=============================================================================
