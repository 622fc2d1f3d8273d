----------------------------- MODULE BmmoClient ------------------------------
(***************************************************************************)
(* ShadowWalker's connection to WhispersAbyss (BmmoClient.py): the thread  *)
(* of InitTransition, the thread of its one granted Stop, SendWorker and   *)
(* RecvWorker.  BmmoContext, which owns the client, composes the actions.  *)
(*                                                                         *)
(* The state machine of CppHelper.py decides as StateMachine does; only    *)
(* its IsInState and SpinUntil look at the state alone, so that a client   *)
(* that is being stopped still counts as Running.                          *)
(***************************************************************************)
EXTENDS StateMachine, Sequences, Naturals

VARIABLES clientCore, closeOrdered,
          startPc, closePc, sendPc, recvPc,
          socket,         \* __mConn: "new", "open" or "closed"
          peer,           \* of the connection: "none", "open" or "ended"
          mSendMsg, send_messages, mRecvMsg,
          wire,           \* from the server and not yet read
          sent            \* history: what SendWorker has written

clientLife == <<clientCore, startPc, closePc>>
clientSend == <<mSendMsg, send_messages, sent>>
clientRecv == <<mRecvMsg, wire>>
client == <<clientLife, closeOrdered, sendPc, recvPc, socket, peer, clientSend, clientRecv>>

\* CppHelper.StateMachine.IsInState, and the exit condition of its SpinUntil.
StateIn(c, states) == c.mState \in states

ClientTypeOK(Outgoing, Incoming) ==
    /\ clientCore \in StateMachineCore /\ closeOrdered \in BOOLEAN
    /\ startPc \in {"none", "spawned", "connect", "workers", "end", "done"}
    /\ closePc \in {"none", "threads", "done"}
    /\ sendPc \in {"none", "top", "url", "swap", "send", "exited"}
    /\ recvPc \in {"none", "top", "read", "exited"}
    /\ socket \in {"new", "open", "closed"} /\ peer \in {"none", "open", "ended"}
    /\ {mSendMsg, send_messages, sent} \subseteq Seq(Outgoing)
    /\ {mRecvMsg, wire} \subseteq Seq(Incoming)

ClientInit ==
    /\ clientCore = NewCore /\ closeOrdered = FALSE
    /\ startPc = "none" /\ closePc = "none" /\ sendPc = "none" /\ recvPc = "none"
    /\ socket = "new" /\ peer = "none"
    /\ mSendMsg = <<>> /\ send_messages = <<>> /\ mRecvMsg = <<>>
    /\ wire = <<>> /\ sent = <<>>

-----------------------------------------------------------------------------
(* Start *)

ClientBegin ==
    /\ startPc = "spawned" /\ MayDecide(clientCore)
    /\ IF MayInitialize(clientCore)
       THEN startPc' = "connect" /\ clientCore' = BeginInitializing(clientCore)
       ELSE startPc' = "done" /\ UNCHANGED clientCore
    /\ UNCHANGED <<closePc, closeOrdered, sendPc, recvPc, socket, peer, clientSend,
                   clientRecv>>

\* connect raises: the socket is closed, and the client is Stopped.
ClientFail ==
    /\ startPc = "connect" /\ startPc' = "done"
    /\ socket' = "closed"
    /\ clientCore' = EndInitializing(clientCore, TRUE)
    /\ UNCHANGED <<closePc, closeOrdered, sendPc, recvPc, peer, clientSend, clientRecv>>

ClientConnect ==
    /\ startPc = "connect" /\ startPc' = "workers"
    /\ socket' = "open" /\ peer' = "open"
    /\ UNCHANGED <<clientCore, closePc, closeOrdered, sendPc, recvPc, clientSend,
                   clientRecv>>

\* The threads are kept in __mTdSender and __mTdRecver.
ClientStartWorkers ==
    /\ startPc = "workers" /\ startPc' = "end"
    /\ sendPc' = "top" /\ recvPc' = "top"
    /\ UNCHANGED <<clientCore, closePc, closeOrdered, socket, peer, clientSend, clientRecv>>

ClientEnd ==
    /\ startPc = "end" /\ startPc' = "done"
    /\ clientCore' = EndInitializing(clientCore, FALSE)
    /\ UNCHANGED <<closePc, closeOrdered, sendPc, recvPc, socket, peer, clientSend,
                   clientRecv>>

ClientStartStep == ClientBegin \/ ClientFail \/ ClientConnect \/ ClientStartWorkers
                   \/ ClientEnd

-----------------------------------------------------------------------------
(* Stop *)

\* Nobody but a transition sees that one has begun, so the socket is closed at once.
CloseBegin ==
    /\ closeOrdered /\ closePc = "none" /\ closePc' = "threads"
    /\ MayDecide(clientCore) /\ MayStop(clientCore)
    /\ clientCore' = BeginStopping(clientCore)
    /\ socket' = "closed"
    /\ UNCHANGED <<startPc, closeOrdered, sendPc, recvPc, peer, clientSend, clientRecv>>

\* __mTdSend and __mTdRecv are None always: no worker is told to stop, or joined.
CloseThreads ==
    /\ closePc = "threads" /\ closePc' = "done"
    /\ clientCore' = EndStopping(clientCore)
    /\ UNCHANGED <<startPc, closeOrdered, sendPc, recvPc, socket, peer, clientSend,
                   clientRecv>>

ClientCloseStep == CloseBegin \/ CloseThreads

-----------------------------------------------------------------------------
(* SendWorker.  Its stop token is never set. *)

\* The remote URL goes first, once, as a command.
SendTop ==
    /\ sendPc = "top" /\ sent = <<>> /\ sendPc' = "url"
    /\ StateIn(clientCore, {"Running"})
    /\ UNCHANGED <<clientLife, closeOrdered, recvPc, socket, peer, clientSend, clientRecv>>

SendUrl ==
    /\ sendPc = "url" /\ sendPc' = "swap" /\ socket = "open"
    /\ sent' = <<"url">>
    /\ UNCHANGED <<clientLife, closeOrdered, recvPc, socket, peer, mSendMsg, send_messages,
                   clientRecv>>

\* Where a turn takes the queue: after the URL, or after its test of the state.
MayTake == sendPc = "swap" \/ (sendPc = "top" /\ sent # <<>>
                               /\ StateIn(clientCore, {"Running"}))

\* Slip: the queue is copied and not cleared.
SendSwapKeep ==
    /\ MayTake
    /\ send_messages' = send_messages \o mSendMsg
    /\ sendPc' = IF send_messages' = <<>> THEN "top" ELSE "send"
    /\ UNCHANGED <<clientLife, closeOrdered, recvPc, socket, peer, mSendMsg, sent,
                   clientRecv>>

\* Under __mSendMsgMutex; send_messages is empty at this point.
SendSwap ==
    /\ MayTake
    /\ send_messages' = send_messages \o mSendMsg
    /\ mSendMsg' = <<>>
    /\ sendPc' = IF send_messages' = <<>> THEN "top" ELSE "send"
    /\ UNCHANGED <<clientLife, closeOrdered, recvPc, socket, peer, sent, clientRecv>>

\* Header and body of one message.  A peer that is gone may show only later.
SendOne ==
    /\ sendPc = "send" /\ socket = "open"
    /\ sent' = Append(sent, Head(send_messages))
    /\ send_messages' = Tail(send_messages)
    /\ sendPc' = IF Len(send_messages) = 1 THEN "top" ELSE "send"
    /\ UNCHANGED <<clientLife, closeOrdered, recvPc, socket, peer, mSendMsg, clientRecv>>

\* SocketSendHelper calls Stop, and the worker returns.
SendFail ==
    /\ sendPc \in {"url", "send"} /\ sendPc' = "exited"
    /\ socket = "closed" \/ peer = "ended"
    /\ closeOrdered' = TRUE
    /\ UNCHANGED <<clientLife, recvPc, socket, peer, clientSend, clientRecv>>

SendStep == SendTop \/ SendUrl \/ SendSwap \/ SendOne \/ SendFail

-----------------------------------------------------------------------------
(* RecvWorker *)

RecvTop ==
    /\ recvPc = "top" /\ recvPc' = "read" /\ StateIn(clientCore, {"Running"})
    /\ UNCHANGED <<clientLife, closeOrdered, sendPc, socket, peer, clientSend, clientRecv>>

\* One message, which passes the filter.
RecvRead ==
    /\ recvPc = "read" /\ recvPc' = "top"
    /\ socket = "open" /\ wire # <<>>
    /\ wire' = Tail(wire)
    /\ mRecvMsg' = Append(mRecvMsg, Head(wire))
    /\ UNCHANGED <<clientLife, closeOrdered, sendPc, socket, peer, clientSend>>

\* Slip: the worker returns and stops nothing.
RecvFailSilent ==
    /\ recvPc = "read" /\ recvPc' = "exited"
    /\ socket = "closed" \/ (peer = "ended" /\ wire = <<>>)
    /\ UNCHANGED <<clientLife, closeOrdered, sendPc, socket, peer, clientSend, clientRecv>>

\* SocketRecvHelper calls Stop, and the worker returns.
RecvFail ==
    /\ recvPc = "read" /\ recvPc' = "exited"
    /\ socket = "closed" \/ (peer = "ended" /\ wire = <<>>)
    /\ closeOrdered' = TRUE
    /\ UNCHANGED <<clientLife, sendPc, socket, peer, clientSend, clientRecv>>

RecvStep == RecvTop \/ RecvRead \/ RecvFail

-----------------------------------------------------------------------------
(* What the context calls, once the client was Running or is Stopped.  Each  *)
(* tests for Running and then acts, so a client that stops meanwhile may     *)
(* still act.                                                                *)

Send(message) ==
    \/ mSendMsg' = Append(mSendMsg, message)
    \/ ~StateIn(clientCore, {"Running"}) /\ UNCHANGED mSendMsg

\* list becomes listNext, with what has come in at its end.
Recv(list, listNext) ==
    \/ listNext = list \o mRecvMsg /\ mRecvMsg' = <<>>
    \/ ~StateIn(clientCore, {"Running"}) /\ listNext = list /\ UNCHANGED mRecvMsg

\* The other end of the connection goes away.  What it takes with it might as well
\* not have been sent, and what it does once the socket is closed is not seen.
PeerEnds ==
    /\ peer = "open" /\ peer' = "ended" /\ socket = "open"
    /\ UNCHANGED <<clientLife, closeOrdered, sendPc, recvPc, socket, clientSend, clientRecv>>

=============================================================================
