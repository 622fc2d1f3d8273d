----------------------------- MODULE BmmoContext -----------------------------
(***************************************************************************)
(* ShadowWalker (BmmoContext.py, ShadowWalker.py): the context, which owns *)
(* the client of BmmoClient, logs in to the game server and keeps a table  *)
(* of the users there; CtxWorker, its thread that takes the messages from  *)
(* the client and handles them; the main thread at the keyboard; and the   *)
(* server, of which the code shows only what it may send.                  *)
(*                                                                         *)
(* A user is an id (0 is the server's) and a name.  What else a profile    *)
(* says, and messages that are only printed, are left out.                 *)
(***************************************************************************)
EXTENDS BmmoClient, FiniteSets, SequencesExt

CONSTANTS User,       \* ids of connections
          Name,
          Nobody,     \* no name
          AtStart,    \* bound: who may be on the server at first
          MaxInputs   \* bound: how often users join or leave or the keyboard chats

Table == [User -> Name \cup {Nobody}]

ASSUME UserAssumption ==
    0 \notin User /\ Nobody \notin Name /\ AtStart \subseteq Table /\ MaxInputs \in Nat

VARIABLES ctxCore, ctxStopOrdered, ctxInitPc, ctxStopPc, ctxPc, ctxStop,
          recv_msg,         \* of CtxWorker: received and not yet handled
          mGnsid2Profile,   \* id -> name, or Nobody
          mUsername2Gnsid,  \* name -> id, or 0
          mainPc,
          online, session,  \* the server's users, and what it made of the login
          uniqueNames,      \* history: it has kept the names apart
          inputs            \* how many of MaxInputs have been used

ctxLife == <<ctxCore, ctxInitPc, ctxStopPc, ctxStop>>
users == <<mGnsid2Profile, mUsername2Gnsid>>
outside == <<mainPc, online, session, uniqueNames, inputs>>
context == <<ctxLife, ctxStopOrdered, ctxPc, recv_msg, users>>
vars == <<client, context, outside>>

Outgoing == {"url", "login", "mods", "chat"}
Incoming == [kind : {"denied"}] \cup [kind : {"accepted"}, users : Table]
            \cup [kind : {"connected"}, id : User, name : Name]
            \cup [kind : {"disconnected"}, id : User]

TypeOK ==
    /\ ClientTypeOK(Outgoing, Incoming)
    /\ ctxCore \in StateMachineCore
    /\ {ctxStopOrdered, ctxStop, uniqueNames} \subseteq BOOLEAN
    /\ ctxInitPc \in {"spawned", "start", "wait", "failed", "end", "done"}
    /\ ctxStopPc \in {"none", "join", "clear", "done"}
    /\ ctxPc \in {"none", "login", "top", "receive", "process", "exited", "raised"}
    /\ recv_msg \in Seq(Incoming)
    /\ {mGnsid2Profile, online} \subseteq Table
    /\ mUsername2Gnsid \in [Name -> User \cup {0}]
    /\ mainPc \in {"keys", "waiting", "end"}
    /\ session \in {"none", "in", "denied"} /\ inputs \in 0..MaxInputs

NoUsers == [u \in User |-> Nobody]
NoNames == [n \in Name |-> 0]

NamesApart(table) ==
    \A u, v \in User : table[u] = table[v] => u = v \/ table[u] = Nobody

Init ==
    /\ ClientInit
    /\ ctxCore = NewCore /\ ctxStopOrdered = FALSE /\ ctxStop = FALSE
    /\ ctxInitPc = "spawned" /\ ctxStopPc = "none" /\ ctxPc = "none"
    /\ recv_msg = <<>>
    /\ mGnsid2Profile = NoUsers /\ mUsername2Gnsid = NoNames
    /\ mainPc = "keys" /\ session = "none" /\ inputs = 0
    /\ online \in AtStart /\ uniqueNames = NamesApart(online)

-----------------------------------------------------------------------------
(* Start *)

InitBegin ==
    /\ ctxInitPc = "spawned" /\ MayDecide(ctxCore)
    /\ IF MayInitialize(ctxCore)
       THEN ctxInitPc' = "start" /\ ctxCore' = BeginInitializing(ctxCore)
       ELSE ctxInitPc' = "done" /\ UNCHANGED ctxCore
    /\ UNCHANGED <<client, ctxStopPc, ctxStop, ctxStopOrdered, ctxPc, recv_msg, users,
                   outside>>

InitStartClient ==
    /\ ctxInitPc = "start" /\ ctxInitPc' = "wait"
    /\ startPc' = "spawned"
    /\ UNCHANGED <<clientCore, closePc, closeOrdered, sendPc, recvPc, socket, peer,
                   clientSend, clientRecv, ctxCore, ctxStopPc, ctxStop, ctxStopOrdered,
                   ctxPc, recv_msg, users, outside>>

\* SpinUntil, the test that comes after it, and the start of CtxWorker.
InitTest ==
    /\ ctxInitPc = "wait"
    /\ \/ StateIn(clientCore, {"Stopped"}) /\ ctxInitPc' = "failed" /\ UNCHANGED ctxPc
       \/ StateIn(clientCore, {"Running"}) /\ ctxInitPc' = "end" /\ ctxPc' = "login"
    /\ UNCHANGED <<client, ctxCore, ctxStopPc, ctxStop, ctxStopOrdered, recv_msg, users,
                   outside>>

InitEnd ==
    /\ ctxInitPc \in {"failed", "end"} /\ ctxInitPc' = "done"
    /\ ctxCore' = EndInitializing(ctxCore, ctxInitPc = "failed")
    /\ UNCHANGED <<client, ctxStopPc, ctxStop, ctxStopOrdered, ctxPc, recv_msg, users,
                   outside>>

InitStep == InitBegin \/ InitStartClient \/ InitTest \/ InitEnd

-----------------------------------------------------------------------------
(* Stop *)

WorkerRuns == ctxPc \notin {"none", "exited", "raised"}

\* A worker that is not alive is neither asked to stop nor joined.
StopBegin ==
    /\ ctxStopOrdered /\ ctxStopPc = "none" /\ ctxStopPc' = "join"
    /\ MayDecide(ctxCore) /\ MayStop(ctxCore)
    /\ ctxCore' = BeginStopping(ctxCore)
    /\ ctxStop' = WorkerRuns
    /\ UNCHANGED <<client, ctxInitPc, ctxStopOrdered, ctxPc, recv_msg, users, outside>>

\* The worker is joined; then the client is told to stop.
StopClient ==
    /\ ctxStopPc = "join" /\ ctxStopPc' = "clear"
    /\ ~WorkerRuns
    /\ closeOrdered' = TRUE
    /\ UNCHANGED <<clientLife, sendPc, recvPc, socket, peer, clientSend, clientRecv,
                   ctxCore, ctxInitPc, ctxStop, ctxStopOrdered, ctxPc, recv_msg, users,
                   outside>>

\* The client has stopped; the table of users is cleared.
StopEnd ==
    /\ ctxStopPc = "clear" /\ ctxStopPc' = "done"
    /\ StateIn(clientCore, {"Stopped"})
    /\ mGnsid2Profile' = NoUsers /\ mUsername2Gnsid' = NoNames
    /\ ctxCore' = EndStopping(ctxCore)
    /\ UNCHANGED <<client, ctxInitPc, ctxStop, ctxStopOrdered, ctxPc, recv_msg, outside>>

StopStep == StopBegin \/ StopClient \/ StopEnd

-----------------------------------------------------------------------------
(* CtxWorker *)

clientButQueues == <<clientLife, closeOrdered, sendPc, recvPc, socket, peer,
                     send_messages, sent, wire>>

CtxLogin ==
    /\ ctxPc = "login" /\ ctxPc' = "top"
    /\ Send("login")
    /\ UNCHANGED <<clientButQueues, mRecvMsg, ctxLife, ctxStopOrdered, recv_msg, users,
                   outside>>

\* A stopped client stops the context, from the worker that Stop waits for.
CtxTop ==
    /\ ctxPc = "top"
    /\ \/ ctxStop /\ ctxPc' = "exited" /\ UNCHANGED ctxStopOrdered
       \/ /\ ~ctxStop /\ StateIn(ctxCore, {"Running"})
          /\ IF StateIn(clientCore, {"Stopped"})
             THEN ctxPc' = "exited" /\ ctxStopOrdered' = TRUE
             ELSE ctxPc' = "receive" /\ UNCHANGED ctxStopOrdered
    /\ UNCHANGED <<client, ctxLife, recv_msg, users, outside>>

CtxReceive ==
    /\ ctxPc = "receive"
    /\ Recv(recv_msg, recv_msg')
    /\ ctxPc' = IF recv_msg' = <<>> THEN "top" ELSE "process"
    /\ UNCHANGED <<clientButQueues, mSendMsg, ctxLife, ctxStopOrdered, users, outside>>

\* The next message is of this kind; it is the last one, or the loop goes on.
Handling(kind) == ctxPc = "process" /\ Head(recv_msg).kind = kind
Handled == /\ recv_msg' = Tail(recv_msg)
           /\ ctxPc' = IF Len(recv_msg) = 1 THEN "top" ELSE "process"

ProcessDenied ==
    /\ Handling("denied") /\ ctxPc' = "exited"
    /\ ctxStopOrdered' = TRUE
    /\ UNCHANGED <<client, ctxLife, recv_msg, users, outside>>

\* The ids a name may stand for when all users are added in the message's order:
\* the last one of that name counts.
IdsOf(name, table) ==
    LET ids == {u \in User : table[u] = name} IN IF ids = {} THEN {0} ELSE ids

\* Clear, AddUser for each user of the message, and the answer, a list of mods.
ProcessAccepted ==
    /\ Handling("accepted") /\ Handled
    /\ mGnsid2Profile' = Head(recv_msg).users
    /\ mUsername2Gnsid' \in {f \in [Name -> User \cup {0}] :
                               \A n \in Name : f[n] \in IdsOf(n, mGnsid2Profile')}
    /\ Send("mods")
    /\ UNCHANGED <<clientButQueues, mRecvMsg, ctxLife, ctxStopOrdered, outside>>

\* AddUser does nothing for an id that it knows.
AddUser(id, name) ==
    IF mGnsid2Profile[id] # Nobody THEN UNCHANGED users
    ELSE /\ mGnsid2Profile' = [mGnsid2Profile EXCEPT ![id] = name]
         /\ mUsername2Gnsid' = [mUsername2Gnsid EXCEPT ![name] = id]

ProcessConnected ==
    /\ Handling("connected") /\ Handled
    /\ AddUser(Head(recv_msg).id, Head(recv_msg).name)
    /\ UNCHANGED <<client, ctxLife, ctxStopOrdered, outside>>

\* Slip: the name stays.
DeleteUserKeepName(id) ==
    mGnsid2Profile' = [mGnsid2Profile EXCEPT ![id] = Nobody] /\ UNCHANGED mUsername2Gnsid

\* DeleteUser takes out the id and then the name.
DeleteUser(id) ==
    /\ mGnsid2Profile' = [mGnsid2Profile EXCEPT ![id] = Nobody]
    /\ mUsername2Gnsid' = IF mGnsid2Profile[id] = Nobody THEN mUsername2Gnsid
                          ELSE [mUsername2Gnsid EXCEPT ![mGnsid2Profile[id]] = 0]

\* The id is known and its name is not: a KeyError between the two.
NameGone(id) ==
    mGnsid2Profile[id] # Nobody /\ mUsername2Gnsid[mGnsid2Profile[id]] = 0

ProcessDisconnected ==
    /\ Handling("disconnected") /\ ~NameGone(Head(recv_msg).id) /\ Handled
    /\ DeleteUser(Head(recv_msg).id)
    /\ UNCHANGED <<client, ctxLife, ctxStopOrdered, outside>>

\* Nothing catches it: the worker ends, and the context stays Running.
ProcessRaises ==
    /\ Handling("disconnected") /\ NameGone(Head(recv_msg).id) /\ ctxPc' = "raised"
    /\ DeleteUser(Head(recv_msg).id)
    /\ UNCHANGED <<client, ctxLife, ctxStopOrdered, recv_msg, outside>>

CtxStep == CtxLogin \/ CtxTop \/ CtxReceive \/ ProcessDenied \/ ProcessAccepted
           \/ ProcessConnected \/ ProcessDisconnected \/ ProcessRaises

-----------------------------------------------------------------------------
(* The main thread, at the keyboard *)

UseInput == inputs < MaxInputs /\ inputs' = inputs + 1

\* Chat and its three variants have no effect unless the context is Running.
MainChat ==
    /\ mainPc = "keys" /\ StateIn(ctxCore, {"Running"}) /\ UseInput
    /\ Send("chat")
    /\ UNCHANGED <<clientButQueues, mRecvMsg, context, mainPc, online, session,
                   uniqueNames>>

MainQuit ==
    /\ mainPc = "keys" /\ mainPc' = "waiting"
    /\ ctxStopOrdered' = TRUE
    /\ UNCHANGED <<client, ctxLife, ctxPc, recv_msg, users, online, session, uniqueNames,
                   inputs>>

MainEnd ==
    /\ mainPc = "waiting" /\ mainPc' = "end"
    /\ StateIn(ctxCore, {"Stopped"})
    /\ UNCHANGED <<client, context, online, session, uniqueNames, inputs>>

-----------------------------------------------------------------------------
(* The game server.  It tells a client who is logged in of every change, in  *)
(* order; ids are those of its connections, and may be used again.           *)

clientButWire == <<clientLife, closeOrdered, sendPc, recvPc, socket, peer, clientSend,
                   mRecvMsg>>

Connected == peer = "open" /\ socket = "open"
LoginArrives == Connected /\ session = "none" /\ "login" \in ToSet(sent)

ServerDenies ==
    /\ LoginArrives /\ session' = "denied"
    /\ wire' = Append(wire, [kind |-> "denied"])
    /\ UNCHANGED <<clientButWire, context, mainPc, online, uniqueNames, inputs>>

ServerAccepts ==
    /\ LoginArrives /\ session' = "in"
    /\ wire' = Append(wire, [kind |-> "accepted", users |-> online])
    /\ UNCHANGED <<clientButWire, context, mainPc, online, uniqueNames, inputs>>

Announce(message) ==
    wire' = IF session = "in" THEN Append(wire, message) ELSE wire

UserJoins ==
    /\ Connected /\ UseInput
    /\ \E u \in User, n \in Name :
         /\ online[u] = Nobody
         /\ online' = [online EXCEPT ![u] = n]
         /\ Announce([kind |-> "connected", id |-> u, name |-> n])
    /\ uniqueNames' = (uniqueNames /\ NamesApart(online'))
    /\ UNCHANGED <<clientButWire, context, mainPc, session>>

UserLeaves ==
    /\ Connected /\ UseInput
    /\ \E u \in User :
         /\ online[u] # Nobody
         /\ online' = [online EXCEPT ![u] = Nobody]
         /\ Announce([kind |-> "disconnected", id |-> u])
    /\ UNCHANGED <<clientButWire, context, mainPc, session, uniqueNames>>

ServerStep == ServerDenies \/ ServerAccepts \/ UserJoins \/ UserLeaves

-----------------------------------------------------------------------------
ClientStart == ClientStartStep /\ UNCHANGED <<context, outside>>
ClientClose == ClientCloseStep /\ UNCHANGED <<context, outside>>
ClientSends == SendStep /\ UNCHANGED <<context, outside>>
ClientReads == RecvStep /\ UNCHANGED <<context, outside>>
ConnectionEnds == PeerEnds /\ UNCHANGED <<context, outside>>

Terminated == mainPc = "end" /\ UNCHANGED vars

Next == InitStep \/ StopStep \/ CtxStep \/ MainChat \/ MainQuit \/ MainEnd
        \/ ServerStep \/ ClientStart \/ ClientClose \/ ClientSends \/ ClientReads
        \/ ConnectionEnds \/ Terminated

Spec == Init /\ [][Next]_vars

\* Threads that take finitely many steps: connecting ends, one way or the other.
FiniteThreads == InitStep \/ StopStep \/ MainEnd \/ ClientStart \/ ClientClose

\* The threads run, and closing a socket wakes the thread that reads from it or
\* writes to it.  Keyboard, server and network need do nothing: a write may
\* block for as long as its peer does not read.
Fairness ==
    /\ WF_vars(FiniteThreads) /\ WF_vars(CtxStep)
    /\ WF_vars(ClientSends /\ (SendTop \/ SendSwap \/ SendFail))
    /\ WF_vars(ClientReads)

FairSpec == Spec /\ Fairness

-----------------------------------------------------------------------------
\* A table of ids after one message.
Follow(message, table) ==
    CASE message.kind = "accepted" -> message.users
      [] message.kind = "connected" ->
           IF table[message.id] # Nobody THEN table
           ELSE [table EXCEPT ![message.id] = message.name]
      [] message.kind = "disconnected" -> [table EXCEPT ![message.id] = Nobody]
      [] message.kind = "denied" -> table

\* The tables before the first message, after it, and so on to the last.
Tables(messages, table) ==
    LET after[k \in 0..Len(messages)] ==
          IF k = 0 THEN table ELSE Follow(messages[k], after[k - 1])
    IN  after

\* What the server has said and CtxWorker has not handled, oldest first.
OnTheirWay == recv_msg \o mRecvMsg \o wire

(* In the table, which lags behind the server, a name stands for a user of   *)
(* that name or for nobody.  If the server has kept names apart, every known *)
(* user is found by name, and no message takes the worker down.  And while   *)
(* the session lasts, the table needs exactly the messages that are still on *)
(* their way, in three queues, to be the server's.                           *)
UsersFollowServer ==
    /\ \A n \in Name : mUsername2Gnsid[n] # 0 => mGnsid2Profile[mUsername2Gnsid[n]] = n
    /\ uniqueNames =>
         /\ ctxPc # "raised"
         /\ \A u \in User : LET n == mGnsid2Profile[u]
                            IN  n # Nobody => mUsername2Gnsid[n] = u
    /\ session = "in" /\ Connected /\ WorkerRuns =>
         Tables(OnTheirWay, mGnsid2Profile)[Len(OnTheirWay)] = online

\* Everything that was accepted for the server, oldest first.
Accepted == (IF sent = <<>> THEN <<>> ELSE Tail(sent)) \o send_messages \o mSendMsg

(* The URL goes first, and what the context and the keyboard hand over is    *)
(* sent in order, once and without loss as long as it is sent at all:        *)
(* SendWorker only moves messages on, and its callers only add at the end.   *)
SendsInOrder ==
    [][ /\ \/ Accepted' = Accepted
           \/ sendPc' = sendPc /\ \E m \in Outgoing : Accepted' = Append(Accepted, m)
        /\ IsPrefix(sent, sent')
        /\ sent' # <<>> => Head(sent') = "url" ]_vars

(* The context stops when the user quits, when the server denies the login   *)
(* and when the connection ends, unless an exception took its worker away.   *)
ComesDown ==
    /\ mainPc = "waiting" ~> IsInState(ctxCore, "Stopped")
    /\ session = "denied" \/ peer = "ended" ~>
         IsInState(ctxCore, "Stopped") \/ ctxPc = "raised"

=============================================================================
