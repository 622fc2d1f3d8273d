------------------------- MODULE BmmoContext_proofs -------------------------
(***************************************************************************)
(* Proofs about BmmoContext, and so about its client, for any users and    *)
(* names and any number of messages.                                       *)
(***************************************************************************)
EXTENDS BmmoContext, SequenceLemmas, WellFoundedInduction, TLAPS

-----------------------------------------------------------------------------
(* The inductive invariant *)

(* A worker is started by a start that a stop has not overtaken, and joined  *)
(* by a stop before the table is cleared.                                    *)
ThreadsOK ==
    /\ ctxInitPc \in {"start", "wait", "failed", "end"} =>
         ctxCore.mIsInTransition /\ ctxStopPc = "none"
    /\ ctxStopPc \in {"join", "clear"} => ctxCore.mIsInTransition
    /\ ctxStopPc = "done" => ctxCore.mState = "Stopped"
    /\ ctxInitPc \in {"spawned", "start", "wait", "failed"} => ctxPc = "none"
    /\ ctxStopPc \in {"clear", "done"} => ~WorkerRuns

(* What SendWorker holds at each of its locations.                           *)
SendOK ==
    /\ sent # <<>> => Head(sent) = "url"
    /\ sendPc = "url" => sent = <<>>
    /\ sendPc \in {"swap", "send"} => sent # <<>>
    /\ sendPc = "send" => send_messages # <<>>

(* Nobody logs in before the worker that does it.                            *)
LoginOK ==
    ctxPc = "none" =>
        /\ session = "none"
        /\ {sent, send_messages, mSendMsg} \subseteq Seq({"url", "chat"})

(* What the server has said, as long as it has not accepted the login.       *)
ServerOK ==
    /\ ctxPc = "process" => recv_msg # <<>>
    /\ session = "none" => OnTheirWay = <<>>
    /\ session = "denied" => \A k \in 1..Len(OnTheirWay) : OnTheirWay[k].kind = "denied"
    /\ session # "in" => mGnsid2Profile = NoUsers /\ mUsername2Gnsid = NoNames
    /\ uniqueNames => NamesApart(online)

(* The messages under way lead from the context's table to the server's, and *)
(* never through a table with two users of one name.  This stays so when the *)
(* connection has ended.                                                     *)
Path == Tables(OnTheirWay, mGnsid2Profile)

FollowsOK ==
    session = "in" /\ WorkerRuns =>
        /\ Path[Len(OnTheirWay)] = online
        /\ uniqueNames => \A k \in 0..Len(OnTheirWay) : NamesApart(Path[k])

(* The two tables of the context agree.                                      *)
NamesOK ==
    /\ \A n \in Name : mUsername2Gnsid[n] # 0 => mGnsid2Profile[mUsername2Gnsid[n]] = n
    /\ uniqueNames =>
         /\ ctxPc # "raised"
         /\ \A u \in User : LET n == mGnsid2Profile[u]
                            IN  n # Nobody => mUsername2Gnsid[n] = u

Inv == TypeOK /\ ThreadsOK /\ SendOK /\ LoginOK /\ ServerOK /\ FollowsOK /\ NamesOK

-----------------------------------------------------------------------------
(* Tables, by induction over the queue *)

(* A set of numbers that is not empty has a smallest one. *)
LEMMA Smallest ==
    ASSUME NEW T, T \subseteq Nat, T # {}
    PROVE  \E x \in T : \A y \in T : x <= y
<1>1. IsWellFoundedOn({p \in Nat \X Nat : p[1] < p[2]}, Nat)
  BY NatLessThanWellFounded, Zenon DEF OpToRel
<1>2. PICK x \in T : \A y \in T : <<y, x>> \notin {p \in Nat \X Nat : p[1] < p[2]}
  BY <1>1, WFMin, Zenon
<1>3. \A y \in T : ~(y < x)
  BY <1>2
<1> QED
  BY <1>3

(* Induction up to n, for the set of the numbers that have the property. *)
LEMMA UpTo ==
    ASSUME NEW n \in Nat, NEW G, 0 \in G, \A k \in 1..n : k - 1 \in G => k \in G
    PROVE  \A k \in 0..n : k \in G
<1> DEFINE T == {k \in 0..n : k \notin G}
<1>1. SUFFICES ASSUME T # {} PROVE FALSE
  OBVIOUS
<1>2. PICK k \in T : \A l \in T : k <= l
  <2>1. T \subseteq Nat
    OBVIOUS
  <2> QED
    BY <1>1, <2>1, Smallest, Zenon
<1>3. k \in 1..n
  OBVIOUS
<1>4. k - 1 \in G
  BY <1>2, <1>3
<1> QED
  BY <1>3, <1>4

\* f lists the tables after none and after each of the first n messages of q,
\* from table t on.
IsPath(f, n, q, t) ==
    f = [k \in 0..n |-> IF k = 0 THEN t ELSE Follow(q[k], f[k - 1])]

(* A path can be extended by one message more. *)
LEMMA PathGrows ==
    ASSUME NEW q, NEW t, NEW n \in Nat \ {0}, NEW f, IsPath(f, n - 1, q, t)
    PROVE  \E g : IsPath(g, n, q, t)
<1> DEFINE g == [k \in 0..n |-> IF k = 0 THEN t ELSE Follow(q[k], f[k - 1])]
<1>1. \A k \in 0..(n - 1) : f[k] = IF k = 0 THEN t ELSE Follow(q[k], f[k - 1])
  BY DEF IsPath
<1>2. \A k \in 0..n : g[k] = IF k = 0 THEN t ELSE Follow(q[k], f[k - 1])
  OBVIOUS
<1>3. \A k \in 1..n : k - 1 \in 0..(n - 1) /\ k - 1 \in 0..n
  OBVIOUS
<1>4. g = [k \in 0..n |-> IF k = 0 THEN t ELSE Follow(q[k], f[k - 1])]
  OBVIOUS
<1> HIDE DEF g
<1>5. \A k \in 1..n : g[k - 1] = f[k - 1]
  BY <1>1, <1>2, <1>3
<1>6. \A k \in 0..n : k # 0 => k \in 1..n
  OBVIOUS
<1>7. g = [k \in 0..n |-> IF k = 0 THEN t ELSE Follow(q[k], g[k - 1])]
  BY <1>4, <1>5, <1>6
<1> QED
  BY <1>7 DEF IsPath

(* The recursive definition of Tables defines them. *)
LEMMA TablesArePath ==
    ASSUME NEW q, Len(q) \in Nat, NEW t
    PROVE  IsPath(Tables(q, t), Len(q), q, t)
<1> DEFINE G == {n \in 0..Len(q) : \E f : IsPath(f, n, q, t)}
<1>1. \E f : IsPath(f, 0, q, t)
  <2> DEFINE f == [k \in {0} |-> t]
  <2>1. f = [k \in 0..0 |-> IF k = 0 THEN t ELSE Follow(q[k], f[k - 1])]
    OBVIOUS
  <2> QED
    BY <2>1, Zenon DEF IsPath
<1>2. 0 \in G
  BY <1>1
<1>3. \A n \in 1..Len(q) : n - 1 \in G => n \in G
  <2>1. TAKE n \in 1..Len(q)
  <2>2. HAVE n - 1 \in G
  <2>3. PICK f : IsPath(f, n - 1, q, t)
    BY <2>2
  <2>4. \E g : IsPath(g, n, q, t)
    BY <2>3, PathGrows
  <2> QED
    BY <2>4
<1>4. \A n \in 0..Len(q) : n \in G
  <2> HIDE DEF G
  <2> QED
    BY <1>2, <1>3, UpTo, Zenon
<1>5. PICK f : IsPath(f, Len(q), q, t)
  BY <1>4
<1> QED
  BY <1>5 DEF IsPath, Tables

(* The tables of a queue, one by one. *)
LEMMA TablesOneByOne ==
    ASSUME NEW q, Len(q) \in Nat, NEW t
    PROVE  /\ Tables(q, t)[0] = t
           /\ \A k \in 1..Len(q) : Tables(q, t)[k] = Follow(q[k], Tables(q, t)[k - 1])
<1> DEFINE f == Tables(q, t)
<1>1. f = [k \in 0..Len(q) |-> IF k = 0 THEN t ELSE Follow(q[k], f[k - 1])]
  BY TablesArePath DEF IsPath
<1> HIDE DEF f
<1>2. /\ f[0] = t
      /\ \A k \in 1..Len(q) : f[k] = Follow(q[k], f[k - 1])
  BY <1>1
<1> QED
  BY <1>2 DEF f

(* A message at the end adds a table at the end. *)
LEMMA TablesGrow ==
    ASSUME NEW q \in Seq(Incoming), NEW m \in Incoming, NEW t
    PROVE  /\ \A k \in 0..Len(q) : Tables(Append(q, m), t)[k] = Tables(q, t)[k]
           /\ Len(Append(q, m)) = Len(q) + 1
           /\ Tables(Append(q, m), t)[Len(q) + 1] = Follow(m, Tables(q, t)[Len(q)])
<1> DEFINE p == Append(q, m)
           f == Tables(q, t)
           g == Tables(p, t)
           G == {k \in 0..Len(q) : g[k] = f[k]}
<1>1. /\ Len(q) \in Nat /\ Len(p) = Len(q) + 1
      /\ \A k \in 1..Len(q) : p[k] = q[k]
      /\ p[Len(q) + 1] = m
  OBVIOUS
<1>2. /\ f[0] = t /\ \A k \in 1..Len(q) : f[k] = Follow(q[k], f[k - 1])
      /\ g[0] = t /\ \A k \in 1..Len(p) : g[k] = Follow(p[k], g[k - 1])
  <2>1. Len(q) \in Nat /\ Len(p) \in Nat
    BY <1>1
  <2> HIDE DEF p
  <2>2. f[0] = t /\ \A k \in 1..Len(q) : f[k] = Follow(q[k], f[k - 1])
    BY <2>1, TablesOneByOne
  <2>3. g[0] = t /\ \A k \in 1..Len(p) : g[k] = Follow(p[k], g[k - 1])
    BY <2>1, TablesOneByOne
  <2> QED
    BY <2>2, <2>3
<1> HIDE DEF p, f, g
<1>3. 0 \in G
  BY <1>1, <1>2
<1>4. \A k \in 1..Len(q) : k - 1 \in G => k \in G
  BY <1>1, <1>2
<1>5. \A k \in 0..Len(q) : g[k] = f[k]
  <2>1. \A k \in 0..Len(q) : k \in G
    <3> HIDE DEF G
    <3> QED
      BY <1>1, <1>3, <1>4, UpTo, Zenon
  <2> QED
    BY <2>1
<1>6. g[Len(q) + 1] = Follow(m, f[Len(q)])
  BY <1>1, <1>2, <1>5
<1> QED
  BY <1>1, <1>5, <1>6 DEF p, f, g

(* Handling the first message leaves the tables that come after it. *)
LEMMA TablesShrink ==
    ASSUME NEW q \in Seq(Incoming), q # <<>>, NEW t
    PROVE  LET u == Follow(Head(q), t)
           IN  /\ u = Tables(q, t)[1] /\ Len(q) \in Nat \ {0}
               /\ Len(Tail(q)) = Len(q) - 1
               /\ \A k \in 0..Len(Tail(q)) : Tables(Tail(q), u)[k] = Tables(q, t)[k + 1]
<1> DEFINE p == Tail(q)
           u == Follow(Head(q), t)
           f == Tables(q, t)
           g == Tables(p, u)
           G == {k \in 0..Len(p) : g[k] = f[k + 1]}
<1>1. /\ Len(q) \in Nat \ {0} /\ Len(p) = Len(q) - 1
      /\ \A k \in 1..Len(p) : p[k] = q[k + 1]
      /\ Head(q) = q[1]
  BY EmptySeq
<1>2. /\ f[0] = t /\ \A k \in 1..Len(q) : f[k] = Follow(q[k], f[k - 1])
      /\ g[0] = u /\ \A k \in 1..Len(p) : g[k] = Follow(p[k], g[k - 1])
  <2>1. Len(p) \in Nat /\ Len(q) \in Nat
    BY <1>1
  <2> HIDE DEF p, u
  <2>2. f[0] = t /\ \A k \in 1..Len(q) : f[k] = Follow(q[k], f[k - 1])
    BY <2>1, TablesOneByOne
  <2>3. g[0] = u /\ \A k \in 1..Len(p) : g[k] = Follow(p[k], g[k - 1])
    BY <2>1, TablesOneByOne
  <2> QED
    BY <2>2, <2>3
<1> HIDE DEF p, f, g
<1>3. u = f[1]
  BY <1>1, <1>2
<1>4. 0 \in G
  BY <1>1, <1>2, <1>3
<1>5. \A k \in 1..Len(p) : k - 1 \in G => k \in G
  <2> HIDE DEF u
  <2> QED
    BY <1>1, <1>2
<1>6. \A k \in 0..Len(p) : g[k] = f[k + 1]
  <2>1. \A k \in 0..Len(p) : k \in G
    <3>1. Len(p) \in Nat
      BY <1>1
    <3> HIDE DEF G
    <3> QED
      BY <3>1, <1>4, <1>5, UpTo, Zenon
  <2> QED
    BY <2>1
<1> QED
  BY <1>1, <1>3, <1>6 DEF p, f, g

-----------------------------------------------------------------------------
(* Typing *)

(* The transitions of a state machine keep its type. *)
LEMMA CoreTyping ==
    ASSUME NEW c \in StateMachineCore
    PROVE  /\ BeginInitializing(c) \in StateMachineCore
           /\ BeginStopping(c) \in StateMachineCore
           /\ \A p \in BOOLEAN : EndInitializing(c, p) \in StateMachineCore
           /\ EndStopping(c) \in StateMachineCore
BY DEF StateMachineCore, States, BeginInitializing, BeginStopping,
       EndInitializing, EndStopping

\* The parts of TypeOK: where the threads are, the queues and the tables.
ControlTypes ==
    /\ clientCore \in StateMachineCore /\ closeOrdered \in BOOLEAN
    /\ startPc \in {"none", "spawned", "connect", "workers", "end", "done"}
    /\ closePc \in {"none", "threads", "done"}
    /\ sendPc \in {"none", "top", "url", "swap", "send", "exited"}
    /\ recvPc \in {"none", "top", "read", "exited"}
    /\ socket \in {"new", "open", "closed"} /\ peer \in {"none", "open", "ended"}
    /\ ctxCore \in StateMachineCore
    /\ ctxStopOrdered \in BOOLEAN /\ ctxStop \in BOOLEAN /\ uniqueNames \in BOOLEAN
    /\ ctxInitPc \in {"spawned", "start", "wait", "failed", "end", "done"}
    /\ ctxStopPc \in {"none", "join", "clear", "done"}
    /\ ctxPc \in {"none", "login", "top", "receive", "process", "exited", "raised"}
    /\ mainPc \in {"keys", "waiting", "end"}
    /\ session \in {"none", "in", "denied"} /\ inputs \in 0..MaxInputs

QueueTypes ==
    /\ mSendMsg \in Seq(Outgoing) /\ send_messages \in Seq(Outgoing) /\ sent \in Seq(Outgoing)
    /\ recv_msg \in Seq(Incoming) /\ mRecvMsg \in Seq(Incoming) /\ wire \in Seq(Incoming)

TableTypes ==
    /\ mGnsid2Profile \in Table /\ online \in Table
    /\ mUsername2Gnsid \in [Name -> User \cup {0}]

(* These are the types. *)
LEMMA TypeParts == TypeOK <=> ControlTypes /\ QueueTypes /\ TableTypes
BY DEF TypeOK, ClientTypeOK, ControlTypes, QueueTypes, TableTypes

(* What a message from the server says. *)
LEMMA MessageFields ==
    ASSUME NEW m \in Incoming
    PROVE  /\ m.kind \in {"denied", "accepted", "connected", "disconnected"}
           /\ m.kind = "accepted" => m.users \in Table
           /\ m.kind = "connected" => m.id \in User /\ m.name \in Name
           /\ m.kind = "disconnected" => m.id \in User
BY DEF Incoming

(* What each kind of message does to a table. *)
LEMMA FollowMeans ==
    ASSUME NEW m \in Incoming, NEW t \in Table
    PROVE  /\ m.kind = "denied" => Follow(m, t) = t
           /\ m.kind = "accepted" => Follow(m, t) = m.users
           /\ m.kind = "connected" /\ t[m.id] # Nobody => Follow(m, t) = t
           /\ m.kind = "connected" /\ t[m.id] = Nobody =>
                Follow(m, t) = [t EXCEPT ![m.id] = m.name]
           /\ m.kind = "disconnected" => Follow(m, t) = [t EXCEPT ![m.id] = Nobody]
BY MessageFields DEF Follow

\* A message is handled.
Handles == ProcessAccepted \/ ProcessConnected \/ ProcessDisconnected

(* The table follows the message that is handled, and is cleared by a stop;  *)
(* no other step changes it.                                                 *)
LEMMA HandlesMeans ==
    ASSUME QueueTypes, TableTypes, ServerOK, Handles
    PROVE  /\ ctxPc = "process" /\ recv_msg # <<>> /\ recv_msg' = Tail(recv_msg)
           /\ ctxPc' \in {"top", "process"}
           /\ ctxPc' = "process" => recv_msg' # <<>>
           /\ Head(recv_msg) \in Incoming
           /\ mGnsid2Profile' = Follow(Head(recv_msg), mGnsid2Profile)
           /\ UNCHANGED <<mRecvMsg, wire, online, session, uniqueNames, sent,
                          send_messages, sendPc>>
<1> DEFINE m == Head(recv_msg)
<1>1. /\ ctxPc = "process" /\ recv_msg # <<>> /\ recv_msg' = Tail(recv_msg)
      /\ ctxPc' = IF Len(recv_msg) = 1 THEN "top" ELSE "process"
  BY Zenon DEF Handles, ProcessAccepted, ProcessConnected, ProcessDisconnected,
     Handling, Handled, ServerOK
<1>2. /\ m \in Incoming
      /\ Len(recv_msg) # 1 => Tail(recv_msg) # <<>>
  BY <1>1, HeadAndTail, Zenon DEF QueueTypes
<1>3. UNCHANGED <<mRecvMsg, wire, online, session, uniqueNames, sent, send_messages, sendPc>>
  BY Zenon DEF Handles, ProcessAccepted, ProcessConnected, ProcessDisconnected,
     clientButQueues, client, clientSend, clientRecv, outside
<1>4. \/ m.kind = "accepted" /\ mGnsid2Profile' = m.users
      \/ m.kind = "connected" /\ AddUser(m.id, m.name)
      \/ m.kind = "disconnected" /\ DeleteUser(m.id)
  BY Zenon DEF Handles, ProcessAccepted, ProcessConnected, ProcessDisconnected, Handling
<1> HIDE DEF m
<1>5. mGnsid2Profile' = Follow(m, mGnsid2Profile)
  BY <1>2, <1>4, FollowMeans DEF AddUser, DeleteUser, users, TableTypes
<1> QED
  BY <1>1, <1>2, <1>3, <1>5 DEF m

(* Each step keeps the types of the program locations. *)
LEMMA ControlTypesStep == ASSUME ControlTypes, [Next]_vars PROVE ControlTypes'
<1> USE DEF ControlTypes, client, clientLife, context, ctxLife, outside, Send
<1>1. CASE InitStep
  <2>1. CASE InitBegin \/ InitEnd
    BY <2>1, CoreTyping DEF InitBegin, InitEnd
  <2>2. CASE InitStartClient \/ InitTest
    BY <2>2 DEF InitStartClient, InitTest
  <2> QED
    BY <1>1, <2>1, <2>2, Zenon DEF InitStep
<1>2. CASE StopStep
  <2>1. CASE StopBegin \/ StopEnd
    BY <2>1, CoreTyping DEF StopBegin, StopEnd, WorkerRuns
  <2>2. CASE StopClient
    BY <2>2 DEF StopClient
  <2> QED
    BY <1>2, <2>1, <2>2, Zenon DEF StopStep
<1>3. CASE CtxStep
  <2>1. UNCHANGED <<clientLife, closeOrdered, sendPc, recvPc, socket, peer, ctxLife, outside>>
    BY <1>3, Zenon DEF CtxStep, CtxLogin, CtxTop, CtxReceive, ProcessDenied,
       ProcessAccepted, ProcessConnected, ProcessDisconnected, ProcessRaises,
       clientButQueues
  <2>2. /\ ctxPc' \in {"top", "receive", "process", "exited", "raised"}
        /\ ctxStopOrdered' \in BOOLEAN
    BY <1>3 DEF CtxStep, CtxLogin, CtxTop, CtxReceive, ProcessDenied,
       ProcessAccepted, ProcessConnected, ProcessDisconnected, ProcessRaises, Handled
  <2> QED
    BY <2>1, <2>2
<1>4. CASE MainChat \/ MainQuit \/ MainEnd
  <2>1. CASE MainChat
    <3>1. inputs \in 0..MaxInputs /\ inputs < MaxInputs => inputs + 1 \in 0..MaxInputs
      BY UserAssumption
    <3> QED
      BY <2>1, <3>1 DEF MainChat, UseInput, clientButQueues
  <2>2. CASE MainQuit \/ MainEnd
    BY <2>2 DEF MainQuit, MainEnd
  <2> QED
    BY <1>4, <2>1, <2>2, Zenon
<1>5. CASE ServerStep
  <2>1. UNCHANGED <<clientLife, closeOrdered, sendPc, recvPc, socket, peer, context, mainPc>>
    BY <1>5, Zenon DEF ServerStep, ServerDenies, ServerAccepts, UserJoins, UserLeaves,
       clientButWire
  <2>2. session' \in {"none", "in", "denied"}
    BY <1>5 DEF ServerStep, ServerDenies, ServerAccepts, UserJoins, UserLeaves
  <2>3. uniqueNames' \in BOOLEAN
    BY <1>5 DEF ServerStep, ServerDenies, ServerAccepts, UserJoins, UserLeaves
  <2>4. inputs' \in 0..MaxInputs
    BY <1>5, UserAssumption DEF ServerStep, ServerDenies, ServerAccepts, UserJoins,
       UserLeaves, UseInput
  <2> QED
    BY <2>1, <2>2, <2>3, <2>4
<1>6. CASE ClientStart
  <2>1. CASE ClientBegin \/ ClientFail \/ ClientEnd
    <3>1. /\ clientCore' \in {clientCore, BeginInitializing(clientCore),
                              EndInitializing(clientCore, TRUE),
                              EndInitializing(clientCore, FALSE)}
          /\ startPc' \in {"connect", "done"} /\ socket' \in {socket, "closed"}
          /\ UNCHANGED <<closePc, closeOrdered, sendPc, recvPc, peer, context, outside>>
      BY <1>6, <2>1 DEF ClientStart, ClientBegin, ClientFail, ClientEnd
    <3>2. clientCore' \in StateMachineCore
      BY <3>1, CoreTyping
    <3> QED
      BY <3>1, <3>2
  <2>2. CASE ClientConnect \/ ClientStartWorkers
    BY <1>6, <2>2 DEF ClientStart, ClientConnect, ClientStartWorkers
  <2> QED
    BY <1>6, <2>1, <2>2, Zenon DEF ClientStart, ClientStartStep
<1>7. CASE ClientClose
  <2>1. /\ clientCore' \in {BeginStopping(clientCore), EndStopping(clientCore)}
        /\ closePc' \in {"threads", "done"} /\ socket' \in {socket, "closed"}
        /\ UNCHANGED <<startPc, closeOrdered, sendPc, recvPc, peer, context, outside>>
    BY <1>7 DEF ClientClose, ClientCloseStep, CloseBegin, CloseThreads
  <2>2. clientCore' \in StateMachineCore
    BY <2>1, CoreTyping
  <2> QED
    BY <2>1, <2>2
<1>8. CASE ClientSends
  <2>1. UNCHANGED <<clientLife, recvPc, socket, peer, context, outside>>
    BY <1>8, Zenon DEF ClientSends, SendStep, SendTop, SendUrl, SendSwap, SendOne, SendFail
  <2>2. closeOrdered' \in BOOLEAN
    BY <1>8 DEF ClientSends, SendStep, SendTop, SendUrl, SendSwap, SendOne, SendFail
  <2>3. sendPc' \in {"top", "url", "swap", "send", "exited"}
    BY <1>8 DEF ClientSends, SendStep, SendTop, SendUrl, SendSwap, SendOne, SendFail
  <2> QED
    BY <2>1, <2>2, <2>3
<1>9. CASE ClientReads
  <2>1. UNCHANGED <<clientLife, sendPc, socket, peer, context, outside>>
    BY <1>9, Zenon DEF ClientReads, RecvStep, RecvTop, RecvRead, RecvFail
  <2>2. closeOrdered' \in BOOLEAN /\ recvPc' \in {"top", "read", "exited"}
    BY <1>9 DEF ClientReads, RecvStep, RecvTop, RecvRead, RecvFail
  <2> QED
    BY <2>1, <2>2
<1>10. CASE ConnectionEnds
  BY <1>10 DEF ConnectionEnds, PeerEnds
<1>11. CASE UNCHANGED vars
  BY <1>11 DEF vars
<1> QED
  BY <1>1, <1>2, <1>3, <1>4, <1>5, <1>6, <1>7, <1>8, <1>9, <1>10, <1>11, Zenon
     DEF Next, Terminated

\* The steps that change a queue.
MovesQueue ==
    \/ CtxLogin \/ CtxReceive \/ ProcessAccepted \/ ProcessConnected
    \/ ProcessDisconnected \/ MainChat \/ ServerStep \/ ClientSends \/ ClientReads

(* All others leave the queues as they are. *)
LEMMA QueueFrame ==
    ASSUME [Next]_vars, ~MovesQueue
    PROVE  /\ UNCHANGED <<clientSend, clientRecv, recv_msg>>
           /\ sendPc' = sendPc \/ sendPc' = "top"
<1> USE DEF client, context, outside
<1>1. CASE InitStep \/ StopStep
  BY <1>1, Zenon DEF InitStep, InitBegin, InitStartClient, InitTest, InitEnd,
     StopStep, StopBegin, StopClient, StopEnd
<1>2. CASE CtxStep
  BY <1>2, Zenon DEF CtxStep, CtxTop, ProcessDenied, ProcessRaises, MovesQueue
<1>3. CASE MainQuit \/ MainEnd \/ Terminated \/ UNCHANGED vars
  BY <1>3, Zenon DEF MainQuit, MainEnd, Terminated, vars
<1>4. CASE ClientStart
  BY <1>4, Zenon DEF ClientStart, ClientStartStep, ClientBegin, ClientFail,
     ClientConnect, ClientStartWorkers, ClientEnd
<1>5. CASE ClientClose \/ ConnectionEnds
  BY <1>5, Zenon DEF ClientClose, ClientCloseStep, CloseBegin, CloseThreads,
     ConnectionEnds, PeerEnds
<1> QED
  BY <1>1, <1>2, <1>3, <1>4, <1>5, Zenon DEF Next, MovesQueue

(* Each step keeps the types of the queues. *)
LEMMA QueueTypesStep ==
    ASSUME ControlTypes, QueueTypes, TableTypes, SendOK, ServerOK, [Next]_vars
    PROVE  QueueTypes'
<1> USE DEF QueueTypes, clientSend, clientRecv, clientButQueues, clientButWire, client,
            context, outside
<1>1. ASSUME NEW m \in Outgoing, Send(m), UNCHANGED <<send_messages, sent, recv_msg, mRecvMsg, wire>>
      PROVE  QueueTypes'
  <2>1. mSendMsg' = mSendMsg \/ mSendMsg' = Append(mSendMsg, m)
    BY <1>1, Zenon DEF Send
  <2>2. mSendMsg' \in Seq(Outgoing)
    BY <2>1, QueuesGrow, Zenon
  <2> QED
    BY <1>1, <2>2, Zenon
<1>2. {"url", "login", "mods", "chat"} \subseteq Outgoing
  BY DEF Outgoing
<1>3. CASE CtxLogin \/ MainChat
  BY <1>1, <1>2, <1>3 DEF CtxLogin, MainChat
<1>4. CASE CtxReceive
  <2>1. UNCHANGED <<clientSend, wire>>
    BY <1>4, Zenon DEF CtxReceive
  <2>2. recv_msg' \in Seq(Incoming) /\ mRecvMsg' \in Seq(Incoming)
    <3>1. \/ recv_msg' = recv_msg \o mRecvMsg /\ mRecvMsg' = <<>>
          \/ UNCHANGED <<recv_msg, mRecvMsg>>
      BY <1>4, Zenon DEF CtxReceive, Recv
    <3> QED
      BY <3>1, QueuesGrow, Zenon
  <2> QED
    BY <2>1, <2>2
<1>5. CASE Handles
  <2>1. recv_msg' \in Seq(Incoming) /\ UNCHANGED <<mRecvMsg, wire, sent, send_messages>>
    BY <1>5, HandlesMeans, HeadAndTail, Zenon
  <2>2. CASE ProcessAccepted
    <3>1. mSendMsg' = mSendMsg \/ mSendMsg' = Append(mSendMsg, "mods")
      BY <2>2, Zenon DEF ProcessAccepted, Send
    <3>2. mSendMsg' \in Seq(Outgoing)
      BY <1>2, <3>1, QueuesGrow, Zenon
    <3> QED
      BY <2>1, <3>2, Zenon
  <2>3. CASE ProcessConnected \/ ProcessDisconnected
    BY <2>1, <2>3 DEF ProcessConnected, ProcessDisconnected
  <2> QED
    BY <1>5, <2>2, <2>3 DEF Handles
<1>6. CASE ServerStep
  <2>1. UNCHANGED <<clientSend, recv_msg, mRecvMsg>>
    BY <1>6, Zenon DEF ServerStep, ServerDenies, ServerAccepts, UserJoins, UserLeaves
  <2>2. wire' = wire \/ \E m \in Incoming : wire' = Append(wire, m)
    <3>1. CASE ServerDenies
      BY <3>1 DEF ServerDenies, Incoming
    <3>2. CASE ServerAccepts
      BY <3>2 DEF ServerAccepts, Incoming, TableTypes
    <3>3. CASE UserJoins
      BY <3>3 DEF UserJoins, Incoming, Announce
    <3>4. CASE UserLeaves
      BY <3>4 DEF UserLeaves, Incoming, Announce
    <3> QED
      BY <1>6, <3>1, <3>2, <3>3, <3>4, Zenon DEF ServerStep
  <2>3. wire' \in Seq(Incoming)
    BY <2>2, QueuesGrow, Zenon
  <2> QED
    BY <2>1, <2>3, Zenon
<1>7. CASE ClientSends
  <2>1. UNCHANGED <<clientRecv, recv_msg>>
    BY <1>7, Zenon DEF ClientSends, SendStep, SendTop, SendUrl, SendSwap, SendOne, SendFail
  <2>2. CASE SendOne
    <3>1. /\ Head(send_messages) \in Outgoing /\ Tail(send_messages) \in Seq(Outgoing)
      BY <2>2, HeadAndTail DEF SendOne, SendOK
    <3>2. /\ sent' = Append(sent, Head(send_messages))
          /\ send_messages' = Tail(send_messages) /\ UNCHANGED mSendMsg
      BY <2>2, Zenon DEF SendOne
    <3>3. sent' \in Seq(Outgoing)
      BY <3>1, <3>2, QueuesGrow, Zenon
    <3> QED
      BY <2>1, <3>1, <3>2, <3>3, Zenon
  <2>3. CASE SendSwap
    <3>1. send_messages' = send_messages \o mSendMsg /\ mSendMsg' = <<>> /\ UNCHANGED sent
      BY <2>3, Zenon DEF SendSwap
    <3>2. send_messages' \in Seq(Outgoing) /\ mSendMsg' \in Seq(Outgoing)
      BY <3>1, QueuesGrow, Zenon
    <3> QED
      BY <2>1, <3>1, <3>2, Zenon
  <2>4. CASE SendUrl
    <3>1. sent' = <<"url">> /\ UNCHANGED <<mSendMsg, send_messages>>
      BY <2>4, Zenon DEF SendUrl
    <3>2. sent' \in Seq(Outgoing)
      BY <1>2, <3>1
    <3> QED
      BY <2>1, <3>1, <3>2, Zenon
  <2>5. CASE SendTop \/ SendFail
    BY <2>1, <2>5, Zenon DEF SendTop, SendFail
  <2> QED
    BY <1>7, <2>2, <2>3, <2>4, <2>5, Zenon DEF ClientSends, SendStep
<1>8. CASE ClientReads
  <2>1. CASE RecvRead
    <3>1. /\ Head(wire) \in Incoming /\ Tail(wire) \in Seq(Incoming)
      BY <2>1, HeadAndTail DEF RecvRead
    <3> QED
      BY <1>8, <2>1, <3>1 DEF ClientReads, RecvRead
  <2>2. CASE RecvTop \/ RecvFail
    BY <1>8, <2>2, Zenon DEF ClientReads, RecvTop, RecvFail
  <2> QED
    BY <1>8, <2>1, <2>2, Zenon DEF ClientReads, RecvStep
<1>9. CASE ~MovesQueue
  <2>1. UNCHANGED <<clientSend, clientRecv, recv_msg>>
    BY <1>9, QueueFrame, Zenon
  <2> QED
    BY <2>1
<1> QED
  BY <1>3, <1>4, <1>5, <1>6, <1>7, <1>8, <1>9, Zenon DEF MovesQueue, Handles

(* The steps that change the context's table of ids or of names. *)
LEMMA UsersFrame ==
    ASSUME [Next]_vars
    PROVE  Handles \/ ProcessRaises \/ StopEnd \/ UNCHANGED users
<1> USE DEF client, context, outside
<1>1. CASE InitStep \/ StopStep
  BY <1>1, Zenon DEF InitStep, InitBegin, InitStartClient, InitTest, InitEnd,
     StopStep, StopBegin, StopClient
<1>2. CASE CtxStep
  BY <1>2, Zenon DEF CtxStep, CtxLogin, CtxTop, CtxReceive, ProcessDenied, Handles
<1>3. CASE MainChat \/ MainQuit \/ MainEnd \/ Terminated \/ UNCHANGED vars
  BY <1>3, Zenon DEF MainChat, MainQuit, MainEnd, Terminated, vars
<1>4. CASE ServerStep
  BY <1>4, Zenon DEF ServerStep, ServerDenies, ServerAccepts, UserJoins, UserLeaves
<1>5. CASE ClientStart \/ ClientClose \/ ClientSends \/ ClientReads \/ ConnectionEnds
  BY <1>5, Zenon DEF ClientStart, ClientClose, ClientSends, ClientReads, ConnectionEnds
<1> QED
  BY <1>1, <1>2, <1>3, <1>4, <1>5, Zenon DEF Next

(* And those that change the server's, or what it has made of the login. *)
LEMMA ServerFrame ==
    ASSUME [Next]_vars
    PROVE  ServerStep \/ UNCHANGED <<online, session, uniqueNames>>
<1> USE DEF outside
<1>1. CASE InitStep \/ StopStep
  BY <1>1, Zenon DEF InitStep, InitBegin, InitStartClient, InitTest, InitEnd,
     StopStep, StopBegin, StopClient, StopEnd
<1>2. CASE CtxStep
  BY <1>2, Zenon DEF CtxStep, CtxLogin, CtxTop, CtxReceive, ProcessDenied,
     ProcessAccepted, ProcessConnected, ProcessDisconnected, ProcessRaises
<1>3. CASE MainChat \/ MainQuit \/ MainEnd \/ Terminated \/ UNCHANGED vars
  BY <1>3, Zenon DEF MainChat, MainQuit, MainEnd, Terminated, vars
<1>4. CASE ClientStart \/ ClientClose \/ ClientSends \/ ClientReads \/ ConnectionEnds
  BY <1>4, Zenon DEF ClientStart, ClientClose, ClientSends, ClientReads, ConnectionEnds
<1> QED
  BY <1>1, <1>2, <1>3, <1>4, Zenon DEF Next

(* The threads of the context move in its own steps alone. *)
LEMMA ContextFrame ==
    ASSUME [Next]_vars
    PROVE  \/ InitStep \/ StopStep
           \/ CtxStep /\ UNCHANGED ctxLife
           \/ UNCHANGED <<ctxLife, ctxPc, recv_msg>>
<1> USE DEF context
<1>1. CASE CtxStep
  BY <1>1, Zenon DEF CtxStep, CtxLogin, CtxTop, CtxReceive, ProcessDenied,
     ProcessAccepted, ProcessConnected, ProcessDisconnected, ProcessRaises
<1>2. CASE MainChat \/ MainQuit \/ MainEnd \/ Terminated \/ UNCHANGED vars
  BY <1>2, Zenon DEF MainChat, MainQuit, MainEnd, Terminated, vars
<1>3. CASE ServerStep
  BY <1>3, Zenon DEF ServerStep, ServerDenies, ServerAccepts, UserJoins, UserLeaves
<1>4. CASE ClientStart \/ ClientClose \/ ClientSends \/ ClientReads \/ ConnectionEnds
  BY <1>4, Zenon DEF ClientStart, ClientClose, ClientSends, ClientReads, ConnectionEnds
<1> QED
  BY <1>1, <1>2, <1>3, <1>4, Zenon DEF Next

(* Each step keeps the types of the tables. *)
LEMMA TableTypesStep ==
    ASSUME QueueTypes, TableTypes, ServerOK, [Next]_vars
    PROVE  TableTypes'
<1> DEFINE m == Head(recv_msg)
<1>1. Nobody \in Name \cup {Nobody} /\ 0 \in User \cup {0}
  OBVIOUS
<1>2. /\ mGnsid2Profile' \in Table
      /\ mUsername2Gnsid' \in [Name -> User \cup {0}]
  <2>1. CASE ProcessAccepted
    <3>1. m \in Incoming /\ m.kind = "accepted"
      BY <2>1, HandlesMeans, Zenon DEF Handles, ProcessAccepted, Handling
    <3>2. m.users \in Table
      BY <3>1, MessageFields, Zenon
    <3> QED
      BY <2>1, <3>2 DEF ProcessAccepted
  <2>2. CASE ProcessConnected
    <3>1. m \in Incoming /\ m.kind = "connected"
      BY <2>2, HandlesMeans, Zenon DEF Handles, ProcessConnected, Handling
    <3>2. m.id \in User /\ m.name \in Name
      BY <3>1, MessageFields, Zenon
    <3>3. AddUser(m.id, m.name)
      BY <2>2, Zenon DEF ProcessConnected
    <3> HIDE DEF m
    <3> QED
      BY <3>2, <3>3 DEF AddUser, users, TableTypes, Table
  <2>3. CASE ProcessDisconnected \/ ProcessRaises
    <3>1. m \in Incoming /\ m.kind = "disconnected"
      <4>1. ctxPc = "process" /\ m.kind = "disconnected"
        BY <2>3, Zenon DEF ProcessDisconnected, ProcessRaises, Handling
      <4> QED
        BY <4>1, HeadAndTail, Zenon DEF ServerOK, QueueTypes
    <3>2. m.id \in User
      BY <3>1, MessageFields, Zenon
    <3>3. DeleteUser(m.id)
      BY <2>3, Zenon DEF ProcessDisconnected, ProcessRaises
    <3> HIDE DEF m
    <3> QED
      BY <3>2, <3>3 DEF DeleteUser, TableTypes, Table
  <2>4. CASE StopEnd
    BY <2>4 DEF StopEnd, NoUsers, NoNames, Table
  <2>5. CASE UNCHANGED users
    BY <2>5 DEF users, TableTypes
  <2> QED
    BY <2>1, <2>2, <2>3, <2>4, <2>5, UsersFrame, Zenon DEF Handles
<1>3. online' \in Table
  <2>1. CASE ServerStep
    BY <2>1 DEF ServerStep, ServerDenies, ServerAccepts, UserJoins, UserLeaves, Table,
       TableTypes
  <2> QED
    BY <2>1, ServerFrame, Zenon DEF TableTypes
<1> QED
  BY <1>2, <1>3, Zenon DEF TableTypes

(* Each step keeps the order of the context's threads. *)
LEMMA ThreadsStep == ASSUME ControlTypes, ThreadsOK, [Next]_vars PROVE ThreadsOK'
<1> USE DEF ThreadsOK, WorkerRuns, ctxLife
<1>1. CASE InitStep
  <2>1. CASE InitBegin
    BY <2>1 DEF InitBegin, MayDecide, MayInitialize, BeginInitializing, ControlTypes,
       StateMachineCore
  <2>2. CASE InitStartClient \/ InitTest
    BY <2>2 DEF InitStartClient, InitTest
  <2>3. CASE InitEnd
    BY <2>3 DEF InitEnd, ControlTypes
  <2> QED
    BY <1>1, <2>1, <2>2, <2>3, Zenon DEF InitStep
<1>2. CASE StopStep
  <2>1. CASE StopBegin
    BY <2>1 DEF StopBegin, MayDecide, MayStop, BeginStopping, ControlTypes,
       StateMachineCore
  <2>2. CASE StopClient
    BY <2>2 DEF StopClient
  <2>3. CASE StopEnd
    BY <2>3 DEF StopEnd, EndStopping, ControlTypes, StateMachineCore
  <2> QED
    BY <1>2, <2>1, <2>2, <2>3, Zenon DEF StopStep
<1>3. CASE CtxStep /\ UNCHANGED ctxLife
  <2>1. WorkerRuns /\ ctxPc' # "none"
    BY <1>3 DEF CtxStep, CtxLogin, CtxTop, CtxReceive, ProcessDenied, ProcessAccepted,
       ProcessConnected, ProcessDisconnected, ProcessRaises, Handling, Handled
  <2> QED
    BY <1>3, <2>1
<1>4. CASE UNCHANGED <<ctxLife, ctxPc>>
  BY <1>4
<1> QED
  BY <1>1, <1>2, <1>3, <1>4, ContextFrame

(* Nobody but SendWorker touches what it holds. *)
LEMMA SendFrame ==
    ASSUME QueueTypes, TableTypes, ServerOK, [Next]_vars
    PROVE  \/ ClientSends
           \/ UNCHANGED <<sent, send_messages>> /\ (sendPc' = sendPc \/ sendPc' = "top")
<1> USE DEF client, clientSend, clientButQueues, clientButWire
<1>1. CASE ~MovesQueue
  BY <1>1, QueueFrame, Zenon
<1>2. CASE CtxLogin \/ CtxReceive \/ MainChat
  BY <1>2, Zenon DEF CtxLogin, CtxReceive, MainChat
<1>3. CASE Handles
  BY <1>3, HandlesMeans, Zenon
<1>4. CASE ServerStep
  BY <1>4, Zenon DEF ServerStep, ServerDenies, ServerAccepts, UserJoins, UserLeaves
<1>5. CASE ClientReads
  BY <1>5, Zenon DEF ClientReads, RecvStep, RecvTop, RecvRead, RecvFail
<1> QED
  BY <1>1, <1>2, <1>3, <1>4, <1>5, Zenon DEF MovesQueue, Handles

(* Each step keeps what SendWorker holds. *)
LEMMA SenderStep ==
    ASSUME QueueTypes, TableTypes, ServerOK, SendOK, [Next]_vars
    PROVE  SendOK'
<1> USE DEF SendOK
<1>1. CASE UNCHANGED <<sent, send_messages>> /\ (sendPc' = sendPc \/ sendPc' = "top")
  BY <1>1
<1>2. CASE SendTop
  BY <1>2 DEF SendTop, clientSend
<1>3. CASE SendUrl
  BY <1>3 DEF SendUrl
<1>4. CASE SendSwap
  BY <1>4 DEF SendSwap, MayTake
<1>5. CASE SendOne
  <2>1. /\ sent # <<>> /\ sendPc = "send" /\ send_messages # <<>>
        /\ sent' = Append(sent, Head(send_messages))
        /\ send_messages' = Tail(send_messages)
        /\ sendPc' = IF Len(send_messages) = 1 THEN "top" ELSE "send"
    BY <1>5 DEF SendOne
  <2>2. /\ Head(send_messages) \in Outgoing
        /\ Len(send_messages) # 1 => Tail(send_messages) # <<>>
    BY <2>1, HeadAndTail, Zenon DEF QueueTypes
  <2>3. sent' # <<>> /\ Head(sent') = Head(sent)
    BY <2>1, <2>2, HeadOfAppend, Zenon DEF QueueTypes
  <2> QED
    BY <2>1, <2>2, <2>3
<1>6. CASE SendFail
  BY <1>6 DEF SendFail, clientSend
<1> QED
  BY <1>1, <1>2, <1>3, <1>4, <1>5, <1>6, SendFrame, Zenon DEF ClientSends, SendStep
(* A worker that has been started is never again one that has not. *)
LEMMA StartedStays ==
    ASSUME ThreadsOK, [Next]_vars, ctxPc' = "none"
    PROVE  ctxPc = "none" /\ ~CtxStep
<1>1. CASE InitStep \/ StopStep
  <2>1. ctxPc = "none"
    BY <1>1 DEF InitStep, InitBegin, InitStartClient, InitTest, InitEnd, StopStep,
       StopBegin, StopClient, StopEnd
  <2> QED
    BY <2>1 DEF CtxStep, CtxLogin, CtxTop, CtxReceive, ProcessDenied, ProcessAccepted,
       ProcessConnected, ProcessDisconnected, ProcessRaises, Handling
<1>2. CASE CtxStep
  BY <1>2 DEF CtxStep, CtxLogin, CtxTop, CtxReceive, ProcessDenied, ProcessAccepted,
     ProcessConnected, ProcessDisconnected, ProcessRaises, Handling, Handled
<1>3. CASE UNCHANGED ctxPc /\ ~CtxStep
  BY <1>3
<1> QED
  BY <1>1, <1>2, <1>3, ContextFrame, Zenon

(* Each step keeps the login to the worker. *)
LEMMA LoginStep ==
    ASSUME QueueTypes, TableTypes, ServerOK, SendOK, ThreadsOK, LoginOK, [Next]_vars
    PROVE  LoginOK'
<1> DEFINE S == {"url", "chat"}
<1>1. SUFFICES ASSUME ctxPc' = "none"
               PROVE  /\ session' = "none"
                      /\ {sent, send_messages, mSendMsg}' \subseteq Seq(S)
  BY DEF LoginOK
<1>2. ctxPc = "none" /\ ~CtxStep
  BY <1>1, StartedStays, Zenon
<1>3. /\ session = "none"
      /\ sent \in Seq(S) /\ send_messages \in Seq(S) /\ mSendMsg \in Seq(S)
  BY <1>2 DEF LoginOK
<1>4. "url" \in S /\ "chat" \in S
  OBVIOUS
<1>5. ~LoginArrives
  <2>1. ToSet(sent) \subseteq S
    BY <1>3 DEF ToSet
  <2> QED
    BY <2>1 DEF LoginArrives
<1> HIDE DEF S
<1>6. session' = "none"
  <2>1. CASE ServerStep
    BY <1>3, <1>5, <2>1, Zenon DEF ServerStep, ServerDenies, ServerAccepts, UserJoins,
       UserLeaves
  <2> QED
    BY <1>3, <2>1, ServerFrame, Zenon
<1>7. sent' \in Seq(S) /\ send_messages' \in Seq(S) /\ mSendMsg' \in Seq(S)
  <2> USE DEF client, clientSend, clientButQueues, clientButWire
  <2>1. CASE ClientSends
    <3>1. CASE SendOne
      <4>1. send_messages # <<>>
        BY <3>1, Zenon DEF SendOne, SendOK
      <4>2. Head(send_messages) \in S /\ Tail(send_messages) \in Seq(S)
        BY <1>3, <4>1, HeadAndTail, Zenon
      <4>3. /\ sent' = Append(sent, Head(send_messages))
            /\ send_messages' = Tail(send_messages) /\ UNCHANGED mSendMsg
        BY <3>1, Zenon DEF SendOne
      <4> QED
        BY <1>3, <4>2, <4>3, QueuesGrow, Zenon
    <3>2. CASE SendSwap
      BY <1>3, <3>2, QueuesGrow, Zenon DEF SendSwap
    <3>3. CASE SendUrl
      <4>1. sent' = <<"url">> /\ UNCHANGED <<mSendMsg, send_messages>>
        BY <3>3, Zenon DEF SendUrl
      <4> QED
        BY <1>3, <1>4, <4>1
    <3>4. CASE SendTop \/ SendFail
      BY <1>3, <3>4, Zenon DEF SendTop, SendFail
    <3> QED
      BY <2>1, <3>1, <3>2, <3>3, <3>4, Zenon DEF ClientSends, SendStep
  <2>2. CASE MainChat
    <3>1. /\ UNCHANGED <<send_messages, sent>>
          /\ mSendMsg' = mSendMsg \/ mSendMsg' = Append(mSendMsg, "chat")
      BY <2>2, Zenon DEF MainChat, Send
    <3> QED
      BY <1>3, <1>4, <3>1, QueuesGrow, Zenon
  <2>3. CASE UNCHANGED clientSend
    BY <1>3, <2>3, Zenon
  <2>4. CASE ServerStep \/ ClientReads
    BY <1>3, <2>4, Zenon DEF ServerStep, ServerDenies, ServerAccepts, UserJoins,
       UserLeaves, ClientReads, RecvStep, RecvTop, RecvRead, RecvFail
  <2> QED
    BY <1>2, <2>1, <2>2, <2>3, <2>4, QueueFrame, Zenon DEF MovesQueue, CtxStep
<1> QED
  BY <1>6, <1>7, Zenon
-----------------------------------------------------------------------------
(* The messages under way *)

(* The three queues are one line of messages. *)
LEMMA WayTyping == QueueTypes => OnTheirWay \in Seq(Incoming)
BY QueuesGrow, Zenon DEF QueueTypes, OnTheirWay

(* Its oldest message is the next that is handled. *)
LEMMA WayHead ==
    ASSUME QueueTypes, recv_msg # <<>>
    PROVE  /\ OnTheirWay # <<>> /\ Head(OnTheirWay) = Head(recv_msg)
           /\ Tail(OnTheirWay) = Tail(recv_msg) \o mRecvMsg \o wire
<1> DEFINE l == recv_msg \o mRecvMsg
<1>1. recv_msg \in Seq(Incoming) /\ mRecvMsg \in Seq(Incoming) /\ wire \in Seq(Incoming)
  BY Zenon DEF QueueTypes
<1>2. /\ l \in Seq(Incoming) /\ l # <<>>
      /\ Head(l) = Head(recv_msg) /\ Tail(l) = Tail(recv_msg) \o mRecvMsg
  BY <1>1, HeadOfConcat, Zenon
<1>3. OnTheirWay = l \o wire
  BY DEF OnTheirWay
<1> HIDE DEF l
<1>4. l \o wire # <<>> /\ Head(l \o wire) = Head(l) /\ Tail(l \o wire) = Tail(l) \o wire
  BY <1>1, <1>2, HeadOfConcat, SMTT(30)
<1> QED
  BY <1>2, <1>3, <1>4, Zenon

(* It leaves the line when it is handled. *)
LEMMA WayShrinks ==
    ASSUME QueueTypes, TableTypes, ServerOK, Handles
    PROVE  /\ OnTheirWay # <<>> /\ Head(OnTheirWay) = Head(recv_msg)
           /\ OnTheirWay' = Tail(OnTheirWay)
<1>1. /\ recv_msg # <<>> /\ recv_msg' = Tail(recv_msg)
      /\ UNCHANGED <<mRecvMsg, wire>>
  BY HandlesMeans, Zenon
<1> QED
  BY <1>1, WayHead, Zenon DEF OnTheirWay

(* What the server sends is the newest. *)
LEMMA WayGrows ==
    ASSUME QueueTypes, NEW m \in Incoming, UNCHANGED <<recv_msg, mRecvMsg>>,
           wire' = Append(wire, m)
    PROVE  OnTheirWay' = Append(OnTheirWay, m)
<1> DEFINE l == recv_msg \o mRecvMsg
<1>1. l \in Seq(Incoming) /\ wire \in Seq(Incoming)
  BY QueuesGrow, Zenon DEF QueueTypes
<1>2. OnTheirWay = l \o wire /\ OnTheirWay' = l \o Append(wire, m)
  BY Zenon DEF OnTheirWay
<1> HIDE DEF l
<1>3. l \o Append(wire, m) = Append(l \o wire, m)
  BY <1>1, AppendToConcat
<1> QED
  BY <1>2, <1>3, Zenon

(* Every other step, between the queues too, leaves the line as it is. *)
LEMMA WayStays ==
    ASSUME QueueTypes, [Next]_vars, ~Handles, ~ServerStep
    PROVE  UNCHANGED OnTheirWay
<1> DEFINE S == Seq(Incoming)
<1>1. recv_msg \in S /\ mRecvMsg \in S /\ wire \in S
  BY Zenon DEF QueueTypes
<1>2. CASE UNCHANGED <<recv_msg, mRecvMsg, wire>>
  BY <1>2, Zenon DEF OnTheirWay
<1>3. CASE CtxReceive /\ ~UNCHANGED <<recv_msg, mRecvMsg>>
  <2>1. /\ recv_msg' = recv_msg \o mRecvMsg /\ mRecvMsg' = <<>> /\ UNCHANGED wire
    BY <1>3, Zenon DEF CtxReceive, Recv, clientButQueues
  <2>2. (recv_msg \o mRecvMsg) \o <<>> = recv_msg \o mRecvMsg
    BY <1>1, ConcatLaws, Zenon
  <2> QED
    BY <2>1, <2>2, Zenon DEF OnTheirWay
<1>4. CASE RecvRead /\ UNCHANGED recv_msg
  <2> DEFINE d == Append(mRecvMsg, Head(wire))
             c == Tail(wire)
  <2>1. wire # <<>> /\ wire' = c /\ mRecvMsg' = d
    BY <1>4, Zenon DEF RecvRead
  <2>2. MovesOn(mRecvMsg, wire) /\ d \in S /\ c \in S
    BY <1>1, <2>1, HeadMovesOn, HeadAndTail, Zenon
  <2>3. d \o c = mRecvMsg \o wire
    BY <2>2, Zenon DEF MovesOn
  <2> HIDE DEF d, c
  <2>4. Regroups(recv_msg, d, c) /\ Regroups(recv_msg, mRecvMsg, wire)
    BY <1>1, <2>2, Regrouping, Zenon
  <2> QED
    BY <1>4, <2>1, <2>3, <2>4, Zenon DEF Regroups, OnTheirWay
<1>5. \/ UNCHANGED <<recv_msg, mRecvMsg, wire>>
      \/ CtxReceive /\ ~UNCHANGED <<recv_msg, mRecvMsg>>
      \/ RecvRead /\ UNCHANGED recv_msg
  <2> USE DEF clientSend, clientRecv, clientButQueues, client, context
  <2>1. CASE ~MovesQueue
    BY <2>1, QueueFrame, Zenon
  <2>2. CASE CtxLogin \/ CtxReceive \/ MainChat
    BY <2>2, Zenon DEF CtxLogin, CtxReceive, MainChat
  <2>3. CASE ClientSends
    BY <2>3, Zenon DEF ClientSends, SendStep, SendTop, SendUrl, SendSwap, SendOne, SendFail
  <2>4. CASE ClientReads
    BY <2>4, Zenon DEF ClientReads, RecvStep, RecvTop, RecvFail
  <2> QED
    BY <2>1, <2>2, <2>3, <2>4, Zenon DEF MovesQueue, Handles
<1> QED
  BY <1>2, <1>3, <1>4, <1>5, Zenon

(* What the server does: it answers the login, or users join or leave, which *)
(* it tells a client who is logged in.                                       *)
LEMMA ServerSays ==
    ASSUME QueueTypes, TableTypes, ServerStep
    PROVE  /\ UNCHANGED <<users, ctxPc>>
           /\ \/ /\ session = "none" /\ session' = "denied" /\ UNCHANGED <<online, uniqueNames>>
                 /\ OnTheirWay' = Append(OnTheirWay, [kind |-> "denied"])
              \/ /\ session = "none" /\ session' = "in" /\ UNCHANGED <<online, uniqueNames>>
                 /\ OnTheirWay' = Append(OnTheirWay, [kind |-> "accepted", users |-> online])
              \/ /\ UNCHANGED session
                 /\ \E u \in User, n \in Name :
                      /\ online[u] = Nobody /\ online' = [online EXCEPT ![u] = n]
                      /\ uniqueNames' = (uniqueNames /\ NamesApart(online'))
                      /\ OnTheirWay' = IF session = "in"
                           THEN Append(OnTheirWay, [kind |-> "connected", id |-> u, name |-> n])
                           ELSE OnTheirWay
              \/ /\ UNCHANGED <<session, uniqueNames>>
                 /\ \E u \in User :
                      /\ online[u] # Nobody /\ online' = [online EXCEPT ![u] = Nobody]
                      /\ OnTheirWay' = IF session = "in"
                           THEN Append(OnTheirWay, [kind |-> "disconnected", id |-> u])
                           ELSE OnTheirWay
<1>1. UNCHANGED <<users, ctxPc, recv_msg, mRecvMsg>>
  BY Zenon DEF ServerStep, ServerDenies, ServerAccepts, UserJoins, UserLeaves,
     clientButWire, context
<1>2. \A m \in Incoming : wire' = Append(wire, m) => OnTheirWay' = Append(OnTheirWay, m)
  BY <1>1, WayGrows, Zenon
<1>3. wire' = wire => OnTheirWay' = OnTheirWay
  BY <1>1, Zenon DEF OnTheirWay
<1>4. /\ [kind |-> "denied"] \in Incoming
      /\ [kind |-> "accepted", users |-> online] \in Incoming
      /\ \A u \in User, n \in Name : [kind |-> "connected", id |-> u, name |-> n] \in Incoming
      /\ \A u \in User : [kind |-> "disconnected", id |-> u] \in Incoming
  BY DEF Incoming, TableTypes
<1>5. CASE ServerDenies
  BY <1>1, <1>2, <1>4, <1>5, Zenon DEF ServerDenies, LoginArrives
<1>6. CASE ServerAccepts
  BY <1>1, <1>2, <1>4, <1>6, Zenon DEF ServerAccepts, LoginArrives
<1>7. CASE UserJoins
  <2>1. PICK u \in User, n \in Name :
          /\ online[u] = Nobody /\ online' = [online EXCEPT ![u] = n]
          /\ Announce([kind |-> "connected", id |-> u, name |-> n])
    BY <1>7, Zenon DEF UserJoins
  <2>2. OnTheirWay' = IF session = "in"
                      THEN Append(OnTheirWay, [kind |-> "connected", id |-> u, name |-> n])
                      ELSE OnTheirWay
    BY <1>2, <1>3, <1>4, <2>1, Zenon DEF Announce
  <2> QED
    BY <1>1, <1>7, <2>1, <2>2, Zenon DEF UserJoins
<1>8. CASE UserLeaves
  <2>1. PICK u \in User :
          /\ online[u] # Nobody /\ online' = [online EXCEPT ![u] = Nobody]
          /\ Announce([kind |-> "disconnected", id |-> u])
    BY <1>8, Zenon DEF UserLeaves
  <2>2. OnTheirWay' = IF session = "in"
                      THEN Append(OnTheirWay, [kind |-> "disconnected", id |-> u])
                      ELSE OnTheirWay
    BY <1>2, <1>3, <1>4, <2>1, Zenon DEF Announce
  <2> QED
    BY <1>1, <1>8, <2>1, <2>2, Zenon DEF UserLeaves
<1> QED
  BY <1>5, <1>6, <1>7, <1>8, Zenon DEF ServerStep

(* As long as the login is not accepted, only its denial can be handled. *)
LEMMA NotYetIn ==
    ASSUME QueueTypes, ServerOK, session # "in", session \in {"none", "in", "denied"}, recv_msg # <<>>
    PROVE  session = "denied" /\ Head(recv_msg).kind = "denied"
<1>1. OnTheirWay # <<>> /\ Head(OnTheirWay) = Head(recv_msg)
  BY WayHead, Zenon
<1>2. session = "denied"
  BY <1>1, Zenon DEF ServerOK
<1>3. \A k \in 1..Len(OnTheirWay) : OnTheirWay[k].kind = "denied"
  BY <1>2, Zenon DEF ServerOK
<1>4. OnTheirWay \in Seq(Incoming)
  BY WayTyping
<1> DEFINE q == OnTheirWay
<1>5. q # <<>> /\ q \in Seq(Incoming) /\ \A k \in 1..Len(q) : q[k].kind = "denied"
  BY <1>1, <1>3, <1>4
<1> HIDE DEF q
<1>6. Head(q).kind = "denied"
  BY <1>5, EmptySeq
<1> QED
  BY <1>1, <1>2, <1>6 DEF q

(* Each step keeps what the server has said. *)
LEMMA LineStep ==
    ASSUME ControlTypes, QueueTypes, TableTypes, ServerOK, [Next]_vars
    PROVE  ServerOK'
<1>1. ASSUME session # "in", ctxPc = "process"
      PROVE  Head(recv_msg).kind = "denied" /\ ~Handles /\ ~ProcessRaises
  <2>1. session \in {"none", "in", "denied"}
    BY DEF ControlTypes
  <2>2. Head(recv_msg).kind = "denied"
    BY <1>1, <2>1, NotYetIn, Zenon DEF ServerOK
  <2> QED
    BY <2>2 DEF Handles, ProcessAccepted, ProcessConnected, ProcessDisconnected,
       ProcessRaises, Handling
<1>2. session # "in" => ~Handles /\ ~ProcessRaises
  <2>1. Handles \/ ProcessRaises => ctxPc = "process"
    BY Zenon DEF Handles, ProcessAccepted, ProcessConnected, ProcessDisconnected,
       ProcessRaises, Handling
  <2> QED
    BY <1>1, <2>1, Zenon
<1>3. ctxPc' = "process" => recv_msg' # <<>>
  <2>1. CASE Handles
    BY <2>1, HandlesMeans, Zenon
  <2>2. CASE CtxReceive
    BY <2>2 DEF CtxReceive
  <2>3. CASE CtxLogin \/ CtxTop \/ ProcessDenied \/ ProcessRaises
    BY <2>3 DEF CtxLogin, CtxTop, ProcessDenied, ProcessRaises
  <2>4. CASE InitStep \/ StopStep
    <3>1. UNCHANGED recv_msg
      BY <2>4, Zenon DEF InitStep, InitBegin, InitStartClient, InitTest, InitEnd,
         StopStep, StopBegin, StopClient, StopEnd
    <3>2. ctxPc' = ctxPc \/ ctxPc' = "login"
      BY <2>4, Zenon DEF InitStep, InitBegin, InitStartClient, InitTest, InitEnd,
         StopStep, StopBegin, StopClient, StopEnd
    <3> QED
      BY <3>1, <3>2 DEF ServerOK
  <2>5. CASE UNCHANGED <<ctxPc, recv_msg>>
    BY <2>5, Zenon DEF ServerOK
  <2> QED
    BY <2>1, <2>2, <2>3, <2>4, <2>5, ContextFrame, Zenon DEF CtxStep, Handles
<1>4. session' # "in" => mGnsid2Profile' = NoUsers /\ mUsername2Gnsid' = NoNames
  <2>1. CASE StopEnd
    BY <2>1, Zenon DEF StopEnd
  <2>2. CASE session' # "in" /\ UNCHANGED users
    <3>1. session # "in"
      <4>1. CASE ServerStep
        BY <2>2, <4>1, ServerSays
      <4> QED
        BY <2>2, <4>1, ServerFrame, Zenon
    <3> QED
      BY <2>2, <3>1 DEF users, ServerOK
  <2>3. CASE session = "in"
    <3>1. session' = "in"
      <4>1. CASE ServerStep
        BY <2>3, <4>1, ServerSays
      <4> QED
        BY <2>3, <4>1, ServerFrame, Zenon
    <3> QED
      BY <3>1
  <2> QED
    BY <1>2, <2>1, <2>2, <2>3, UsersFrame, Zenon
<1>5. CASE ServerStep
  <2>1. uniqueNames' => NamesApart(online')
    <3>1. ASSUME NEW u \in User, online' = [online EXCEPT ![u] = Nobody], NamesApart(online)
          PROVE  NamesApart(online')
      BY <3>1 DEF NamesApart, TableTypes, Table
    <3> QED
      BY <1>5, <3>1, ServerSays DEF ServerOK
  <2>2. session' = "none" => OnTheirWay' = <<>>
    BY <1>5, ServerSays DEF ServerOK
  <2>3. session' = "denied" => \A k \in 1..Len(OnTheirWay') : OnTheirWay'[k].kind = "denied"
    <3>1. CASE session = "none" /\ session' = "denied"
      <4>1. OnTheirWay' = <<[kind |-> "denied"]>>
        <5>1. OnTheirWay = <<>>
          BY <3>1, Zenon DEF ServerOK
        <5>2. OnTheirWay' = Append(<<>>, [kind |-> "denied"])
          BY <1>5, <3>1, <5>1, ServerSays
        <5> QED
          BY <5>2
      <4> QED
        BY <4>1
    <3>2. CASE session = "denied" /\ UNCHANGED OnTheirWay
      BY <3>2, Zenon DEF ServerOK
    <3>3. CASE session' # "denied"
      BY <3>3
    <3> QED
      BY <1>5, <3>1, <3>2, <3>3, ServerSays
  <2> QED
    BY <1>3, <1>4, <2>1, <2>2, <2>3, Zenon DEF ServerOK
<1>6. CASE ~ServerStep
  <2>1. UNCHANGED <<online, session, uniqueNames>>
    BY <1>6, ServerFrame, Zenon
  <2>2. CASE session = "in"
    BY <1>3, <1>4, <2>1, <2>2 DEF ServerOK
  <2>3. CASE session # "in"
    <3>1. UNCHANGED OnTheirWay
      BY <1>2, <1>6, <2>3, WayStays, Zenon
    <3> QED
      BY <1>3, <1>4, <2>1, <3>1, Zenon DEF ServerOK
  <2> QED
    BY <2>2, <2>3
<1> QED
  BY <1>5, <1>6
-----------------------------------------------------------------------------
(* The table and the server *)

(* The worker runs by the time the login is accepted, and is not started then. *)
LEMMA WorkerRan ==
    ASSUME ThreadsOK, LoginOK, [Next]_vars, WorkerRuns', session = "in"
    PROVE  WorkerRuns
<1>1. CASE InitStep
  <2>1. ctxPc' = ctxPc \/ ctxPc = "none"
    BY <1>1 DEF InitStep, InitBegin, InitStartClient, InitTest, InitEnd, ThreadsOK
  <2> QED
    BY <2>1 DEF LoginOK, WorkerRuns
<1>2. CASE StopStep
  BY <1>2, Zenon DEF StopStep, StopBegin, StopClient, StopEnd, WorkerRuns
<1>3. CASE CtxStep
  BY <1>3 DEF CtxStep, CtxLogin, CtxTop, CtxReceive, ProcessDenied, ProcessAccepted,
     ProcessConnected, ProcessDisconnected, ProcessRaises, Handling, WorkerRuns
<1>4. CASE UNCHANGED ctxPc
  BY <1>4, Zenon DEF WorkerRuns
<1> QED
  BY <1>1, <1>2, <1>3, <1>4, ContextFrame, Zenon

\* The messages of q lead from table t to table u, without a name that two users
\* have if apart is true.
Leads(q, t, u, apart) ==
    /\ Tables(q, t)[Len(q)] = u
    /\ apart => \A k \in 0..Len(q) : NamesApart(Tables(q, t)[k])

(* A message more leads to the table that follows from it. *)
LEMMA LeadsOn ==
    ASSUME NEW q \in Seq(Incoming), NEW t, NEW u, NEW a, Leads(q, t, u, a),
           NEW m \in Incoming, NEW b, b => a /\ NamesApart(Follow(m, u))
    PROVE  Leads(Append(q, m), t, Follow(m, u), b)
<1> DEFINE p == Append(q, m)
           f == Tables(q, t)
           g == Tables(p, t)
           v == Follow(m, u)
<1>1. /\ \A k \in 0..Len(q) : g[k] = f[k]
      /\ Len(p) = Len(q) + 1
      /\ g[Len(q) + 1] = Follow(m, f[Len(q)])
  BY TablesGrow, Zenon
<1>2. f[Len(q)] = u /\ (a => \A k \in 0..Len(q) : NamesApart(f[k]))
  BY Zenon DEF Leads
<1>3. Len(q) \in Nat
  OBVIOUS
<1>4. g[Len(p)] = v
  BY <1>1, <1>2
<1>5. b => \A k \in 0..Len(p) : NamesApart(g[k])
  <2>1. ASSUME b, NEW k \in 0..Len(p) PROVE NamesApart(g[k])
    <3>1. NamesApart(v) /\ \A l \in 0..Len(q) : NamesApart(f[l])
      BY <1>2, <2>1
    <3>2. k \in 0..Len(q) \/ k = Len(p)
      <4> HIDE DEF p
      <4> QED
        BY <1>1, <1>3, <2>1
    <3> HIDE DEF f, g, p, v
    <3>3. CASE k \in 0..Len(q)
      BY <1>1, <3>1, <3>3, Zenon
    <3>4. CASE k = Len(p)
      BY <1>4, <3>1, <3>4, Zenon
    <3> QED
      BY <3>2, <3>3, <3>4
  <2> QED
    BY <2>1
<1> QED
  BY <1>4, <1>5, Zenon DEF Leads

(* And so do the messages that are left when the first is handled. *)
LEMMA LeadsStill ==
    ASSUME NEW q \in Seq(Incoming), q # <<>>, NEW t, NEW u, NEW a, Leads(q, t, u, a)
    PROVE  Leads(Tail(q), Follow(Head(q), t), u, a)
<1> DEFINE p == Tail(q)
           f == Tables(q, t)
           v == Follow(Head(q), t)
           g == Tables(p, v)
<1>1. /\ Len(q) \in Nat \ {0} /\ Len(p) = Len(q) - 1
      /\ \A k \in 0..Len(p) : g[k] = f[k + 1]
  BY TablesShrink, Zenon
<1>2. f[Len(q)] = u /\ (a => \A k \in 0..Len(q) : NamesApart(f[k]))
  BY Zenon DEF Leads
<1> HIDE DEF f, g, p, v
<1>3. g[Len(p)] = u /\ (a => \A k \in 0..Len(p) : NamesApart(g[k]))
  <2>1. Len(p) \in 0..Len(p) /\ Len(p) + 1 = Len(q) /\ \A k \in 0..Len(p) : k + 1 \in 0..Len(q)
    BY <1>1
  <2> QED
    BY <1>1, <1>2, <2>1
<1> QED
  BY <1>3, Zenon DEF Leads, f, g, p, v

(* A server that has accepted the login has said who is there. *)
LEMMA LeadsAtFirst ==
    ASSUME NEW m \in Incoming, m.kind = "accepted", NEW a, a => NamesApart(m.users)
    PROVE  Leads(<<m>>, NoUsers, m.users, a)
<1>1. Tables(<<>>, NoUsers)[0] = NoUsers
  BY TablesOneByOne
<1>2. NamesApart(NoUsers)
  BY DEF NamesApart, NoUsers
<1>3. Leads(<<>>, NoUsers, NoUsers, TRUE)
  <2>1. Len(<<>>) = 0 /\ \A k \in 0..Len(<<>>) : k = 0
    OBVIOUS
  <2> QED
    BY <1>1, <1>2, <2>1 DEF Leads
<1>4. Follow(m, NoUsers) = m.users
  BY DEF Follow
<1>5. <<>> \in Seq(Incoming) /\ <<m>> = Append(<<>>, m)
  OBVIOUS
<1>6. Leads(Append(<<>>, m), NoUsers, Follow(m, NoUsers), a)
  BY <1>3, <1>4, <1>5, LeadsOn
<1> QED
  BY <1>4, <1>5, <1>6

(* Each step keeps the table on its way to the server's. *)
LEMMA FollowsStep ==
    ASSUME ControlTypes, QueueTypes, TableTypes, ThreadsOK, LoginOK, ServerOK, FollowsOK,
           [Next]_vars
    PROVE  FollowsOK'
<1> DEFINE Follows == Leads(OnTheirWay, mGnsid2Profile, online, uniqueNames)
<1>1. FollowsOK <=> (session = "in" /\ WorkerRuns => Follows)
  BY Zenon DEF FollowsOK, Leads, Path
<1>2. FollowsOK' <=> (session' = "in" /\ WorkerRuns' => Follows')
  BY Zenon DEF FollowsOK, Leads, Path
<1>3. SUFFICES ASSUME session' = "in", WorkerRuns' PROVE Follows'
  BY <1>2
<1>4. session = "in" => Follows
  BY <1>1, <1>3, WorkerRan, Zenon
<1>5. OnTheirWay \in Seq(Incoming)
  BY WayTyping
<1>6. CASE ServerStep
  <2>1. UNCHANGED mGnsid2Profile
    BY <1>6, ServerSays, Zenon DEF users
  <2>2. CASE session = "none"
    <3> DEFINE m == [kind |-> "accepted", users |-> online]
    <3>1. UNCHANGED <<online, uniqueNames>> /\ OnTheirWay' = Append(OnTheirWay, m)
      BY <1>3, <1>6, <2>2, ServerSays
    <3>2. OnTheirWay = <<>> /\ mGnsid2Profile = NoUsers /\ (uniqueNames => NamesApart(online))
      BY <2>2 DEF ServerOK
    <3>3. m \in Incoming /\ m.kind = "accepted" /\ m.users = online
      BY DEF Incoming, TableTypes
    <3> HIDE DEF m
    <3>4. Leads(<<m>>, NoUsers, online, uniqueNames)
      BY <3>2, <3>3, LeadsAtFirst
    <3>5. OnTheirWay' = <<m>>
      BY <3>1, <3>2
    <3> QED
      BY <2>1, <3>1, <3>2, <3>4, <3>5, Zenon
  <2>3. ASSUME session = "in",
               NEW u \in User, NEW n \in Name, online[u] = Nobody,
               online' = [online EXCEPT ![u] = n],
               uniqueNames' = (uniqueNames /\ NamesApart(online')),
               OnTheirWay' = Append(OnTheirWay, [kind |-> "connected", id |-> u, name |-> n])
        PROVE  Follows'
    <3> DEFINE m == [kind |-> "connected", id |-> u, name |-> n]
    <3>1. m \in Incoming /\ m.kind = "connected" /\ m.id = u /\ m.name = n
      BY DEF Incoming
    <3> HIDE DEF m
    <3>2. Follow(m, online) = online'
      BY <2>3, <3>1, FollowMeans DEF TableTypes
    <3>3. uniqueNames' => uniqueNames /\ NamesApart(Follow(m, online))
      BY <2>3, <3>2
    <3>4. Leads(Append(OnTheirWay, m), mGnsid2Profile, Follow(m, online), uniqueNames')
      BY <1>4, <1>5, <2>3, <3>1, <3>3, LeadsOn
    <3> QED
      BY <2>1, <2>3, <3>2, <3>4, Zenon DEF m
  <2>4. ASSUME session = "in",
               NEW u \in User, online' = [online EXCEPT ![u] = Nobody],
               UNCHANGED uniqueNames,
               OnTheirWay' = Append(OnTheirWay, [kind |-> "disconnected", id |-> u])
        PROVE  Follows'
    <3> DEFINE m == [kind |-> "disconnected", id |-> u]
    <3>1. m \in Incoming /\ m.kind = "disconnected" /\ m.id = u
      BY DEF Incoming
    <3> HIDE DEF m
    <3>2. Follow(m, online) = online'
      BY <2>4, <3>1, FollowMeans DEF TableTypes
    <3>3. uniqueNames' => uniqueNames /\ NamesApart(Follow(m, online))
      <4>1. NamesApart(online) => NamesApart(online')
        BY <2>4 DEF NamesApart, TableTypes, Table
      <4> QED
        BY <2>4, <3>2, <4>1, Zenon DEF ServerOK
    <3>4. Leads(Append(OnTheirWay, m), mGnsid2Profile, Follow(m, online), uniqueNames')
      BY <1>4, <1>5, <2>4, <3>1, <3>3, LeadsOn
    <3> QED
      BY <2>1, <2>4, <3>2, <3>4, Zenon DEF m
  <2> HIDE DEF Follows
  <2> QED
    BY <1>3, <1>6, <2>2, <2>3, <2>4, ServerSays
<1>7. CASE ~ServerStep /\ Handles
  <2>1. UNCHANGED <<online, session, uniqueNames>>
    BY <1>7, ServerFrame, Zenon
  <2>2. /\ OnTheirWay # <<>> /\ OnTheirWay' = Tail(OnTheirWay)
        /\ mGnsid2Profile' = Follow(Head(OnTheirWay), mGnsid2Profile)
    BY <1>7, WayShrinks, HandlesMeans, Zenon
  <2>3. Leads(Tail(OnTheirWay), Follow(Head(OnTheirWay), mGnsid2Profile), online, uniqueNames)
    BY <1>3, <1>4, <1>5, <2>1, <2>2, LeadsStill
  <2> QED
    BY <2>1, <2>2, <2>3, Zenon
<1>8. CASE ~ServerStep /\ ~Handles
  <2>1. UNCHANGED <<online, session, uniqueNames, OnTheirWay>>
    BY <1>8, ServerFrame, WayStays, Zenon
  <2>2. ~ProcessRaises /\ ~StopEnd
    <3>1. ~ProcessRaises
      BY <1>3 DEF ProcessRaises, WorkerRuns
    <3>2. ~StopEnd
      BY <1>3, Zenon DEF StopEnd, ThreadsOK, WorkerRuns
    <3> QED
      BY <3>1, <3>2
  <2>3. UNCHANGED mGnsid2Profile
    BY <1>8, <2>2, UsersFrame, Zenon DEF users
  <2> QED
    BY <1>3, <1>4, <2>1, <2>3, Zenon
<1> QED
  BY <1>6, <1>7, <1>8
-----------------------------------------------------------------------------
(* The two tables of the context *)

\* A name stands for a user of that name; a user is found by name.
NamesRight == \A n \in Name : mUsername2Gnsid[n] # 0 => mGnsid2Profile[mUsername2Gnsid[n]] = n
UsersFound == \A u \in User : mGnsid2Profile[u] # Nobody => mUsername2Gnsid[mGnsid2Profile[u]] = u

(* These are the parts of NamesOK. *)
LEMMA NamesParts ==
    NamesOK <=> NamesRight /\ (uniqueNames => ctxPc # "raised" /\ UsersFound)
BY Zenon DEF NamesOK, NamesRight, UsersFound

(* Deleting a user keeps both. *)
LEMMA Deleting ==
    ASSUME TableTypes, NEW id \in User, DeleteUser(id), NamesRight
    PROVE  NamesRight' /\ (UsersFound => UsersFound')
<1>1. mGnsid2Profile \in [User -> Name \cup {Nobody}] /\ mUsername2Gnsid \in [Name -> User \cup {0}]
  BY DEF TableTypes, Table
<1>2. mGnsid2Profile' = [mGnsid2Profile EXCEPT ![id] = Nobody]
  BY DEF DeleteUser
<1>3. CASE mGnsid2Profile[id] = Nobody
  <2>1. UNCHANGED <<mGnsid2Profile, mUsername2Gnsid>>
    BY <1>1, <1>2, <1>3 DEF DeleteUser
  <2> QED
    BY <2>1 DEF NamesRight, UsersFound
<1>4. CASE mGnsid2Profile[id] # Nobody
  <2>1. mUsername2Gnsid' = [mUsername2Gnsid EXCEPT ![mGnsid2Profile[id]] = 0]
    BY <1>4 DEF DeleteUser
  <2>2. mGnsid2Profile[id] \in Name
    BY <1>1, <1>4
  <2> QED
    BY <1>1, <1>2, <1>4, <2>1, <2>2, UserAssumption DEF NamesRight, UsersFound
<1> QED
  BY <1>3, <1>4

(* Adding a user keeps the first, and the second too if the names are apart. *)
LEMMA Adding ==
    ASSUME TableTypes, NEW id \in User, NEW name \in Name, AddUser(id, name), NamesRight
    PROVE  NamesRight' /\ (UsersFound /\ NamesApart(mGnsid2Profile') => UsersFound')
<1>1. mGnsid2Profile \in [User -> Name \cup {Nobody}] /\ mUsername2Gnsid \in [Name -> User \cup {0}]
  BY DEF TableTypes, Table
<1>2. CASE mGnsid2Profile[id] # Nobody
  <2>1. UNCHANGED <<mGnsid2Profile, mUsername2Gnsid>>
    BY <1>2 DEF AddUser, users
  <2> QED
    BY <2>1 DEF NamesRight, UsersFound
<1>3. CASE mGnsid2Profile[id] = Nobody
  <2>1. /\ mGnsid2Profile' = [mGnsid2Profile EXCEPT ![id] = name]
        /\ mUsername2Gnsid' = [mUsername2Gnsid EXCEPT ![name] = id]
    BY <1>3 DEF AddUser
  <2>2. NamesRight'
    BY <1>1, <1>3, <2>1, UserAssumption DEF NamesRight
  <2>3. UsersFound /\ NamesApart(mGnsid2Profile') => UsersFound'
    BY <1>1, <1>3, <2>1, UserAssumption DEF UsersFound, NamesApart
  <2> QED
    BY <2>2, <2>3
<1> QED
  BY <1>2, <1>3

(* The list of all users that comes with an accepted login does the same. *)
LEMMA Listing ==
    ASSUME NEW t \in Table, mGnsid2Profile' = t,
           mUsername2Gnsid' \in {f \in [Name -> User \cup {0}] : \A n \in Name : f[n] \in IdsOf(n, t)}
    PROVE  NamesRight' /\ (NamesApart(t) => UsersFound')
<1>1. /\ t \in [User -> Name \cup {Nobody}]
      /\ \A n \in Name : mUsername2Gnsid'[n] \in IdsOf(n, t)
  BY DEF Table
<1>2. NamesRight'
  BY <1>1 DEF NamesRight, IdsOf
<1>3. ASSUME NamesApart(t), NEW u \in User, t[u] # Nobody
      PROVE  mUsername2Gnsid'[t[u]] = u
  <2>1. t[u] \in Name
    BY <1>1, <1>3
  <2>2. IdsOf(t[u], t) = {u}
    BY <1>3, <2>1 DEF IdsOf, NamesApart
  <2> QED
    BY <1>1, <2>1, <2>2
<1> QED
  BY <1>2, <1>3 DEF UsersFound

(* The table after a message is one on the way to the server's. *)
LEMMA NextApart ==
    ASSUME ControlTypes, QueueTypes, TableTypes, ServerOK, FollowsOK, Handles, uniqueNames
    PROVE  NamesApart(mGnsid2Profile')
<1>1. /\ ctxPc = "process" /\ recv_msg # <<>>
      /\ mGnsid2Profile' = Follow(Head(OnTheirWay), mGnsid2Profile)
  BY HandlesMeans, WayShrinks, Zenon
<1>2. session = "in"
  <2>1. Head(recv_msg).kind # "denied"
    BY DEF Handles, ProcessAccepted, ProcessConnected, ProcessDisconnected, Handling
  <2>2. session \in {"none", "in", "denied"}
    BY DEF ControlTypes
  <2> QED
    BY <1>1, <2>1, <2>2, NotYetIn, Zenon
<1>3. \A k \in 0..Len(OnTheirWay) : NamesApart(Path[k])
  BY <1>1, <1>2 DEF FollowsOK, WorkerRuns
<1>4. OnTheirWay \in Seq(Incoming) /\ OnTheirWay # <<>>
  BY WayTyping, WayShrinks, Zenon
<1>5. Follow(Head(OnTheirWay), mGnsid2Profile) = Path[1] /\ Len(OnTheirWay) \in Nat \ {0}
  BY <1>4, TablesShrink, Zenon DEF Path
<1>6. 1 \in 0..Len(OnTheirWay)
  BY <1>5
<1> QED
  BY <1>1, <1>3, <1>5, <1>6

(* Each step keeps the two tables in agreement. *)
LEMMA NamesStep ==
    ASSUME ControlTypes, QueueTypes, TableTypes, ServerOK, FollowsOK, NamesOK, [Next]_vars
    PROVE  NamesOK'
<1> DEFINE m == Head(recv_msg)
<1>1. NamesRight /\ (uniqueNames => ctxPc # "raised" /\ UsersFound)
  BY NamesParts
<1>2. SUFFICES NamesRight' /\ (uniqueNames' => ctxPc' # "raised" /\ UsersFound')
  BY Zenon DEF NamesOK, NamesRight, UsersFound
<1>3. uniqueNames' => uniqueNames
  <2>1. CASE ServerStep
    BY <2>1, ServerSays
  <2> QED
    BY <2>1, ServerFrame, Zenon
<1>4. ctxPc' = "raised" => ctxPc = "raised" \/ ProcessRaises
  <2>1. CASE CtxStep
    BY <2>1 DEF CtxStep, CtxLogin, CtxTop, CtxReceive, ProcessDenied, ProcessAccepted,
       ProcessConnected, ProcessDisconnected, Handled
  <2>2. CASE InitStep \/ StopStep
    BY <2>2 DEF InitStep, InitBegin, InitStartClient, InitTest, InitEnd, StopStep,
       StopBegin, StopClient, StopEnd
  <2> QED
    BY <2>1, <2>2, ContextFrame, Zenon
<1>5. CASE Handles
  <2>1. m \in Incoming /\ ctxPc' # "raised"
    BY <1>5, HandlesMeans
  <2>2. uniqueNames' => NamesApart(mGnsid2Profile')
    BY <1>3, <1>5, NextApart
  <2>3. CASE ProcessAccepted
    <3>1. m.users \in Table
      BY <2>1, <2>3, MessageFields, Zenon DEF ProcessAccepted, Handling
    <3>2. /\ mGnsid2Profile' = m.users
          /\ mUsername2Gnsid' \in {f \in [Name -> User \cup {0}] :
                                     \A n \in Name : f[n] \in IdsOf(n, mGnsid2Profile')}
      BY <2>3, Zenon DEF ProcessAccepted
    <3> HIDE DEF m
    <3>3. NamesRight' /\ (NamesApart(m.users) => UsersFound')
      BY <3>1, <3>2, Listing
    <3> QED
      BY <2>1, <2>2, <3>2, <3>3
  <2>4. CASE ProcessConnected
    <3>1. m.id \in User /\ m.name \in Name /\ AddUser(m.id, m.name)
      BY <2>1, <2>4, MessageFields, Zenon DEF ProcessConnected, Handling
    <3> HIDE DEF m
    <3>2. NamesRight' /\ (UsersFound /\ NamesApart(mGnsid2Profile') => UsersFound')
      BY <1>1, <3>1, Adding, Zenon
    <3> QED
      BY <1>1, <1>3, <2>1, <2>2, <3>2, Zenon
  <2>5. CASE ProcessDisconnected
    <3>1. m.id \in User /\ DeleteUser(m.id)
      BY <2>1, <2>5, MessageFields, Zenon DEF ProcessDisconnected, Handling
    <3> HIDE DEF m
    <3>2. NamesRight' /\ (UsersFound => UsersFound')
      BY <1>1, <3>1, Deleting, Zenon
    <3> QED
      BY <1>1, <1>3, <2>1, <3>2, Zenon
  <2> QED
    BY <1>5, <2>3, <2>4, <2>5, Zenon DEF Handles
<1>6. CASE ProcessRaises
  <2>1. m.kind = "disconnected" /\ m \in Incoming
    BY <1>6, HeadAndTail, Zenon DEF ProcessRaises, Handling, ServerOK, QueueTypes
  <2>2. m.id \in User /\ DeleteUser(m.id) /\ NameGone(m.id)
    BY <1>6, <2>1, MessageFields, Zenon DEF ProcessRaises
  <2> HIDE DEF m
  <2>3. NamesRight'
    BY <1>1, <2>2, Deleting, Zenon
  <2>4. ~uniqueNames
    <3>1. ~UsersFound
      BY <2>2, UserAssumption DEF NameGone, UsersFound
    <3> QED
      BY <1>1, <3>1
  <2> QED
    BY <1>3, <2>3, <2>4
<1>7. CASE StopEnd
  <2>1. /\ mGnsid2Profile' = NoUsers /\ mUsername2Gnsid' = NoNames /\ UNCHANGED ctxPc
    BY <1>7, Zenon DEF StopEnd
  <2>2. NamesRight' /\ UsersFound'
    BY <2>1 DEF NamesRight, UsersFound, NoUsers, NoNames
  <2> QED
    BY <1>1, <1>3, <2>1, <2>2
<1>8. CASE UNCHANGED users /\ ~ProcessRaises
  <2>1. NamesRight' /\ (UsersFound => UsersFound')
    BY <1>1, <1>8 DEF users, NamesRight, UsersFound
  <2> QED
    BY <1>1, <1>3, <1>4, <1>8, <2>1, Zenon
<1> QED
  BY <1>5, <1>6, <1>7, <1>8, UsersFrame, Zenon
-----------------------------------------------------------------------------
(* The theorems *)

(* The invariant holds at first. *)
LEMMA InvInit == Init => Inv
<1> SUFFICES ASSUME Init PROVE Inv
  OBVIOUS
<1>1. /\ sent = <<>> /\ send_messages = <<>> /\ mSendMsg = <<>>
      /\ recv_msg = <<>> /\ mRecvMsg = <<>> /\ wire = <<>>
  BY DEF Init, ClientInit
<1>2. TypeOK
  <2>1. ControlTypes
    <3>1. 0 \in 0..MaxInputs
      BY UserAssumption
    <3>2. NewCore \in StateMachineCore
      BY DEF NewCore, StateMachineCore, States
    <3> QED
      BY <3>1, <3>2 DEF Init, ClientInit, ControlTypes, NamesApart
  <2>2. QueueTypes
    BY <1>1, QueuesGrow, Zenon DEF QueueTypes
  <2>3. TableTypes
    BY UserAssumption DEF Init, TableTypes, Table, NoUsers, NoNames
  <2> QED
    BY <2>1, <2>2, <2>3, TypeParts, Zenon
<1>3. ThreadsOK /\ SendOK
  BY <1>1 DEF Init, ClientInit, ThreadsOK, SendOK
<1>4. LoginOK
  BY <1>1, QueuesGrow DEF Init, LoginOK
<1>5. ServerOK
  <2>1. OnTheirWay = <<>>
    BY <1>1, ConcatLaws DEF OnTheirWay
  <2> QED
    BY <2>1 DEF Init, ServerOK
<1>6. FollowsOK
  BY DEF Init, FollowsOK
<1>7. NamesOK
  BY DEF Init, NamesOK, NoUsers, NoNames
<1> QED
  BY <1>2, <1>3, <1>4, <1>5, <1>6, <1>7, Zenon DEF Inv

(* Each step keeps the invariant. *)
LEMMA InvStep == Inv /\ [Next]_vars => Inv'
<1> SUFFICES ASSUME Inv, [Next]_vars PROVE Inv'
  OBVIOUS
<1>1. /\ ControlTypes /\ QueueTypes /\ TableTypes
      /\ ThreadsOK /\ SendOK /\ LoginOK /\ ServerOK /\ FollowsOK /\ NamesOK
  BY TypeParts, Zenon DEF Inv
<1>2. TypeOK'
  <2>1. ControlTypes' /\ QueueTypes' /\ TableTypes'
    BY <1>1, ControlTypesStep, QueueTypesStep, TableTypesStep, Zenon
  <2>2. TypeOK' <=> ControlTypes' /\ QueueTypes' /\ TableTypes'
    BY DEF TypeOK, ClientTypeOK, ControlTypes, QueueTypes, TableTypes
  <2> QED
    BY <2>1, <2>2, Zenon
<1>3. ThreadsOK' /\ SendOK' /\ LoginOK' /\ ServerOK'
  BY <1>1, ThreadsStep, SenderStep, LoginStep, LineStep, Zenon
<1>4. FollowsOK' /\ NamesOK'
  BY <1>1, FollowsStep, NamesStep, Zenon
<1> QED
  BY <1>2, <1>3, <1>4, Zenon DEF Inv

(* The invariant holds in every state. *)
LEMMA Invariant == Spec => []Inv
BY InvInit, InvStep, PTL DEF Spec

(* Client, context and server are what they are typed to be, for any users   *)
(* and names (BmmoClient.py, BmmoContext.py).                                *)
THEOREM TypeCorrect == Spec => []TypeOK
<1>1. Inv => TypeOK
  BY DEF Inv
<1> QED
  BY <1>1, Invariant, PTL

(* BmmoContext.__CtxWorker keeps its tables: a name stands for a user of that *)
(* name or nobody, known users are found by name and no message takes the     *)
(* worker down if names are unique, and the messages under way, however many, *)
(* make the table the server's.                                               *)
THEOREM UsersFollowServerHolds == Spec => []UsersFollowServer
<1>1. Inv => UsersFollowServer
  BY Zenon DEF Inv, NamesOK, FollowsOK, Path, UsersFollowServer
<1> QED
  BY <1>1, Invariant, PTL

\* What SendWorker has written after the URL.
Written == IF sent = <<>> THEN <<>> ELSE Tail(sent)

(* What is accepted is moved on by SendWorker and added to by its callers. *)
LEMMA AcceptedStep ==
    ASSUME Inv, [Next]_vars
    PROVE  \/ Accepted' = Accepted
           \/ sendPc' = sendPc /\ \E m \in Outgoing : Accepted' = Append(Accepted, m)
<1> DEFINE S == Seq(Outgoing)
<1>1. /\ QueueTypes /\ TableTypes /\ SendOK /\ ServerOK
  BY TypeParts, Zenon DEF Inv
<1>2. send_messages \in S /\ mSendMsg \in S /\ sent \in S /\ Written \in S
  <2>1. sent # <<>> => Tail(sent) \in S
    BY <1>1, HeadAndTail, Zenon DEF QueueTypes
  <2> QED
    BY <1>1, <2>1, QueuesGrow, Zenon DEF QueueTypes, Written
<1>3. Accepted = (Written \o send_messages) \o mSendMsg
  BY Zenon DEF Accepted, Written
<1>4. Accepted' = (Written' \o send_messages') \o mSendMsg'
  BY Zenon DEF Accepted, Written
<1>5. UNCHANGED sent => UNCHANGED Written
  BY Zenon DEF Written
<1> USE DEF clientSend, clientButQueues, clientButWire, client
<1>6. CASE SendUrl
  <2>1. sent = <<>> /\ sent' = <<"url">> /\ UNCHANGED <<send_messages, mSendMsg>>
    BY <1>1, <1>6 DEF SendUrl, SendOK
  <2>2. Written = <<>> /\ Written' = <<>>
    BY <2>1 DEF Written
  <2> QED
    BY <1>3, <1>4, <2>1, <2>2, Zenon
<1>7. CASE SendSwap
  <2>1. send_messages' = send_messages \o mSendMsg /\ mSendMsg' = <<>> /\ UNCHANGED sent
    BY <1>7, Zenon DEF SendSwap
  <2>2. Regroups(Written, send_messages, mSendMsg)
    BY <1>2, Regrouping, Zenon
  <2>3. Written \o (send_messages \o mSendMsg) \in S
    BY <1>2, QueuesGrow, Zenon
  <2>4. (Written \o (send_messages \o mSendMsg)) \o <<>> = Written \o (send_messages \o mSendMsg)
    BY <2>3, ConcatLaws, Zenon
  <2> QED
    BY <1>3, <1>4, <1>5, <2>1, <2>2, <2>4, Zenon DEF Regroups
<1>8. CASE SendOne
  <2> DEFINE h == Head(send_messages)
             c == Tail(send_messages)
  <2>1. /\ sent # <<>> /\ send_messages # <<>>
        /\ sent' = Append(sent, h) /\ send_messages' = c /\ UNCHANGED mSendMsg
    BY <1>1, <1>8 DEF SendOne, SendOK
  <2>2. h \in Outgoing /\ MovesOn(Written, send_messages)
    BY <1>2, <2>1, HeadAndTail, HeadMovesOn, Zenon
  <2>3. Append(Written, h) \o c = Written \o send_messages
    BY <2>2, Zenon DEF MovesOn
  <2> HIDE DEF h, c
  <2>4. Append(sent, h) # <<>> /\ Tail(Append(sent, h)) = Append(Tail(sent), h)
    BY <1>2, <2>1, <2>2, HeadOfAppend, Zenon
  <2>5. Written' = Append(Written, h)
    BY <2>1, <2>4, Zenon DEF Written
  <2> QED
    BY <1>3, <1>4, <2>1, <2>3, <2>5, Zenon
<1>9. ASSUME NEW m \in Outgoing, Send(m), UNCHANGED <<sendPc, send_messages, sent>>
      PROVE  \/ Accepted' = Accepted
             \/ sendPc' = sendPc /\ Accepted' = Append(Accepted, m)
  <2>1. mSendMsg' = mSendMsg \/ mSendMsg' = Append(mSendMsg, m)
    BY <1>9, Zenon DEF Send
  <2>2. Written \o send_messages \in S
    BY <1>2, QueuesGrow, Zenon
  <2>3. (Written \o send_messages) \o Append(mSendMsg, m)
          = Append((Written \o send_messages) \o mSendMsg, m)
    BY <1>2, <2>2, AppendToConcat
  <2> QED
    BY <1>3, <1>4, <1>5, <1>9, <2>1, <2>3, Zenon
<1>10. CASE CtxLogin \/ ProcessAccepted \/ MainChat
  <2>1. /\ UNCHANGED <<sendPc, send_messages, sent>>
        /\ Send("login") \/ Send("mods") \/ Send("chat")
    BY <1>10, Zenon DEF CtxLogin, ProcessAccepted, MainChat
  <2>2. "login" \in Outgoing /\ "mods" \in Outgoing /\ "chat" \in Outgoing
    BY DEF Outgoing
  <2> QED
    BY <1>9, <2>1, <2>2, Zenon
<1>11. CASE UNCHANGED clientSend
  BY <1>3, <1>4, <1>5, <1>11, Zenon
<1>12. CASE SendTop \/ SendFail
  BY <1>11, <1>12, Zenon DEF SendTop, SendFail
<1>13. CASE CtxReceive \/ ProcessConnected \/ ProcessDisconnected \/ ServerStep \/ ClientReads
  BY <1>11, <1>13, Zenon DEF CtxReceive, ProcessConnected, ProcessDisconnected, ServerStep,
     ServerDenies, ServerAccepts, UserJoins, UserLeaves, ClientReads, RecvStep, RecvTop,
     RecvRead, RecvFail
<1> QED
  BY <1>6, <1>7, <1>8, <1>10, <1>11, <1>12, <1>13, QueueFrame, Zenon
     DEF MovesQueue, ClientSends, SendStep

(* What is written is added to what was, and begins with the URL. *)
LEMMA WrittenStep ==
    ASSUME Inv, [Next]_vars
    PROVE  IsPrefix(sent, sent') /\ (sent' # <<>> => Head(sent') = "url")
<1>1. /\ QueueTypes /\ TableTypes /\ SendOK /\ ServerOK
  BY TypeParts, Zenon DEF Inv
<1>2. \A x \in Outgoing : IsPrefix(sent, Append(sent, x))
  BY <1>1 DEF QueueTypes, IsPrefix
<1>3. SendOK'
  BY <1>1, SenderStep, Zenon
<1>4. CASE UNCHANGED sent
  <2>1. IsPrefix(sent, sent)
    BY <1>1 DEF QueueTypes, IsPrefix
  <2> QED
    BY <1>3, <1>4, <2>1, Zenon DEF SendOK
<1>5. CASE SendUrl
  <2>1. sent = <<>> /\ sent' = Append(sent, "url") /\ "url" \in Outgoing
    BY <1>1, <1>5 DEF SendUrl, SendOK, Outgoing
  <2> QED
    BY <1>2, <1>3, <2>1, Zenon DEF SendOK
<1>6. CASE SendOne
  <2>1. sent' = Append(sent, Head(send_messages)) /\ Head(send_messages) \in Outgoing
    BY <1>1, <1>6, HeadAndTail, Zenon DEF SendOne, SendOK, QueueTypes
  <2> QED
    BY <1>2, <1>3, <2>1, Zenon DEF SendOK
<1>7. CASE SendTop \/ SendSwap \/ SendFail
  BY <1>4, <1>7, Zenon DEF SendTop, SendSwap, SendFail, clientSend
<1> QED
  BY <1>1, <1>4, <1>5, <1>6, <1>7, SendFrame, Zenon DEF ClientSends, SendStep

(* BmmoClient.__SendWorker sends the URL first, and then everything that the  *)
(* context and the keyboard hand over in order and once, however much it is.  *)
THEOREM SendsInOrderHolds == Spec => SendsInOrder
<1>1. Inv /\ [Next]_vars =>
        [ /\ \/ Accepted' = Accepted
             \/ sendPc' = sendPc /\ \E m \in Outgoing : Accepted' = Append(Accepted, m)
          /\ IsPrefix(sent, sent')
          /\ sent' # <<>> => Head(sent') = "url" ]_vars
  BY AcceptedStep, WrittenStep, Zenon
<1> QED
  BY <1>1, Invariant, PTL DEF Spec, SendsInOrder
=============================================================================
