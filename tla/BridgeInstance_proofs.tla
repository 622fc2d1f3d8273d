------------------------ MODULE BridgeInstance_proofs ------------------------
(***************************************************************************)
(* Proofs about BridgeInstance and BridgeReport, for any number of         *)
(* messages in either direction.                                           *)
(***************************************************************************)
EXTENDS BridgeReport, SequenceLemmas, TLAPS

-----------------------------------------------------------------------------
(* The inductive invariant *)

\* What has arrived, what was taken of it, what CtxWorker holds, what was given
\* to the other side and what was sent there.
Relay(S, a, t, h, g, s) ==
    /\ a \in Seq(S) /\ t \in Seq(S) /\ h \in Seq(S) /\ g \in Seq(S) /\ s \in Seq(S)
    /\ IsPrefixOf(t, a) /\ t = g \o h /\ IsPrefixOf(s, g)

ToGns == Relay(1..MaxTcp, tcpArrived, tcpTaken, msgtcp2gns, gnsGiven, gnsSent)
ToTcp == Relay(1..MaxGns, gnsArrived, gnsTaken, msggns2tcp, tcpGiven, tcpSent)

\* A counter is exact but for what CtxWorker received or sent just before and
\* has still to add, which the size that it remembers tells.
CountedToGns ==
    /\ mRecvTcp \in Nat /\ mSendGns \in Nat
    /\ IF ctxPc = "countRecvTcp"
       THEN count <= Len(msgtcp2gns) /\ mRecvTcp + (Len(msgtcp2gns) - count) = Len(tcpTaken)
       ELSE mRecvTcp = Len(tcpTaken)
    /\ IF ctxPc = "countSendGns"
       THEN Len(msgtcp2gns) <= count /\ mSendGns + (count - Len(msgtcp2gns)) = Len(gnsGiven)
       ELSE mSendGns = Len(gnsGiven)

CountedToTcp ==
    /\ mRecvGns \in Nat /\ mSendTcp \in Nat
    /\ IF ctxPc = "countRecvGns"
       THEN count <= Len(msggns2tcp) /\ mRecvGns + (Len(msggns2tcp) - count) = Len(gnsTaken)
       ELSE mRecvGns = Len(gnsTaken)
    /\ IF ctxPc = "countSendTcp"
       THEN Len(msggns2tcp) <= count /\ mSendTcp + (count - Len(msggns2tcp)) = Len(tcpGiven)
       ELSE mSendTcp = Len(tcpGiven)

CountersOK == count \in Nat /\ CountedToGns /\ CountedToTcp

\* The types that Relay does not say.
ControlTypes ==
    /\ core \in StateMachineCore
    /\ stopOrdered \in BOOLEAN /\ ctxStop \in BOOLEAN /\ urlOrdered \in BOOLEAN
    /\ tcpStop \in BOOLEAN /\ gnsStop \in BOOLEAN
    /\ initPc \in {"spawned", "waiting", "failing", "startCtx", "end", "done"}
    /\ teardownPc \in {"none", "joinCtx", "tcp", "waitTcp", "gns", "waitGns", "end", "done"}
    /\ ctxPc \in {"none", "top", "check", "recvTcp", "sendGns", "recvGns", "sendTcp",
                 "countRecvTcp", "countSendGns", "countRecvGns", "countSendTcp", "exited"}
    /\ mTcpInstance \in {"instance", "null"} /\ mGnsInstance \in {"instance", "null"}
    /\ tcpPhase \in PhaseSet /\ gnsPhase \in PhaseSet \cup {"none"}

\* InternalStop is under way.
TeardownWorks == teardownPc \in {"joinCtx", "tcp", "waitTcp", "gns", "waitGns", "end"}

(* InternalStop runs in the one transition that works, the constructor's own *)
(* or that of a stop, and leaves the bridge stopped.                         *)
ThreadsOK ==
    /\ initPc \in {"waiting", "startCtx", "end"} =>
         core.mIsInTransition /\ teardownPc = "none"
    /\ initPc = "failing" => TeardownWorks
    /\ TeardownWorks => core.mIsInTransition
    /\ teardownPc = "none" => core.mState # "Stopped"
    /\ teardownPc = "done" => IsInState(core, "Stopped")

(* CtxWorker runs only between the creation of the GNS instance and the join; *)
(* what InternalStop has returned so far, and that it is stopped.            *)
OwnedOK ==
    /\ initPc \in {"spawned", "waiting", "failing"} => gnsPhase = "none"
    /\ initPc \in {"startCtx", "end"} => gnsPhase # "none"
    /\ ctxPc # "none" => initPc \in {"end", "done"} /\ gnsPhase # "none"
    /\ ctxPc \notin {"none", "exited"} => teardownPc \in {"none", "joinCtx"}
    /\ teardownPc \in {"none", "joinCtx", "tcp", "waitTcp"} =>
         /\ mTcpInstance = "instance" /\ returned = <<>>
         /\ mGnsInstance = "null" <=> gnsPhase = "none"
    /\ teardownPc \in {"gns", "waitGns"} =>
         /\ mTcpInstance = "null" /\ mGnsInstance = "instance"
         /\ gnsPhase # "none" /\ returned = <<"tcp">>
    /\ teardownPc \in {"gns", "waitGns", "end", "done"} => tcpPhase = "Stopped"
    /\ teardownPc \in {"end", "done"} => mTcpInstance = "null" /\ mGnsInstance = "null"
    /\ teardownPc \in {"end", "done"} =>
         \/ gnsPhase = "none" /\ returned = <<"tcp">>
         \/ gnsPhase = "Stopped" /\ returned = <<"tcp", "gns">>

Inv == ControlTypes /\ ThreadsOK /\ OwnedOK /\ ToGns /\ ToTcp /\ CountersOK

-----------------------------------------------------------------------------
(* Fronts of sequences *)

(* The first n elements of a sequence are a front of it. *)
LEMMA FrontOf ==
    ASSUME NEW S, NEW t \in Seq(S), NEW n \in 0..Len(t)
    PROVE  /\ SubSeq(t, 1, n) \in Seq(S) /\ Len(SubSeq(t, 1, n)) = n
           /\ IsPrefixOf(SubSeq(t, 1, n), t)
<1>1. SubSeq(t, 1, n) \in Seq(S) /\ Len(SubSeq(t, 1, n)) = n
  OBVIOUS
<1> QED
  BY <1>1 DEF IsPrefixOf

(* Two elements one after the other. *)
LEMMA AppendToOne == ASSUME NEW x, NEW y PROVE Append(<<x>>, y) = <<x, y>>
<1> DEFINE S == {x, y}
<1>1. <<x>> \in Seq(S) /\ <<x, y>> \in Seq(S) /\ y \in S
  OBVIOUS
<1>2. /\ Append(<<x>>, y) \in Seq(S) /\ Len(Append(<<x>>, y)) = 2
      /\ Append(<<x>>, y)[1] = x /\ Append(<<x>>, y)[2] = y
  BY <1>1
<1>3. Len(<<x, y>>) = 2 /\ <<x, y>>[1] = x /\ <<x, y>>[2] = y
  OBVIOUS
<1>4. \A k \in 1..2 : k = 1 \/ k = 2
  OBVIOUS
<1> HIDE DEF S
<1>5. \A k \in 1..2 : Append(<<x>>, y)[k] = <<x, y>>[k]
  BY <1>2, <1>3, <1>4, Zenon
<1> QED
  BY <1>1, <1>2, <1>3, <1>5, SeqEqual, Zenon

(* A sequence is a front of itself. *)
LEMMA FrontOfItself == ASSUME NEW S, NEW t \in Seq(S) PROVE IsPrefixOf(t, t)
<1>1. SubSeq(t, 1, Len(t)) = t /\ Len(t) \in Nat
  OBVIOUS
<1> QED
  BY <1>1 DEF IsPrefixOf

(* Of two fronts of one sequence, the shorter is a front of the longer. *)
LEMMA FrontFurther ==
    ASSUME NEW S, NEW s \in Seq(S), NEW t \in Seq(S), IsPrefixOf(s, t),
           NEW n \in Len(s)..Len(t)
    PROVE  /\ SubSeq(t, 1, n) \in Seq(S)
           /\ IsPrefixOf(s, SubSeq(t, 1, n)) /\ IsPrefixOf(SubSeq(t, 1, n), t)
<1>1. Len(s) \in Nat /\ Len(t) \in Nat /\ n \in 0..Len(t) /\ Len(s) <= n
  OBVIOUS
<1>2. /\ SubSeq(t, 1, n) \in Seq(S) /\ Len(SubSeq(t, 1, n)) = n
      /\ IsPrefixOf(SubSeq(t, 1, n), t)
  BY <1>1, FrontOf, Zenon
<1>3. \A k \in 1..n : SubSeq(t, 1, n)[k] = t[k]
  BY <1>1
<1>4. \A k \in 1..Len(s) : s[k] = t[k]
  BY <1>1 DEF IsPrefixOf
<1> DEFINE u == SubSeq(t, 1, n)
<1> HIDE DEF u
<1>5. /\ u \in Seq(S) /\ Len(u) = n /\ \A k \in 1..Len(s) : s[k] = u[k]
  BY <1>1, <1>2, <1>3, <1>4 DEF u
<1>6. SubSeq(u, 1, Len(s)) \in Seq(S) /\ Len(SubSeq(u, 1, Len(s))) = Len(s)
  BY <1>1, <1>5
<1>7. \A k \in 1..Len(s) : s[k] = SubSeq(u, 1, Len(s))[k]
  BY <1>1, <1>5
<1>8. s = SubSeq(u, 1, Len(s))
  BY <1>6, <1>7, SeqEqual, Zenon
<1> QED
  BY <1>1, <1>2, <1>5, <1>8, Zenon DEF IsPrefixOf, u

(* A sequence that grows at its end keeps its fronts. *)
LEMMA FrontStays ==
    ASSUME NEW S, NEW s \in Seq(S), NEW t \in Seq(S), NEW u \in Seq(S), IsPrefixOf(s, t)
    PROVE  IsPrefixOf(s, t \o u)
<1>1. t \o u \in Seq(S) /\ Len(t \o u) = Len(t) + Len(u)
  OBVIOUS
<1>2. \A k \in 1..Len(s) : SubSeq(t \o u, 1, Len(s))[k] = SubSeq(t, 1, Len(s))[k]
  BY <1>1 DEF IsPrefixOf
<1>3. /\ SubSeq(t \o u, 1, Len(s)) \in Seq(S)
      /\ Len(SubSeq(t \o u, 1, Len(s))) = Len(s)
  BY <1>1 DEF IsPrefixOf
<1>4. SubSeq(t \o u, 1, Len(s)) = s
  BY <1>2, <1>3, SeqEqual DEF IsPrefixOf
<1> QED
  BY <1>1, <1>4 DEF IsPrefixOf

(* A front of a front is a front. *)
LEMMA FrontOfFront ==
    ASSUME NEW S, NEW s \in Seq(S), NEW t \in Seq(S), NEW u \in Seq(S),
           IsPrefixOf(s, t), IsPrefixOf(t, u)
    PROVE  IsPrefixOf(s, u)
<1>1. Len(s) \in Nat /\ Len(t) \in Nat /\ Len(u) \in Nat
  OBVIOUS
<1>2. Len(s) <= Len(t) /\ Len(t) <= Len(u) /\ Len(s) <= Len(u)
  BY <1>1 DEF IsPrefixOf
<1>3. \A k \in 1..Len(s) : s[k] = SubSeq(u, 1, Len(s))[k]
  <2>1. ASSUME NEW k \in 1..Len(s)
        PROVE  s[k] = u[k]
    <3>1. s[k] = t[k]
      BY <1>1, <1>2 DEF IsPrefixOf
    <3>2. t[k] = u[k]
      BY <1>1, <1>2 DEF IsPrefixOf
    <3> QED
      BY <3>1, <3>2
  <2> QED
    BY <2>1, <1>1, <1>2
<1>4. SubSeq(u, 1, Len(s)) \in Seq(S) /\ Len(SubSeq(u, 1, Len(s))) = Len(s)
  BY <1>1, <1>2
<1>5. s = SubSeq(u, 1, Len(s))
  BY <1>3, <1>4, SeqEqual, Zenon
<1> QED
  BY <1>2, <1>5 DEF IsPrefixOf

(* What a sequence has in addition to a front of it. *)
LEMMA FrontAndNews ==
    ASSUME NEW S, NEW s \in Seq(S), NEW t \in Seq(S), IsPrefixOf(s, t)
    PROVE  /\ News(s, t) \in Seq(S) /\ Len(News(s, t)) = Len(t) - Len(s)
           /\ t = s \o News(s, t)
<1>1. Len(s) \in Nat /\ Len(t) \in Nat /\ Len(s) <= Len(t)
  BY DEF IsPrefixOf
<1>2. News(s, t) \in Seq(S) /\ Len(News(s, t)) = Len(t) - Len(s)
  BY <1>1 DEF News
<1>3. SubSeq(t, 1, Len(s)) \o SubSeq(t, Len(s) + 1, Len(t)) = SubSeq(t, 1, Len(t))
  <2>1. /\ 1 \in 1..Len(t) + 1 /\ Len(s) \in (1 - 1)..Len(t)
        /\ Len(t) \in Len(s)..Len(t)
    BY <1>1
  <2> QED
    BY <2>1, ConcatAdjacentSubSeq, Zenon
<1>4. SubSeq(t, 1, Len(t)) = t
  BY SubSeqFull, Zenon
<1>5. t = s \o News(s, t)
  BY <1>3, <1>4, Zenon DEF News, IsPrefixOf
<1> QED
  BY <1>2, <1>5

-----------------------------------------------------------------------------
(* One direction of the relay *)

(* A message comes in. *)
LEMMA RelayArrives ==
    ASSUME NEW S, NEW a, NEW t, NEW h, NEW g, NEW s, NEW m \in S,
           Relay(S, a, t, h, g, s)
    PROVE  Relay(S, Append(a, m), t, h, g, s)
<1>1. a \in Seq(S) /\ t \in Seq(S) /\ IsPrefixOf(t, a)
  BY DEF Relay
<1>2. <<m>> \in Seq(S) /\ Append(a, m) = a \o <<m>> /\ a \o <<m>> \in Seq(S)
  BY <1>1
<1>3. IsPrefixOf(t, a \o <<m>>)
  BY <1>1, <1>2, FrontStays, Zenon
<1> QED
  BY <1>2, <1>3, Zenon DEF Relay

(* CtxWorker takes more of what has arrived, or nothing. *)
LEMMA RelayTakes ==
    ASSUME NEW S, NEW a, NEW t, NEW h, NEW g, NEW s,
           Relay(S, a, t, h, g, s),
           NEW u \in Seq(S), IsPrefixOf(t, u), IsPrefixOf(u, a)
    PROVE  Relay(S, a, u, h \o News(t, u), g, s)
<1> DEFINE n == News(t, u)
<1>1. t \in Seq(S) /\ h \in Seq(S) /\ g \in Seq(S) /\ t = g \o h
  BY DEF Relay
<1>2. n \in Seq(S) /\ Len(n) = Len(u) - Len(t) /\ u = t \o n
  BY <1>1, FrontAndNews, Zenon
<1> HIDE DEF n
<1>3. (g \o h) \o n = g \o (h \o n)
  <2>1. g \in Seq(S) /\ h \in Seq(S) /\ n \in Seq(S)
    BY <1>1, <1>2
  <2>2. Regroups(g, h, n)
    BY <2>1, Regrouping, Zenon
  <2> QED
    BY <2>2 DEF Regroups
<1>4. u = g \o (h \o n)
  BY <1>1, <1>2, <1>3, Zenon
<1>5. h \o n \in Seq(S) /\ Len(h \o n) = Len(h) + Len(n)
  BY <1>1, <1>2
<1>6. Relay(S, a, u, h \o n, g, s)
  BY <1>4, <1>5, Zenon DEF Relay
<1> QED
  BY <1>6, Zenon DEF n

(* CtxWorker gives the other side all that it holds. *)
LEMMA RelayGives ==
    ASSUME NEW S, NEW a, NEW t, NEW h, NEW g, NEW s,
           Relay(S, a, t, h, g, s)
    PROVE  Relay(S, a, t, <<>>, g \o h, s)
<1>1. /\ h \in Seq(S) /\ g \in Seq(S) /\ s \in Seq(S)
      /\ IsPrefixOf(s, g)
  BY DEF Relay
<1>2. g \o h \in Seq(S) /\ <<>> \in Seq(S)
  BY <1>1
<1>3. IsPrefixOf(s, g \o h)
  BY <1>1, FrontStays, Zenon
<1>4. (g \o h) \o <<>> = g \o h
  BY <1>2, ConcatEmptySeq, Zenon
<1> QED
  BY <1>2, <1>3, <1>4, Zenon DEF Relay

(* The other side sends more of what it was given. *)
LEMMA RelayTransmits ==
    ASSUME NEW S, NEW a, NEW t, NEW h, NEW g, NEW s,
           Relay(S, a, t, h, g, s), NEW n \in Len(s)..Len(g)
    PROVE  Relay(S, a, t, h, g, SubSeq(g, 1, n))
<1>1. g \in Seq(S) /\ n \in 0..Len(g)
  BY DEF Relay
<1>2. SubSeq(g, 1, n) \in Seq(S) /\ IsPrefixOf(SubSeq(g, 1, n), g)
  BY <1>1, FrontOf, Zenon
<1> QED
  BY <1>2, Zenon DEF Relay

(* What is sent is a front of what has arrived, and what was taken was given *)
(* or is held.                                                               *)
LEMMA RelayMeans ==
    ASSUME NEW S, NEW a, NEW t, NEW h, NEW g, NEW s,
           Relay(S, a, t, h, g, s)
    PROVE  /\ IsPrefixOf(s, a)
           /\ Len(t) = Len(g) + Len(h)
           /\ Len(t) \in Nat /\ Len(g) \in Nat /\ Len(h) \in Nat
<1>1. /\ a \in Seq(S) /\ t \in Seq(S) /\ h \in Seq(S) /\ g \in Seq(S) /\ s \in Seq(S)
      /\ IsPrefixOf(t, a) /\ t = g \o h /\ IsPrefixOf(s, g)
  BY DEF Relay
<1>2. IsPrefixOf(g, g)
  <2>1. SubSeq(g, 1, Len(g)) = g /\ Len(g) \in Nat
    BY <1>1
  <2> QED
    BY <2>1 DEF IsPrefixOf
<1>3. IsPrefixOf(g, g \o h)
  BY <1>1, <1>2, FrontStays, Zenon
<1>4. IsPrefixOf(g, a)
  BY <1>1, <1>3, FrontOfFront, Zenon
<1>5. IsPrefixOf(s, a)
  BY <1>1, <1>4, FrontOfFront, Zenon
<1>6. Len(g \o h) = Len(g) + Len(h) /\ Len(g) \in Nat /\ Len(h) \in Nat
  BY <1>1
<1> QED
  BY <1>1, <1>5, <1>6

-----------------------------------------------------------------------------
(* The threads *)

(* A life cycle stays within its phases. *)
LEMMA PhasesStep ==
    ASSUME ControlTypes, OwnedOK, [Next]_vars
    PROVE  /\ tcpPhase' \in PhaseSet /\ gnsPhase' \in PhaseSet \cup {"none"}
           /\ tcpPhase = "Stopped" => tcpPhase' = "Stopped"
           /\ gnsPhase = "Stopped" => gnsPhase' = "Stopped"
           /\ initPc # "waiting" => (gnsPhase = "none" <=> gnsPhase' = "none")
<1> USE DEF ControlTypes, PhaseSet
<1>1. CASE TcpProgress
  BY <1>1 DEF TcpProgress, TcpLife!BeginInitializing, TcpLife!EndInitializing,
     TcpLife!BeginStopping, TcpLife!EndStopping, gns
<1>2. CASE GnsProgress
  BY <1>2 DEF GnsProgress, GnsLife!BeginInitializing, GnsLife!EndInitializing,
     GnsLife!BeginStopping, GnsLife!EndStopping, tcp
<1>3. CASE InitCreateGns
  BY <1>3 DEF InitCreateGns, tcp, OwnedOK
<1>4. CASE UNCHANGED <<tcpPhase, gnsPhase>>
  BY <1>4
<1>5. TcpProgress \/ GnsProgress \/ InitCreateGns \/ UNCHANGED <<tcpPhase, gnsPhase>>
  BY Zenon DEF Next, vars, tcp, gns, InitStep, InitBegin, InitFail, InitStartCtx,
     InitEnd, OrderStop, StopStep, StopBegin, JoinCtx, StopTcp, ReturnTcp, StopGns,
     ReturnGns, TeardownEnd, CtxStep, CtxTop, CtxCheck, RecvTcp, SendGns, RecvGns,
     SendTcp, CountStep, Counts, CountRecvTcp, CountSendGns, CountRecvGns,
     CountSendTcp, Environment, UrlArrives, TcpCrash, GnsCrash, TcpTraffic, GnsTraffic,
     Terminated
<1> QED
  BY <1>1, <1>2, <1>3, <1>4, <1>5

(* Each step keeps the types of everything but the relay. *)
LEMMA TypesStep == ASSUME ControlTypes, OwnedOK, [Next]_vars PROVE ControlTypes'
<1> USE DEF life, ctx, owned, tcp, gns
<1>1. /\ tcpPhase' \in PhaseSet /\ gnsPhase' \in PhaseSet \cup {"none"}
  BY PhasesStep
<1>2. core' \in StateMachineCore
  <2>1. ASSUME NEW c \in StateMachineCore
        PROVE  /\ BeginInitializing(c) \in StateMachineCore
               /\ BeginStopping(c) \in StateMachineCore
               /\ EndStopping(c) \in StateMachineCore
               /\ \A b \in BOOLEAN : EndInitializing(c, b) \in StateMachineCore
    BY DEF StateMachineCore, States, BeginInitializing, BeginStopping, EndStopping,
       EndInitializing
  <2>2. \/ UNCHANGED core \/ core' = BeginInitializing(core)
        \/ core' = BeginStopping(core) \/ core' = EndStopping(core)
        \/ \E b \in BOOLEAN : core' = EndInitializing(core, b)
    BY DEF Next, vars, InitStep, InitBegin, InitFail, InitCreateGns, InitStartCtx,
       InitEnd, OrderStop, StopStep, StopBegin, JoinCtx, StopTcp, ReturnTcp, StopGns,
       ReturnGns, TeardownEnd, CtxStep, CtxTop, CtxCheck, RecvTcp, SendGns, RecvGns,
       SendTcp, CountStep, Counts, CountRecvTcp, CountSendGns, CountRecvGns,
       CountSendTcp, TcpProgress, GnsProgress, Environment, UrlArrives, TcpCrash,
       GnsCrash, TcpTraffic, GnsTraffic, Terminated
  <2> QED
    BY <2>1, <2>2 DEF ControlTypes
<1> USE DEF ControlTypes
<1>3. CASE InitStep
  BY <1>1, <1>2, <1>3 DEF InitStep, InitBegin, InitFail, InitCreateGns, InitStartCtx, InitEnd
<1>4. CASE StopStep
  BY <1>1, <1>2, <1>4 DEF StopStep, StopBegin, JoinCtx, StopTcp, ReturnTcp, StopGns,
     ReturnGns, TeardownEnd
<1>5. CASE CtxStep
  BY <1>1, <1>2, <1>5 DEF CtxStep, CtxTop, CtxCheck, RecvTcp, SendGns, RecvGns,
     SendTcp, CountStep, Counts, CountRecvTcp, CountSendGns, CountRecvGns, CountSendTcp
<1>6. CASE TcpProgress \/ GnsProgress
  BY <1>1, <1>2, <1>6 DEF TcpProgress, GnsProgress
<1>7. CASE Environment
  BY <1>1, <1>2, <1>7 DEF Environment, UrlArrives, TcpCrash, GnsCrash, TcpTraffic, GnsTraffic
<1>8. CASE OrderStop \/ UNCHANGED vars
  BY <1>1, <1>2, <1>8 DEF OrderStop, vars
<1> QED
  BY <1>3, <1>4, <1>5, <1>6, <1>7, <1>8 DEF Next, Terminated

(* Each step keeps what is known of the transitions. *)
LEMMA ThreadsStep == ASSUME ControlTypes, ThreadsOK, [Next]_vars PROVE ThreadsOK'
<1> USE DEF ThreadsOK, TeardownWorks, IsInState, life
<1>1. CASE InitBegin
  BY <1>1 DEF InitBegin, MayDecide, MayInitialize, BeginInitializing, ControlTypes,
     StateMachineCore
<1>2. CASE InitFail \/ InitCreateGns \/ InitStartCtx
  BY <1>2 DEF InitFail, InitCreateGns, InitStartCtx
<1>3. CASE InitEnd
  BY <1>3 DEF InitEnd, EndInitializing, ControlTypes, StateMachineCore
<1>4. CASE StopBegin
  BY <1>4 DEF StopBegin, MayDecide, MayStop, BeginStopping, ControlTypes, StateMachineCore
<1>5. CASE JoinCtx \/ StopTcp \/ ReturnTcp \/ StopGns \/ ReturnGns
  BY <1>5 DEF JoinCtx, StopTcp, ReturnTcp, StopGns, ReturnGns
<1>6. CASE TeardownEnd
  BY <1>6 DEF TeardownEnd, EndInitializing, EndStopping, ControlTypes, StateMachineCore
<1>7. CASE UNCHANGED <<core, initPc, teardownPc>>
  BY <1>7
<1>8. CASE OrderStop \/ CtxStep \/ TcpProgress \/ GnsProgress \/ Environment \/ UNCHANGED vars
  <2>1. UNCHANGED <<core, initPc, teardownPc>>
    BY <1>8, Zenon DEF OrderStop, CtxStep, CtxTop, CtxCheck, RecvTcp, SendGns, RecvGns,
       SendTcp, CountStep, Counts, CountRecvTcp, CountSendGns, CountRecvGns,
       CountSendTcp, TcpProgress, GnsProgress, Environment, UrlArrives, TcpCrash,
       GnsCrash, TcpTraffic, GnsTraffic, vars
  <2> QED
    BY <1>7, <2>1
<1> QED
  BY <1>1, <1>2, <1>3, <1>4, <1>5, <1>6, <1>8 DEF Next, InitStep, StopStep, Terminated

-----------------------------------------------------------------------------
(* The instances *)

(* Each step keeps what is known of the instances and of what was returned. *)
LEMMA OwnedStep ==
    ASSUME ControlTypes, ThreadsOK, OwnedOK, [Next]_vars
    PROVE  OwnedOK'
<1> USE DEF OwnedOK, life, ctx, owned
<1>1. /\ tcpPhase = "Stopped" => tcpPhase' = "Stopped"
      /\ gnsPhase = "Stopped" => gnsPhase' = "Stopped"
      /\ initPc # "waiting" => (gnsPhase = "none" <=> gnsPhase' = "none")
  BY PhasesStep
<1>2. CASE InitBegin \/ InitStartCtx \/ InitEnd
  BY <1>1, <1>2 DEF InitBegin, InitStartCtx, InitEnd, ThreadsOK, gns
<1>3. CASE InitFail
  BY <1>3 DEF InitFail, ThreadsOK, gns, tcp
<1>4. CASE InitCreateGns
  BY <1>4 DEF InitCreateGns, ThreadsOK, tcp
<1>5. CASE StopBegin
  BY <1>5 DEF StopBegin, ThreadsOK, MayDecide, gns, tcp
<1>6. CASE JoinCtx \/ StopTcp
  BY <1>6 DEF JoinCtx, StopTcp, gns, tcp
<1>7. CASE ReturnTcp
  BY <1>7 DEF ReturnTcp, ControlTypes, gns, tcp
<1>8. CASE StopGns
  BY <1>8 DEF StopGns, gns, tcp
<1>9. CASE ReturnGns
  <2>1. teardownPc = "waitGns" /\ returned' = Append(returned, "gns")
    BY <1>9, Zenon DEF ReturnGns
  <2>2. returned' = <<"tcp", "gns">>
    BY <2>1, AppendToOne, Zenon
  <2>3. /\ teardownPc' = "end" /\ gnsPhase = "Stopped"
        /\ UNCHANGED <<initPc, ctxPc, tcpPhase, gnsPhase>>
    BY <1>9, Zenon DEF ReturnGns, gns, tcp
  <2> QED
    BY <1>9, <2>2, <2>3 DEF ReturnGns
<1>10. CASE TeardownEnd
  BY <1>10 DEF TeardownEnd, gns, tcp
<1>11. CASE CtxStep
  <2>1. UNCHANGED <<initPc, teardownPc, owned, tcpPhase, gnsPhase>> /\ ctxPc # "none"
    BY <1>11 DEF CtxStep, CtxTop, CtxCheck, RecvTcp, SendGns, RecvGns, SendTcp,
       CountStep, Counts, CountRecvTcp, CountSendGns, CountRecvGns, CountSendTcp, tcp,
       gns
  <2>2. ctxPc \notin {"none", "exited"}
    BY <1>11 DEF CtxStep, CtxTop, CtxCheck, RecvTcp, SendGns, RecvGns, SendTcp,
       CountStep, Counts, CountRecvTcp, CountSendGns, CountRecvGns, CountSendTcp
  <2> QED
    BY <2>1, <2>2
<1>12. CASE OrderStop \/ TcpProgress \/ GnsProgress \/ Environment \/ UNCHANGED vars
  <2>1. UNCHANGED <<initPc, teardownPc, ctxPc, mTcpInstance, mGnsInstance, returned>>
    BY <1>12, Zenon DEF OrderStop, TcpProgress, GnsProgress, Environment, UrlArrives,
       TcpCrash, GnsCrash, TcpTraffic, GnsTraffic, vars
  <2>2. initPc = "waiting" => (gnsPhase = "none" <=> gnsPhase' = "none")
    BY <1>12 DEF OrderStop, TcpProgress, GnsProgress, GnsLife!BeginInitializing,
       GnsLife!EndInitializing, GnsLife!BeginStopping, GnsLife!EndStopping, Environment,
       UrlArrives, TcpCrash, GnsCrash, TcpTraffic, GnsTraffic, vars, gns, gnsStream
  <2> QED
    BY <1>1, <2>1, <2>2
<1> QED
  BY <1>2, <1>3, <1>4, <1>5, <1>6, <1>7, <1>8, <1>9, <1>10, <1>11, <1>12
  DEF Next, InitStep, StopStep, Terminated

-----------------------------------------------------------------------------
(* The life of a bridge *)

(* What each step of BridgeLife is for the one bridge that is modelled here. *)
LEMMA LifeSteps ==
    /\ UNCHANGED <<BridgePhase, BridgeHolds, stopOrdered>> => UNCHANGED AsBridge!lives
    /\ UNCHANGED <<BridgePhase, BridgeHolds>> /\ stopOrdered' = TRUE =>
         AsBridge!Tell("this")
    /\ /\ BridgePhase = "starting" /\ BridgePhase' = "running"
       /\ BridgeHolds' = {"tcp", "gns"} /\ UNCHANGED stopOrdered
       => AsBridge!Connect("this")
    /\ /\ BridgePhase = "starting" \/ (BridgePhase = "running" /\ stopOrdered = TRUE)
       /\ BridgePhase' = "stopping" /\ UNCHANGED <<BridgeHolds, stopOrdered>>
       => AsBridge!Stop("this")
    /\ /\ BridgePhase = "stopping" /\ "tcp" \in BridgeHolds
       /\ BridgeHolds' = BridgeHolds \ {"tcp"} /\ UNCHANGED <<BridgePhase, stopOrdered>>
       => AsBridge!ReturnTcp("this")
    /\ /\ BridgePhase = "stopping" /\ BridgeHolds = {"gns"}
       /\ BridgeHolds' = {} /\ UNCHANGED <<BridgePhase, stopOrdered>>
       => AsBridge!ReturnGns("this")
    /\ /\ BridgePhase = "stopping" /\ BridgePhase' = "stopped"
       /\ BridgeHolds = {} /\ UNCHANGED <<BridgeHolds, stopOrdered>>
       => AsBridge!End("this")
<1> DEFINE this(x) == [b \in {"this"} |-> x]
<1>1. ASSUME NEW x, NEW y
      PROVE  this(x)["this"] = x /\ [this(x) EXCEPT !["this"] = y] = this(y)
  OBVIOUS
<1>2. stopOrdered' = stopOrdered =>
        {b \in {"this"} : stopOrdered}' = {b \in {"this"} : stopOrdered}
  OBVIOUS
<1>3. stopOrdered' = TRUE =>
        {b \in {"this"} : stopOrdered}' = {b \in {"this"} : stopOrdered} \cup {"this"}
  OBVIOUS
<1>4. stopOrdered = TRUE => "this" \in {b \in {"this"} : stopOrdered}
  OBVIOUS
<1>5. this(BridgePhase)' = this(BridgePhase') /\ this(BridgeHolds)' = this(BridgeHolds')
  OBVIOUS
<1> QED
  BY <1>1, <1>2, <1>3, <1>4, <1>5
  DEF AsBridge!lives, AsBridge!Tell, AsBridge!Connect, AsBridge!Stop,
      AsBridge!ReturnTcp, AsBridge!ReturnGns, AsBridge!End

(* Where a bridge is in its life, from where its threads are. *)
LEMMA PhaseMeans ==
    ASSUME ControlTypes, ThreadsOK
    PROVE  /\ teardownPc = "none" =>
                BridgePhase = IF mGnsInstance = "instance" THEN "running" ELSE "starting"
           /\ TeardownWorks => BridgePhase = "stopping"
           /\ teardownPc = "done" => BridgePhase = "stopped"
BY DEF ControlTypes, ThreadsOK, TeardownWorks, BridgePhase, IsInState

(* Each step is one of BridgeLife, or changes nothing there. *)
LEMMA LifeRefined ==
    ASSUME Inv, Inv', [Next]_vars
    PROVE  [AsBridge!Next]_(AsBridge!lives)
<1> USE DEF life, owned
<1>1. ControlTypes /\ ThreadsOK /\ OwnedOK /\ ControlTypes' /\ ThreadsOK' /\ OwnedOK'
  BY DEF Inv
<1>2. /\ teardownPc = "none" =>
           BridgePhase = IF mGnsInstance = "instance" THEN "running" ELSE "starting"
      /\ TeardownWorks => BridgePhase = "stopping"
      /\ teardownPc = "done" => BridgePhase = "stopped"
  BY <1>1, PhaseMeans, Zenon
<1>3. /\ teardownPc' = "none" =>
           BridgePhase' = IF mGnsInstance' = "instance" THEN "running" ELSE "starting"
      /\ TeardownWorks' => BridgePhase' = "stopping"
      /\ teardownPc' = "done" => BridgePhase' = "stopped"
  <2>1. (ControlTypes /\ ThreadsOK =>
           /\ teardownPc = "none" =>
                BridgePhase = IF mGnsInstance = "instance" THEN "running" ELSE "starting"
           /\ TeardownWorks => BridgePhase = "stopping"
           /\ teardownPc = "done" => BridgePhase = "stopped")'
    BY PhaseMeans, PTL
  <2> QED
    BY <1>1, <2>1
<1>4. teardownPc = "none" \/ TeardownWorks \/ teardownPc = "done"
  BY <1>1 DEF ControlTypes, TeardownWorks
<1>5. UNCHANGED <<mTcpInstance, mGnsInstance>> => UNCHANGED BridgeHolds
  BY DEF BridgeHolds
<1>6. UNCHANGED <<teardownPc, mGnsInstance>> => UNCHANGED BridgePhase
  BY <1>2, <1>3, <1>4 DEF TeardownWorks
<1>7. CASE UNCHANGED <<teardownPc, mTcpInstance, mGnsInstance>>
  <2>1. UNCHANGED <<BridgePhase, BridgeHolds>>
    BY <1>5, <1>6, <1>7
  <2>2. stopOrdered' = stopOrdered \/ stopOrdered' = TRUE
    BY DEF Next, InitStep, InitBegin, InitFail, InitCreateGns, InitStartCtx, InitEnd,
       OrderStop, StopStep, StopBegin, JoinCtx, StopTcp, ReturnTcp, StopGns, ReturnGns,
       TeardownEnd, CtxStep, CtxTop, CtxCheck, RecvTcp, SendGns, RecvGns, SendTcp,
       CountStep, Counts, CountRecvTcp, CountSendGns, CountRecvGns, CountSendTcp,
       TcpProgress, GnsProgress, Environment, UrlArrives, TcpCrash, GnsCrash,
       TcpTraffic, GnsTraffic, Terminated, vars
  <2> QED
    BY <2>1, <2>2, LifeSteps DEF AsBridge!Next
<1>8. CASE InitFail \/ StopBegin
  <2>1. /\ teardownPc = "none" /\ teardownPc' = "joinCtx"
        /\ UNCHANGED <<mTcpInstance, mGnsInstance, stopOrdered>>
    BY <1>1, <1>8 DEF InitFail, StopBegin, ThreadsOK
  <2>2. mGnsInstance # "instance" \/ stopOrdered = TRUE
    BY <1>1, <1>8 DEF InitFail, StopBegin, ThreadsOK, OwnedOK, ControlTypes
  <2>3. AsBridge!Stop("this")
    BY <1>2, <1>3, <1>5, <2>1, <2>2, LifeSteps DEF TeardownWorks
  <2> QED
    BY <2>3 DEF AsBridge!Next
<1>9. CASE InitCreateGns
  <2>1. /\ teardownPc = "none" /\ mTcpInstance = "instance" /\ mGnsInstance = "null"
        /\ mGnsInstance' = "instance" /\ UNCHANGED <<teardownPc, mTcpInstance, stopOrdered>>
    BY <1>1, <1>9 DEF InitCreateGns, ThreadsOK, OwnedOK, ControlTypes
  <2>2. BridgeHolds' = {"tcp", "gns"}
    BY <2>1 DEF BridgeHolds
  <2>3. AsBridge!Connect("this")
    BY <1>2, <1>3, <2>1, <2>2, LifeSteps
  <2> QED
    BY <2>3 DEF AsBridge!Next
<1>10. CASE JoinCtx \/ StopTcp \/ StopGns
  <2>1. TeardownWorks /\ TeardownWorks' /\ UNCHANGED <<mTcpInstance, mGnsInstance, stopOrdered>>
    BY <1>10 DEF JoinCtx, StopTcp, StopGns, TeardownWorks
  <2> QED
    BY <1>2, <1>3, <1>5, <2>1, LifeSteps
<1>11. CASE ReturnTcp
  <2>1. /\ TeardownWorks /\ TeardownWorks' /\ UNCHANGED <<mGnsInstance, stopOrdered>>
        /\ mTcpInstance = "instance" /\ mTcpInstance' = "null"
    BY <1>1, <1>11 DEF ReturnTcp, TeardownWorks, OwnedOK
  <2>2. "tcp" \in BridgeHolds /\ BridgeHolds' = BridgeHolds \ {"tcp"}
    BY <2>1 DEF BridgeHolds
  <2>3. AsBridge!ReturnTcp("this")
    BY <1>2, <1>3, <2>1, <2>2, LifeSteps
  <2> QED
    BY <2>3 DEF AsBridge!Next
<1>12. CASE ReturnGns
  <2>1. /\ TeardownWorks /\ TeardownWorks' /\ UNCHANGED <<mTcpInstance, stopOrdered>>
        /\ mTcpInstance = "null" /\ mGnsInstance = "instance" /\ mGnsInstance' = "null"
    BY <1>1, <1>12 DEF ReturnGns, TeardownWorks, OwnedOK
  <2>2. BridgeHolds = {"gns"} /\ BridgeHolds' = {}
    BY <2>1 DEF BridgeHolds
  <2>3. AsBridge!ReturnGns("this")
    BY <1>2, <1>3, <2>1, <2>2, LifeSteps
  <2> QED
    BY <2>3 DEF AsBridge!Next
<1>13. CASE TeardownEnd
  <2>1. /\ TeardownWorks /\ teardownPc' = "done"
        /\ UNCHANGED <<mTcpInstance, mGnsInstance, stopOrdered>>
        /\ mTcpInstance = "null" /\ mGnsInstance = "null"
    BY <1>1, <1>13 DEF TeardownEnd, TeardownWorks, OwnedOK
  <2>2. BridgeHolds = {} /\ UNCHANGED BridgeHolds
    BY <1>5, <2>1 DEF BridgeHolds
  <2>3. AsBridge!End("this")
    BY <1>2, <1>3, <2>1, <2>2, LifeSteps
  <2> QED
    BY <2>3 DEF AsBridge!Next
<1>14. CASE InitBegin \/ InitStartCtx \/ InitEnd \/ OrderStop \/ CtxStep \/ TcpProgress
            \/ GnsProgress \/ Environment \/ UNCHANGED vars
  <2>1. UNCHANGED <<teardownPc, mTcpInstance, mGnsInstance>>
    BY <1>14, Zenon DEF InitBegin, InitStartCtx, InitEnd, OrderStop, CtxStep, CtxTop,
       CtxCheck, RecvTcp, SendGns, RecvGns, SendTcp, CountStep, Counts, CountRecvTcp,
       CountSendGns, CountRecvGns, CountSendTcp, TcpProgress, GnsProgress, Environment,
       UrlArrives, TcpCrash, GnsCrash, TcpTraffic, GnsTraffic, vars
  <2> QED
    BY <1>7, <2>1
<1> QED
  BY <1>8, <1>9, <1>10, <1>11, <1>12, <1>13, <1>14, Zenon
  DEF Next, InitStep, StopStep, Terminated

-----------------------------------------------------------------------------
(* The relay *)

(* Each step moves the messages of the first direction on in order. *)
LEMMA ToGnsStep == ASSUME ToGns, [Next]_vars PROVE ToGns'
<1> USE DEF tcpStream, gnsStream, tcp, gns, relay, lists, counters
<1>1. Relay(1..MaxTcp, tcpArrived, tcpTaken, msgtcp2gns, gnsGiven, gnsSent)
  BY DEF ToGns
<1>2. CASE UNCHANGED <<tcpArrived, tcpTaken, msgtcp2gns, gnsGiven, gnsSent>>
  BY <1>1, <1>2, Zenon DEF ToGns
<1>3. CASE TcpTraffic
  <2>1. CASE Len(tcpArrived) < MaxTcp /\ Tcp!Arrive(Len(tcpArrived) + 1)
    <3>1. Len(tcpArrived) + 1 \in 1..MaxTcp
      BY <1>1, <2>1, BoundsAssumption DEF Relay
    <3>2. Relay(1..MaxTcp, Append(tcpArrived, Len(tcpArrived) + 1), tcpTaken, msgtcp2gns,
                gnsGiven, gnsSent)
      BY <1>1, <3>1, RelayArrives, Zenon
    <3>3. /\ tcpArrived' = Append(tcpArrived, Len(tcpArrived) + 1)
          /\ UNCHANGED <<tcpTaken, msgtcp2gns, gnsGiven, gnsSent>>
      BY <1>3, <2>1, Zenon DEF TcpTraffic, Tcp!Arrive
    <3> QED
      BY <3>2, <3>3, Zenon DEF ToGns
  <2>2. CASE Tcp!Transmit
    BY <1>2, <1>3, <2>2, Zenon DEF TcpTraffic, Tcp!Transmit
  <2> QED
    BY <1>3, <2>1, <2>2, Zenon DEF TcpTraffic
<1>4. CASE RecvTcp
  <2>1. Relay(1..MaxTcp, tcpArrived, tcpTaken', msgtcp2gns \o News(tcpTaken, tcpTaken'),
              gnsGiven, gnsSent)
    <3>1. /\ tcpTaken' \in Seq(1..MaxTcp)
          /\ IsPrefixOf(tcpTaken, tcpTaken') /\ IsPrefixOf(tcpTaken', tcpArrived)
      <4>1. CASE Tcp!Take
        BY <1>1, <4>1, FrontFurther, Zenon DEF Tcp!Take, Relay
      <4>2. CASE UNCHANGED tcpStream
        <5>1. tcpTaken' = tcpTaken
          BY <4>2, Zenon
        <5>2. tcpTaken \in Seq(1..MaxTcp) /\ IsPrefixOf(tcpTaken, tcpArrived)
          BY <1>1, Zenon DEF Relay
        <5> QED
          BY <5>1, <5>2, FrontOfItself, Zenon
      <4> QED
        BY <1>4, <4>1, <4>2, Zenon DEF RecvTcp
    <3> QED
      BY <1>1, <3>1, RelayTakes, Zenon
  <2>2. /\ msgtcp2gns' = msgtcp2gns \o News(tcpTaken, tcpTaken')
        /\ UNCHANGED <<tcpArrived, gnsGiven, gnsSent>>
    BY <1>4, Zenon DEF RecvTcp, Tcp!Take
  <2> QED
    BY <2>1, <2>2, Zenon DEF ToGns
<1>5. CASE SendGns
  <2>1. UNCHANGED <<tcpArrived, tcpTaken, gnsSent>>
    BY <1>5, Zenon DEF SendGns, Gns!Give
  <2>2. CASE gnsGiven' = gnsGiven \o msgtcp2gns /\ msgtcp2gns' = <<>>
    BY <1>1, <2>1, <2>2, RelayGives, Zenon DEF ToGns
  <2>3. CASE UNCHANGED <<gnsGiven, msgtcp2gns>>
    BY <1>2, <2>1, <2>3, Zenon
  <2> QED
    BY <1>5, <2>2, <2>3, Zenon DEF SendGns, Gns!Give
<1>6. CASE GnsTraffic
  <2>1. CASE Gns!Transmit
    <3>1. PICK n \in Len(gnsSent)..Len(gnsGiven) : gnsSent' = SubSeq(gnsGiven, 1, n)
      BY <2>1, Zenon DEF Gns!Transmit
    <3>2. UNCHANGED <<tcpArrived, tcpTaken, msgtcp2gns, gnsGiven>>
      BY <1>6, <2>1, Zenon DEF GnsTraffic, Gns!Transmit
    <3> QED
      BY <1>1, <3>1, <3>2, RelayTransmits, Zenon DEF ToGns
  <2>2. CASE Gns!Arrive(Len(gnsArrived) + 1)
    BY <1>2, <1>6, <2>2, Zenon DEF GnsTraffic, Gns!Arrive
  <2> QED
    BY <1>6, <2>1, <2>2, Zenon DEF GnsTraffic
<1>7. CASE RecvGns \/ SendTcp \/ CountStep
  BY <1>2, <1>7, Zenon DEF RecvGns, SendTcp, Gns!Take, Tcp!Give, CountStep, Counts,
     CountRecvTcp, CountSendGns, CountRecvGns, CountSendTcp
<1>8. CASE InitStep \/ OrderStop \/ StopStep \/ CtxTop \/ CtxCheck
  BY <1>2, <1>8, Zenon DEF InitStep, InitBegin, InitFail, InitCreateGns, InitStartCtx,
     InitEnd, OrderStop, StopStep, StopBegin, JoinCtx, StopTcp, ReturnTcp, StopGns,
     ReturnGns, TeardownEnd, CtxTop, CtxCheck
<1>9. CASE TcpProgress \/ GnsProgress \/ UrlArrives \/ TcpCrash \/ GnsCrash \/ UNCHANGED vars
  BY <1>2, <1>9, Zenon DEF TcpProgress, GnsProgress, UrlArrives, TcpCrash, GnsCrash, vars
<1> QED
  BY <1>3, <1>4, <1>5, <1>6, <1>7, <1>8, <1>9, Zenon
  DEF Next, CtxStep, Environment, Terminated

(* Each step moves the messages of the other direction on in order. *)
LEMMA ToTcpStep == ASSUME ToTcp, [Next]_vars PROVE ToTcp'
<1> USE DEF gnsStream, tcpStream, gns, tcp, relay, lists, counters
<1>1. Relay(1..MaxGns, gnsArrived, gnsTaken, msggns2tcp, tcpGiven, tcpSent)
  BY DEF ToTcp
<1>2. CASE UNCHANGED <<gnsArrived, gnsTaken, msggns2tcp, tcpGiven, tcpSent>>
  BY <1>1, <1>2, Zenon DEF ToTcp
<1>3. CASE GnsTraffic
  <2>1. CASE Len(gnsArrived) < MaxGns /\ Gns!Arrive(Len(gnsArrived) + 1)
    <3>1. Len(gnsArrived) + 1 \in 1..MaxGns
      BY <1>1, <2>1, BoundsAssumption DEF Relay
    <3>2. Relay(1..MaxGns, Append(gnsArrived, Len(gnsArrived) + 1), gnsTaken, msggns2tcp,
                tcpGiven, tcpSent)
      BY <1>1, <3>1, RelayArrives, Zenon
    <3>3. /\ gnsArrived' = Append(gnsArrived, Len(gnsArrived) + 1)
          /\ UNCHANGED <<gnsTaken, msggns2tcp, tcpGiven, tcpSent>>
      BY <1>3, <2>1, Zenon DEF GnsTraffic, Gns!Arrive
    <3> QED
      BY <3>2, <3>3, Zenon DEF ToTcp
  <2>2. CASE Gns!Transmit
    BY <1>2, <1>3, <2>2, Zenon DEF GnsTraffic, Gns!Transmit
  <2> QED
    BY <1>3, <2>1, <2>2, Zenon DEF GnsTraffic
<1>4. CASE RecvGns
  <2>1. Relay(1..MaxGns, gnsArrived, gnsTaken', msggns2tcp \o News(gnsTaken, gnsTaken'),
              tcpGiven, tcpSent)
    <3>1. /\ gnsTaken' \in Seq(1..MaxGns)
          /\ IsPrefixOf(gnsTaken, gnsTaken') /\ IsPrefixOf(gnsTaken', gnsArrived)
      <4>1. CASE Gns!Take
        BY <1>1, <4>1, FrontFurther, Zenon DEF Gns!Take, Relay
      <4>2. CASE UNCHANGED gnsStream
        <5>1. gnsTaken' = gnsTaken
          BY <4>2, Zenon
        <5>2. gnsTaken \in Seq(1..MaxGns) /\ IsPrefixOf(gnsTaken, gnsArrived)
          BY <1>1, Zenon DEF Relay
        <5> QED
          BY <5>1, <5>2, FrontOfItself, Zenon
      <4> QED
        BY <1>4, <4>1, <4>2, Zenon DEF RecvGns
    <3> QED
      BY <1>1, <3>1, RelayTakes, Zenon
  <2>2. /\ msggns2tcp' = msggns2tcp \o News(gnsTaken, gnsTaken')
        /\ UNCHANGED <<gnsArrived, tcpGiven, tcpSent>>
    BY <1>4, Zenon DEF RecvGns, Gns!Take
  <2> QED
    BY <2>1, <2>2, Zenon DEF ToTcp
<1>5. CASE SendTcp
  <2>1. UNCHANGED <<gnsArrived, gnsTaken, tcpSent>>
    BY <1>5, Zenon DEF SendTcp, Tcp!Give
  <2>2. CASE tcpGiven' = tcpGiven \o msggns2tcp /\ msggns2tcp' = <<>>
    BY <1>1, <2>1, <2>2, RelayGives, Zenon DEF ToTcp
  <2>3. CASE UNCHANGED <<tcpGiven, msggns2tcp>>
    BY <1>2, <2>1, <2>3, Zenon
  <2> QED
    BY <1>5, <2>2, <2>3, Zenon DEF SendTcp, Tcp!Give
<1>6. CASE TcpTraffic
  <2>1. CASE Tcp!Transmit
    <3>1. PICK n \in Len(tcpSent)..Len(tcpGiven) : tcpSent' = SubSeq(tcpGiven, 1, n)
      BY <2>1, Zenon DEF Tcp!Transmit
    <3>2. UNCHANGED <<gnsArrived, gnsTaken, msggns2tcp, tcpGiven>>
      BY <1>6, <2>1, Zenon DEF TcpTraffic, Tcp!Transmit
    <3> QED
      BY <1>1, <3>1, <3>2, RelayTransmits, Zenon DEF ToTcp
  <2>2. CASE Tcp!Arrive(Len(tcpArrived) + 1)
    BY <1>2, <1>6, <2>2, Zenon DEF TcpTraffic, Tcp!Arrive
  <2> QED
    BY <1>6, <2>1, <2>2, Zenon DEF TcpTraffic
<1>7. CASE RecvTcp \/ SendGns \/ CountStep
  BY <1>2, <1>7, Zenon DEF RecvTcp, SendGns, Tcp!Take, Gns!Give, CountStep, Counts,
     CountRecvTcp, CountSendGns, CountRecvGns, CountSendTcp
<1>8. CASE InitStep \/ OrderStop \/ StopStep \/ CtxTop \/ CtxCheck
  BY <1>2, <1>8, Zenon DEF InitStep, InitBegin, InitFail, InitCreateGns, InitStartCtx,
     InitEnd, OrderStop, StopStep, StopBegin, JoinCtx, StopGns, ReturnGns, StopTcp,
     ReturnTcp, TeardownEnd, CtxTop, CtxCheck
<1>9. CASE GnsProgress \/ TcpProgress \/ UrlArrives \/ GnsCrash \/ TcpCrash \/ UNCHANGED vars
  BY <1>2, <1>9, Zenon DEF GnsProgress, TcpProgress, UrlArrives, GnsCrash, TcpCrash, vars
<1> QED
  BY <1>3, <1>4, <1>5, <1>6, <1>7, <1>8, <1>9, Zenon
  DEF Next, CtxStep, Environment, Terminated

-----------------------------------------------------------------------------
(* The counters *)

(* Only CtxWorker touches the lists and the counters, and nobody else takes  *)
(* from an instance or gives to it.                                          *)
LEMMA OthersCountNothing ==
    ASSUME OwnedOK, [Next]_vars
    PROVE  \/ CtxStep
           \/ /\ UNCHANGED <<relay, tcpTaken, tcpGiven, gnsTaken, gnsGiven>>
              /\ UNCHANGED ctxPc \/ (ctxPc = "none" /\ ctxPc' = "top")
<1> USE DEF tcpStream, gnsStream, tcp, gns, ctx
<1>1. CASE InitStartCtx
  BY <1>1 DEF InitStartCtx, OwnedOK
<1>2. CASE InitBegin \/ InitFail \/ InitCreateGns \/ InitEnd \/ OrderStop \/ StopStep
  BY <1>2, Zenon DEF InitBegin, InitFail, InitCreateGns, InitEnd, OrderStop, StopStep,
     StopBegin, JoinCtx, StopTcp, ReturnTcp, StopGns, ReturnGns, TeardownEnd
<1>3. CASE TcpProgress \/ GnsProgress \/ UrlArrives \/ TcpCrash \/ GnsCrash \/ UNCHANGED vars
  BY <1>3, Zenon DEF TcpProgress, GnsProgress, UrlArrives, TcpCrash, GnsCrash, vars
<1>4. CASE TcpTraffic \/ GnsTraffic
  BY <1>4, Zenon DEF TcpTraffic, GnsTraffic, Tcp!Arrive, Tcp!Transmit, Gns!Arrive,
     Gns!Transmit
<1> QED
  BY <1>1, <1>2, <1>3, <1>4, Zenon DEF Next, InitStep, Environment, Terminated

(* Each step keeps the counters of the first direction exact, up to what     *)
(* CtxWorker still has to add.                                               *)
LEMMA CountedToGnsStep ==
    ASSUME OwnedOK, ToGns, ToGns', count \in Nat, CountedToGns, [Next]_vars
    PROVE  CountedToGns' /\ mRecvTcp <= mRecvTcp' /\ mSendGns <= mSendGns'
<1> USE DEF CountedToGns, relay, lists, counters, tcp, gns, tcpStream, gnsStream
<1>1. /\ Len(tcpTaken) = Len(gnsGiven) + Len(msgtcp2gns)
      /\ Len(tcpTaken) \in Nat /\ Len(gnsGiven) \in Nat /\ Len(msgtcp2gns) \in Nat
  BY RelayMeans DEF ToGns
<1>2. /\ Len(tcpTaken') = Len(gnsGiven') + Len(msgtcp2gns')
      /\ Len(tcpTaken') \in Nat /\ Len(gnsGiven') \in Nat /\ Len(msgtcp2gns') \in Nat
  BY RelayMeans DEF ToGns
<1>3. CASE RecvTcp
  <2>1. /\ ctxPc = "recvTcp" /\ ctxPc' = "countRecvTcp" /\ count' = Len(msgtcp2gns)
        /\ UNCHANGED <<counters, gnsGiven>>
    BY <1>3 DEF RecvTcp
  <2>2. Len(tcpTaken) <= Len(tcpTaken')
    <3>1. CASE Tcp!Take
      <4>1. PICK n \in Len(tcpTaken)..Len(tcpArrived) : tcpTaken' = SubSeq(tcpArrived, 1, n)
        BY <3>1 DEF Tcp!Take
      <4>2. tcpArrived \in Seq(1..MaxTcp) /\ n \in 0..Len(tcpArrived) /\ Len(tcpTaken) <= n
        BY <1>1 DEF ToGns, Relay
      <4>3. Len(SubSeq(tcpArrived, 1, n)) = n
        BY <4>2, FrontOf, Zenon
      <4> QED
        BY <4>1, <4>2, <4>3
    <3>2. CASE UNCHANGED tcpStream
      BY <1>1, <3>2
    <3> QED
      BY <1>3, <3>1, <3>2 DEF RecvTcp
  <2> QED
    BY <1>1, <1>2, <2>1, <2>2
<1>4. CASE SendGns
  <2>1. /\ ctxPc = "sendGns" /\ ctxPc' = "countSendGns" /\ count' = Len(msgtcp2gns)
        /\ UNCHANGED <<counters, tcpTaken>>
    BY <1>4 DEF SendGns
  <2>2. msgtcp2gns' = <<>> \/ UNCHANGED msgtcp2gns
    BY <1>4 DEF SendGns
  <2>3. Len(<<>>) = 0
    OBVIOUS
  <2> QED
    BY <1>1, <1>2, <2>1, <2>2, <2>3
<1>5. CASE CountRecvTcp \/ CountSendGns
  <2>1. UNCHANGED <<tcpTaken, gnsGiven, msgtcp2gns>>
    BY <1>5, Zenon DEF CountRecvTcp, CountSendGns, Counts
  <2> QED
    BY <1>1, <1>5, <2>1 DEF CountRecvTcp, CountSendGns, Counts
<1>6. CASE RecvGns \/ SendTcp \/ CountRecvGns \/ CountSendTcp \/ CtxTop \/ CtxCheck
  <2>1. /\ UNCHANGED <<tcpTaken, gnsGiven, msgtcp2gns, mRecvTcp, mSendGns>>
        /\ ctxPc \notin {"countRecvTcp", "countSendGns"}
        /\ ctxPc' \notin {"countRecvTcp", "countSendGns"}
    BY <1>6 DEF RecvGns, SendTcp, CountRecvGns, CountSendTcp, Counts, CtxTop, CtxCheck,
       Gns!Take, Tcp!Give
  <2> QED
    BY <1>1, <2>1
<1>7. CASE /\ UNCHANGED <<relay, tcpTaken, tcpGiven, gnsTaken, gnsGiven>>
           /\ UNCHANGED ctxPc \/ (ctxPc = "none" /\ ctxPc' = "top")
  BY <1>1, <1>7
<1> QED
  BY <1>3, <1>4, <1>5, <1>6, <1>7, OthersCountNothing DEF CtxStep, CountStep

(* Each step keeps the counters of the other direction exact, up to what     *)
(* CtxWorker still has to add.                                               *)
LEMMA CountedToTcpStep ==
    ASSUME OwnedOK, ToTcp, ToTcp', count \in Nat, CountedToTcp, [Next]_vars
    PROVE  CountedToTcp' /\ mRecvGns <= mRecvGns' /\ mSendTcp <= mSendTcp'
<1> USE DEF CountedToTcp, relay, lists, counters, gns, tcp, gnsStream, tcpStream
<1>1. /\ Len(gnsTaken) = Len(tcpGiven) + Len(msggns2tcp)
      /\ Len(gnsTaken) \in Nat /\ Len(tcpGiven) \in Nat /\ Len(msggns2tcp) \in Nat
  BY RelayMeans DEF ToTcp
<1>2. /\ Len(gnsTaken') = Len(tcpGiven') + Len(msggns2tcp')
      /\ Len(gnsTaken') \in Nat /\ Len(tcpGiven') \in Nat /\ Len(msggns2tcp') \in Nat
  BY RelayMeans DEF ToTcp
<1>3. CASE RecvGns
  <2>1. /\ ctxPc = "recvGns" /\ ctxPc' = "countRecvGns" /\ count' = Len(msggns2tcp)
        /\ UNCHANGED <<counters, tcpGiven>>
    BY <1>3 DEF RecvGns
  <2>2. Len(gnsTaken) <= Len(gnsTaken')
    <3>1. CASE Gns!Take
      <4>1. PICK n \in Len(gnsTaken)..Len(gnsArrived) : gnsTaken' = SubSeq(gnsArrived, 1, n)
        BY <3>1 DEF Gns!Take
      <4>2. gnsArrived \in Seq(1..MaxGns) /\ n \in 0..Len(gnsArrived) /\ Len(gnsTaken) <= n
        BY <1>1 DEF ToTcp, Relay
      <4>3. Len(SubSeq(gnsArrived, 1, n)) = n
        BY <4>2, FrontOf, Zenon
      <4> QED
        BY <4>1, <4>2, <4>3
    <3>2. CASE UNCHANGED gnsStream
      BY <1>1, <3>2
    <3> QED
      BY <1>3, <3>1, <3>2 DEF RecvGns
  <2> QED
    BY <1>1, <1>2, <2>1, <2>2
<1>4. CASE SendTcp
  <2>1. /\ ctxPc = "sendTcp" /\ ctxPc' = "countSendTcp" /\ count' = Len(msggns2tcp)
        /\ UNCHANGED <<counters, gnsTaken>>
    BY <1>4 DEF SendTcp
  <2>2. msggns2tcp' = <<>> \/ UNCHANGED msggns2tcp
    BY <1>4 DEF SendTcp
  <2>3. Len(<<>>) = 0
    OBVIOUS
  <2> QED
    BY <1>1, <1>2, <2>1, <2>2, <2>3
<1>5. CASE CountRecvGns \/ CountSendTcp
  <2>1. UNCHANGED <<gnsTaken, tcpGiven, msggns2tcp>>
    BY <1>5, Zenon DEF CountRecvGns, CountSendTcp, Counts
  <2> QED
    BY <1>1, <1>5, <2>1 DEF CountRecvGns, CountSendTcp, Counts
<1>6. CASE RecvTcp \/ SendGns \/ CountRecvTcp \/ CountSendGns \/ CtxTop \/ CtxCheck
  <2>1. /\ UNCHANGED <<gnsTaken, tcpGiven, msggns2tcp, mRecvGns, mSendTcp>>
        /\ ctxPc \notin {"countRecvGns", "countSendTcp"}
        /\ ctxPc' \notin {"countRecvGns", "countSendTcp"}
    BY <1>6 DEF RecvTcp, SendGns, CountRecvTcp, CountSendGns, Counts, CtxTop, CtxCheck,
       Tcp!Take, Gns!Give
  <2> QED
    BY <1>1, <2>1
<1>7. CASE /\ UNCHANGED <<relay, gnsTaken, gnsGiven, tcpTaken, tcpGiven>>
           /\ UNCHANGED ctxPc \/ (ctxPc = "none" /\ ctxPc' = "top")
  BY <1>1, <1>7
<1> QED
  BY <1>3, <1>4, <1>5, <1>6, <1>7, OthersCountNothing DEF CtxStep, CountStep

(* Each step keeps the counters.                                             *)
LEMMA CountersStep ==
    ASSUME OwnedOK, ToGns, ToTcp, ToGns', ToTcp', CountersOK, [Next]_vars
    PROVE  CountersOK'
<1>1. CountedToGns'
  BY CountedToGnsStep, Zenon DEF CountersOK
<1>2. CountedToTcp'
  BY CountedToTcpStep, Zenon DEF CountersOK
<1>3. count' \in Nat
  <2>1. Len(msgtcp2gns) \in Nat /\ Len(msggns2tcp) \in Nat
    BY RelayMeans, Zenon DEF ToGns, ToTcp
  <2>2. \/ UNCHANGED count \/ count' = 0
        \/ count' = Len(msgtcp2gns) \/ count' = Len(msggns2tcp)
    BY OthersCountNothing, Zenon DEF relay, CtxStep, CtxTop, CtxCheck, RecvTcp, SendGns,
       RecvGns, SendTcp, CountStep, Counts, CountRecvTcp, CountSendGns, CountRecvGns,
       CountSendTcp
  <2> QED
    BY <2>1, <2>2 DEF CountersOK
<1> QED
  BY <1>1, <1>2, <1>3 DEF CountersOK

-----------------------------------------------------------------------------
(* The theorems *)

(* The invariant holds at the start. *)
LEMMA InvInit == Init => Inv
<1>1. ASSUME Init
      PROVE  Inv
  <2> USE <1>1 DEF Init
  <2>1. tcpPhase = "Ready" /\ gnsPhase = "none"
    BY DEF TcpLife!Init
  <2>2. NewCore \in StateMachineCore
    BY DEF NewCore, StateMachineCore, States
  <2>3. ControlTypes
    BY <2>1, <2>2 DEF ControlTypes, PhaseSet
  <2>4. ThreadsOK
    BY DEF ThreadsOK, TeardownWorks, NewCore
  <2>5. OwnedOK
    BY <2>1 DEF OwnedOK
  <2>6. ASSUME NEW S
        PROVE  Relay(S, <<>>, <<>>, <<>>, <<>>, <<>>)
    <3>1. /\ <<>> \in Seq(S) /\ <<>> = <<>> \o <<>>
      BY EmptySeq, ConcatEmptySeq
    <3> QED
      BY <3>1, FrontOfItself, Zenon DEF Relay
  <2>7. /\ tcpArrived = <<>> /\ tcpTaken = <<>> /\ tcpGiven = <<>> /\ tcpSent = <<>>
        /\ gnsArrived = <<>> /\ gnsTaken = <<>> /\ gnsGiven = <<>> /\ gnsSent = <<>>
    BY Zenon DEF Tcp!Init, Gns!Init
  <2>8. ToGns /\ ToTcp
    BY <2>6, <2>7, Zenon DEF ToGns, ToTcp
  <2>9. CountersOK
    <3>1. Len(<<>>) = 0
      OBVIOUS
    <3> QED
      BY <2>7, <3>1 DEF CountersOK, CountedToGns, CountedToTcp
  <2> QED
    BY <2>3, <2>4, <2>5, <2>8, <2>9 DEF Inv
<1> QED
  BY <1>1

(* The invariant holds always: it is inductive. *)
LEMMA Invariant == Spec => []Inv
<1>1. Inv /\ [Next]_vars => Inv'
  BY TypesStep, ThreadsStep, OwnedStep, ToGnsStep, ToTcpStep, CountersStep, Zenon DEF Inv
<1> QED
  BY InvInit, <1>1, PTL DEF Spec

(* Every variable of a bridge and of its instances keeps its type. *)
THEOREM TypeCorrect == Spec => []TypeOK
<1>1. Inv => TypeOK
  <2>1. ASSUME Inv
        PROVE  TypeOK
    <3>1. /\ mRecvTcp \in Nat /\ mSendGns \in Nat /\ mRecvGns \in Nat /\ mSendTcp \in Nat
          /\ count \in Nat
      BY <2>1, Zenon DEF Inv, CountersOK, CountedToGns, CountedToTcp
    <3>2. /\ msgtcp2gns \in Seq(1..MaxTcp) /\ tcpArrived \in Seq(1..MaxTcp)
          /\ tcpTaken \in Seq(1..MaxTcp) /\ gnsGiven \in Seq(1..MaxTcp)
          /\ gnsSent \in Seq(1..MaxTcp)
      BY <2>1, Zenon DEF Inv, ToGns, Relay
    <3>3. /\ msggns2tcp \in Seq(1..MaxGns) /\ gnsArrived \in Seq(1..MaxGns)
          /\ gnsTaken \in Seq(1..MaxGns) /\ tcpGiven \in Seq(1..MaxGns)
          /\ tcpSent \in Seq(1..MaxGns)
      BY <2>1, Zenon DEF Inv, ToTcp, Relay
    <3>4. ControlTypes
      BY <2>1, Zenon DEF Inv
    <3> QED
      BY <3>1, <3>2, <3>3, <3>4, Zenon DEF TypeOK, ControlTypes
  <2> QED
    BY <2>1
<1> QED
  BY <1>1, Invariant, PTL

(* CtxWorker uses neither instance before it is there, nor after it went back *)
(* to its factory: a teardown joins it first, whichever transition runs it.  *)
THEOREM CtxUsesOwnInstancesHolds == Spec => []CtxUsesOwnInstances
<1>1. Inv => CtxUsesOwnInstances
  BY DEF Inv, ControlTypes, OwnedOK, CtxUsesOwnInstances
<1> QED
  BY <1>1, Invariant, PTL

(* A stopped bridge has returned both instances, once each and stopped, also *)
(* when it never created the second.                                         *)
THEOREM ReturnsEachStoppedHolds == Spec => []ReturnsEachStopped
<1>1. Inv => ReturnsEachStopped
  <2>1. ASSUME Inv
        PROVE  ReturnsEachStopped
    <3>1. \/ returned = <<>>
          \/ returned = <<"tcp">> /\ tcpPhase = "Stopped"
          \/ returned = <<"tcp", "gns">> /\ tcpPhase = "Stopped" /\ gnsPhase = "Stopped"
      BY <2>1 DEF Inv, OwnedOK, ControlTypes
    <3>2. IsInState(core, "Stopped") => teardownPc = "done"
      BY <2>1 DEF Inv, ThreadsOK, TeardownWorks, ControlTypes, IsInState
    <3>3. IsInState(core, "Stopped") =>
            \/ gnsPhase = "none" /\ returned = <<"tcp">>
            \/ returned = <<"tcp", "gns">>
      BY <2>1, <3>2 DEF Inv, OwnedOK
    <3>4. /\ Len(<<"tcp">>) = 1 /\ <<"tcp">>[1] = "tcp"
          /\ Len(<<"tcp", "gns">>) = 2 /\ <<"tcp", "gns">>[1] = "tcp"
          /\ <<"tcp", "gns">>[2] = "gns" /\ Len(<<>>) = 0
      OBVIOUS
    <3> QED
      BY <3>1, <3>3, <3>4 DEF ReturnsEachStopped
  <2> QED
    BY <2>1
<1> QED
  BY <1>1, Invariant, PTL

(* In both directions a front of what came in goes out, for any number of    *)
(* messages, wherever a stop, a crash or a refusal falls.                    *)
THEOREM RelayInOrderHolds == Spec => []RelayInOrder
<1>1. Inv => RelayInOrder
  BY RelayMeans, Zenon DEF Inv, ToGns, ToTcp, RelayInOrder
<1> QED
  BY <1>1, Invariant, PTL

(* A bridge lives as BridgeFactory takes it to: every step of its threads is *)
(* a step of BridgeLife or changes nothing there.                            *)
THEOREM BridgeLifeHolds == Spec => ImplementsBridgeLife
<1>1. Init => AsBridge!Init
  BY DEF Init, NewCore, IsInState, BridgePhase, BridgeHolds, AsBridge!Init
<1>2. Inv /\ Inv' /\ [Next]_vars => [AsBridge!Next]_(AsBridge!lives)
  BY LifeRefined
<1> QED
  BY <1>1, <1>2, Invariant, PTL DEF Spec, ImplementsBridgeLife, AsBridge!Spec

-----------------------------------------------------------------------------
(* The report *)

(* What every loaded field of a profile is known to be behind. *)
ProfileOK ==
    /\ ReportTypeOK
    /\ profile.mRecvTcp <= mRecvTcp /\ profile.mSendTcp <= mSendTcp
    /\ profile.mRecvGns <= mRecvGns /\ profile.mSendGns <= mSendGns
    /\ reportPc = "loadSendGns" \/ Loaded => profile.mSendTcp <= profile.mRecvGns

(* No counter runs ahead of what it counts, nor a sent one of a received.    *)
LEMMA CountersAreBehind ==
    ASSUME Inv
    PROVE  /\ CountersTrail
           /\ mRecvTcp \in Nat /\ mSendGns \in Nat /\ mRecvGns \in Nat /\ mSendTcp \in Nat
           /\ Len(tcpTaken) \in Nat /\ Len(gnsTaken) \in Nat
           /\ mRecvTcp <= Len(tcpTaken) /\ mSendGns <= Len(tcpTaken)
           /\ mRecvGns <= Len(gnsTaken) /\ mSendTcp <= mRecvGns
<1>1. /\ Len(tcpTaken) = Len(gnsGiven) + Len(msgtcp2gns)
      /\ Len(tcpTaken) \in Nat /\ Len(gnsGiven) \in Nat /\ Len(msgtcp2gns) \in Nat
  BY RelayMeans DEF Inv, ToGns
<1>2. /\ Len(gnsTaken) = Len(tcpGiven) + Len(msggns2tcp)
      /\ Len(gnsTaken) \in Nat /\ Len(tcpGiven) \in Nat /\ Len(msggns2tcp) \in Nat
  BY RelayMeans DEF Inv, ToTcp
<1>3. mRecvTcp \in Nat /\ mSendGns \in Nat /\ mRecvGns \in Nat /\ mSendTcp \in Nat
  BY Zenon DEF Inv, CountersOK, CountedToGns, CountedToTcp
<1>4. mRecvTcp <= Len(tcpTaken) /\ mSendGns <= Len(gnsGiven)
  BY <1>1, <1>3 DEF Inv, CountersOK, CountedToGns
<1>5. mRecvGns <= Len(gnsTaken) /\ mSendTcp <= mRecvGns
  BY <1>2, <1>3 DEF Inv, CountersOK, CountedToTcp
<1>6. mSendTcp <= Len(tcpGiven)
  BY <1>2, <1>3 DEF Inv, CountersOK, CountedToTcp
<1>7. CountersTrail
  BY <1>4, <1>5, <1>6, Zenon DEF Inv, CountersOK, CountedToGns, CountedToTcp, CountersTrail
<1> QED
  BY <1>1, <1>2, <1>3, <1>4, <1>5, <1>7

(* No counter is ever ahead, and each is behind only until its fetch_add,    *)
(* for any number of messages.                                               *)
THEOREM CountersTrailHolds == Spec => []CountersTrail
<1>1. Inv => CountersTrail
  BY CountersAreBehind
<1> QED
  BY <1>1, Invariant, PTL

(* A profile under way stays behind the counters, whoever moves.             *)
LEMMA ProfileStep ==
    ASSUME ProfileOK, Inv, [ReportNext]_<<vars, report>>
    PROVE  ProfileOK'
<1> USE DEF ProfileOK, ReportTypeOK, Loaded, report
<1>1. /\ mRecvTcp \in Nat /\ mSendGns \in Nat /\ mRecvGns \in Nat /\ mSendTcp \in Nat
      /\ mSendTcp <= mRecvGns
  BY CountersAreBehind
<1>2. CASE Next /\ UNCHANGED report
  <2>1. /\ CountedToGns' /\ mRecvTcp <= mRecvTcp' /\ mSendGns <= mSendGns'
        /\ CountedToTcp' /\ mRecvGns <= mRecvGns' /\ mSendTcp <= mSendTcp'
    <3>1. OwnedOK /\ ToGns /\ ToGns' /\ ToTcp /\ ToTcp'
      BY <1>2, ToGnsStep, ToTcpStep DEF Inv
    <3> QED
      BY <1>2, <3>1, CountedToGnsStep, CountedToTcpStep DEF Inv, CountersOK
  <2>2. mRecvTcp' \in Nat /\ mSendGns' \in Nat /\ mRecvGns' \in Nat /\ mSendTcp' \in Nat
    BY <2>1 DEF CountedToGns, CountedToTcp
  <2> QED
    BY <1>1, <1>2, <2>1, <2>2
<1>3. UNCHANGED vars => UNCHANGED <<mRecvTcp, mSendGns, mRecvGns, mSendTcp>>
  BY Zenon DEF vars, relay, counters
<1>4. CASE LoadRecvTcp
  BY <1>1, <1>3, <1>4 DEF LoadRecvTcp, Load
<1>5. CASE LoadSendTcp
  BY <1>1, <1>3, <1>5 DEF LoadSendTcp, Load
<1>6. CASE LoadRecvGns
  BY <1>1, <1>3, <1>6 DEF LoadRecvGns, Load
<1>7. CASE LoadSendGns
  BY <1>1, <1>3, <1>7 DEF LoadSendGns, Load
<1>8. CASE TestTcp \/ UseTcp
  BY <1>1, <1>3, <1>8 DEF TestTcp, UseTcp
<1>9. CASE TestGns \/ UseGns
  BY <1>1, <1>3, <1>9 DEF TestGns, UseGns, Done, NoProfile
<1>10. CASE UNCHANGED <<vars, report>>
  BY <1>3, <1>10
<1> QED
  BY <1>2, <1>4, <1>5, <1>6, <1>7, <1>8, <1>9, <1>10 DEF ReportNext, ReportStep

(* What a profile shows as sent to the TCP side it shows as received from    *)
(* the other, and what it shows had been taken by then, although the four    *)
(* counters are read one by one while CtxWorker adds to them.                *)
THEOREM ProfileIsPlausibleHolds == ReportSpec => []ProfileIsPlausible
<1>1. ReportInit => Init /\ ProfileOK
  BY DEF ReportInit, Init, ProfileOK, ReportTypeOK, NoProfile, Loaded
<1>2. [ReportNext]_<<vars, report>> => [Next]_vars
  BY Zenon DEF ReportNext, ReportStep, LoadRecvTcp, LoadSendTcp, LoadRecvGns,
     LoadSendGns, Load, TestTcp, UseTcp, TestGns, UseGns
<1>3. ReportSpec => []Inv
  BY <1>1, <1>2, Invariant, PTL DEF ReportSpec, Spec
<1>4. ProfileOK /\ Inv /\ [ReportNext]_<<vars, report>> => ProfileOK'
  BY ProfileStep
<1>5. ProfileOK /\ Inv => ProfileIsPlausible
  <2>1. ASSUME ProfileOK, Inv
        PROVE  ProfileIsPlausible
    <3>1. /\ profile.mRecvTcp \in Nat /\ profile.mSendTcp \in Nat
          /\ profile.mRecvGns \in Nat /\ profile.mSendGns \in Nat
      BY <2>1 DEF ProfileOK, ReportTypeOK
    <3> QED
      BY <2>1, <3>1, CountersAreBehind DEF ProfileOK, ProfileIsPlausible
  <2> QED
    BY <2>1
<1> QED
  BY <1>1, <1>3, <1>4, <1>5, PTL DEF ReportSpec

=============================================================================
