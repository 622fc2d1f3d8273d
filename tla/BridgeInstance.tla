--------------------------- MODULE BridgeInstance ---------------------------
(***************************************************************************)
(* One BridgeInstance between its TcpInstance and its GnsInstance.  The    *)
(* bridge is modelled in full: the thread of its constructor, which waits  *)
(* for the URL, the thread of its granted Stop(), and CtxWorker, which     *)
(* relays.  The two instances are what Endpoint and Lifecycle promise of   *)
(* them, so that a message list is a sequence and a stop takes its time.   *)
(***************************************************************************)
EXTENDS StateMachine, Sequences, Naturals

CONSTANTS MaxTcp, MaxGns  \* bounds: messages that arrive at either end

ASSUME BoundsAssumption == MaxTcp \in Nat /\ MaxGns \in Nat

VARIABLES core, stopOrdered, initPc,
          teardownPc,    \* InternalStop, run by whichever transition works
          ctxPc, ctxStop,  \* mTdCtx
          urlOrdered,    \* the peer has sent its command message
          mTcpInstance, mGnsInstance,  \* "instance" or "null"
          returned,      \* history: the calls of ReturnConnections
          msgtcp2gns, msggns2tcp,  \* the lists of CtxWorker
          count,         \* its local: the size of a list before a Recv or Send
          mRecvTcp, mSendGns, mRecvGns, mSendTcp,
          tcpPhase, tcpStop, tcpArrived, tcpTaken, tcpGiven, tcpSent,
          gnsPhase, gnsStop, gnsArrived, gnsTaken, gnsGiven, gnsSent

Message == 1..(MaxTcp + MaxGns)

Tcp == INSTANCE Endpoint WITH stopped <- tcpPhase = "Stopped", Batch <- {},
    arrived <- tcpArrived, taken <- tcpTaken, given <- tcpGiven, sent <- tcpSent
Gns == INSTANCE Endpoint WITH stopped <- gnsPhase = "Stopped", Batch <- {},
    arrived <- gnsArrived, taken <- gnsTaken, given <- gnsGiven, sent <- gnsSent
TcpLife == INSTANCE Lifecycle WITH phase <- tcpPhase
GnsLife == INSTANCE Lifecycle WITH phase <- gnsPhase

tcp == <<tcpPhase, tcpStop, tcpArrived, tcpTaken, tcpGiven, tcpSent>>
gns == <<gnsPhase, gnsStop, gnsArrived, gnsTaken, gnsGiven, gnsSent>>
tcpStream == <<tcpArrived, tcpTaken, tcpGiven, tcpSent>>
gnsStream == <<gnsArrived, gnsTaken, gnsGiven, gnsSent>>
life == <<core, stopOrdered, initPc, teardownPc>>
ctx == <<ctxPc, ctxStop>>
owned == <<mTcpInstance, mGnsInstance, returned>>
lists == <<msgtcp2gns, msggns2tcp>>
counters == <<mRecvTcp, mSendGns, mRecvGns, mSendTcp>>
relay == <<lists, count, counters>>
vars == <<life, ctx, urlOrdered, owned, relay, tcp, gns>>

PhaseSet == {"Ready", "Initializing", "Running", "Stopping", "Stopped"}

TypeOK ==
    /\ core \in StateMachineCore
    /\ {stopOrdered, ctxStop, urlOrdered, tcpStop, gnsStop} \subseteq BOOLEAN
    /\ initPc \in {"spawned", "waiting", "failing", "startCtx", "end", "done"}
    /\ teardownPc \in {"none", "joinCtx", "tcp", "waitTcp", "gns", "waitGns", "end", "done"}
    /\ ctxPc \in {"none", "top", "check", "recvTcp", "sendGns", "recvGns", "sendTcp",
                 "countRecvTcp", "countSendGns", "countRecvGns", "countSendTcp", "exited"}
    /\ count \in Nat
    /\ {mTcpInstance, mGnsInstance} \subseteq {"instance", "null"}
    /\ tcpPhase \in PhaseSet /\ gnsPhase \in PhaseSet \cup {"none"}
    /\ {mRecvTcp, mSendGns, mRecvGns, mSendTcp} \subseteq Nat
    /\ {msgtcp2gns, tcpArrived, tcpTaken, gnsGiven, gnsSent} \subseteq Seq(1..MaxTcp)
    /\ {msggns2tcp, gnsArrived, gnsTaken, tcpGiven, tcpSent} \subseteq Seq(1..MaxGns)

Init ==
    /\ core = NewCore /\ stopOrdered = FALSE
    /\ initPc = "spawned" /\ teardownPc = "none"
    /\ ctxPc = "none" /\ ctxStop = FALSE
    /\ urlOrdered = FALSE
    /\ mTcpInstance = "instance" /\ mGnsInstance = "null" /\ returned = <<>>
    /\ msgtcp2gns = <<>> /\ msggns2tcp = <<>> /\ count = 0
    /\ mRecvTcp = 0 /\ mSendGns = 0 /\ mRecvGns = 0 /\ mSendTcp = 0
    /\ TcpLife!Init /\ Tcp!Init /\ tcpStop = FALSE
    /\ gnsPhase = "none" /\ Gns!Init /\ gnsStop = FALSE

-----------------------------------------------------------------------------
(* The constructor's thread *)

InitBegin ==
    /\ initPc = "spawned" /\ MayDecide(core)
    /\ IF MayInitialize(core)
       THEN initPc' = "waiting" /\ core' = BeginInitializing(core)
       ELSE initPc' = "done" /\ UNCHANGED core
    /\ UNCHANGED <<stopOrdered, teardownPc, ctx, urlOrdered, owned, relay, tcp, gns>>

\* The TCP side has stopped, or MODULE_WAITING_INTERVAL is over: InternalStop.
InitFail ==
    /\ initPc = "waiting" /\ initPc' = "failing"
    /\ tcpPhase = "Stopped" \/ ~(urlOrdered /\ tcpPhase = "Running")
    /\ teardownPc' = "joinCtx"
    /\ ctxStop' = (ctxPc # "none")
    /\ UNCHANGED <<core, stopOrdered, ctxPc, urlOrdered, owned, relay, tcp, gns>>

\* GetOrderedUrl, which is empty unless the instance runs, gave the URL.
InitCreateGns ==
    /\ initPc = "waiting" /\ initPc' = "startCtx"
    /\ urlOrdered /\ tcpPhase = "Running"
    /\ mGnsInstance' = "instance"
    /\ gnsPhase' = "Ready"
    /\ UNCHANGED <<core, stopOrdered, teardownPc, ctx, urlOrdered, mTcpInstance,
                   returned, relay, tcp, gnsStop, gnsStream>>

InitStartCtx ==
    /\ initPc = "startCtx" /\ initPc' = "end"
    /\ ctxPc' = "top"
    /\ UNCHANGED <<core, stopOrdered, teardownPc, ctxStop, urlOrdered, owned, relay,
                   tcp, gns>>

InitEnd ==
    /\ initPc = "end" /\ initPc' = "done"
    /\ core' = EndInitializing(core, FALSE)
    /\ UNCHANGED <<stopOrdered, teardownPc, ctx, urlOrdered, owned, relay, tcp, gns>>

InitStep == InitBegin \/ InitFail \/ InitCreateGns \/ InitStartCtx \/ InitEnd

-----------------------------------------------------------------------------
(* Stop() and InternalStop() *)

OrderStop ==
    /\ ~stopOrdered /\ stopOrdered' = TRUE
    /\ UNCHANGED <<core, initPc, teardownPc, ctx, urlOrdered, owned, relay, tcp, gns>>

StopBegin ==
    /\ stopOrdered /\ teardownPc = "none" /\ teardownPc' = "joinCtx"
    /\ MayDecide(core) /\ MayStop(core)
    /\ core' = BeginStopping(core)
    /\ ctxStop' = (ctxPc # "none")
    /\ UNCHANGED <<stopOrdered, initPc, ctxPc, urlOrdered, owned, relay, tcp, gns>>

\* Slip: CtxWorker is asked to stop and not joined.
JoinCtxNot ==
    /\ teardownPc = "joinCtx" /\ teardownPc' = "tcp"
    /\ UNCHANGED <<core, stopOrdered, initPc, ctx, urlOrdered, owned, relay, tcp, gns>>

JoinCtx ==
    /\ teardownPc = "joinCtx" /\ teardownPc' = "tcp"
    /\ ctxPc \in {"none", "exited"}
    /\ UNCHANGED <<core, stopOrdered, initPc, ctx, urlOrdered, owned, relay, tcp, gns>>

StopTcp ==
    /\ teardownPc = "tcp" /\ teardownPc' = "waitTcp"
    /\ tcpStop' = TRUE
    /\ UNCHANGED <<core, stopOrdered, initPc, ctx, urlOrdered, owned, relay,
                   tcpPhase, tcpStream, gns>>

\* Slip: the GNS instance, which came later, is forgotten.
ReturnTcpOnly ==
    /\ teardownPc = "waitTcp" /\ tcpPhase = "Stopped"
    /\ teardownPc' = "end"
    /\ returned' = Append(returned, "tcp")
    /\ mTcpInstance' = "null"
    /\ UNCHANGED <<core, stopOrdered, initPc, ctx, urlOrdered, mGnsInstance, relay,
                   tcp, gns>>

\* SpinUntil(Stopped), ReturnConnections, and the pointer is cleared.
ReturnTcp ==
    /\ teardownPc = "waitTcp" /\ tcpPhase = "Stopped"
    /\ teardownPc' = IF mGnsInstance = "null" THEN "end" ELSE "gns"
    /\ returned' = Append(returned, "tcp")
    /\ mTcpInstance' = "null"
    /\ UNCHANGED <<core, stopOrdered, initPc, ctx, urlOrdered, mGnsInstance, relay,
                   tcp, gns>>

StopGns ==
    /\ teardownPc = "gns" /\ teardownPc' = "waitGns"
    /\ gnsStop' = TRUE
    /\ UNCHANGED <<core, stopOrdered, initPc, ctx, urlOrdered, owned, relay,
                   gnsPhase, gnsStream, tcp>>

\* Slip: the instance is returned while it still stops.
ReturnGnsEarly ==
    /\ teardownPc = "waitGns" /\ teardownPc' = "end"
    /\ returned' = Append(returned, "gns")
    /\ mGnsInstance' = "null"
    /\ UNCHANGED <<core, stopOrdered, initPc, ctx, urlOrdered, mTcpInstance, relay,
                   tcp, gns>>

ReturnGns ==
    /\ teardownPc = "waitGns" /\ gnsPhase = "Stopped" /\ teardownPc' = "end"
    /\ returned' = Append(returned, "gns")
    /\ mGnsInstance' = "null"
    /\ UNCHANGED <<core, stopOrdered, initPc, ctx, urlOrdered, mTcpInstance, relay,
                   tcp, gns>>

\* The transition that ran InternalStop ends.
TeardownEnd ==
    /\ teardownPc = "end" /\ teardownPc' = "done"
    /\ \/ initPc = "failing" /\ initPc' = "done" /\ core' = EndInitializing(core, TRUE)
       \/ initPc # "failing" /\ core' = EndStopping(core) /\ UNCHANGED initPc
    /\ UNCHANGED <<stopOrdered, ctx, urlOrdered, owned, relay, tcp, gns>>

StopStep == StopBegin \/ JoinCtx \/ StopTcp \/ ReturnTcp \/ StopGns \/ ReturnGns
            \/ TeardownEnd

-----------------------------------------------------------------------------
(* CtxWorker *)

CtxTop ==
    /\ ctxPc = "top"
    /\ \/ ctxStop /\ ctxPc' = "exited"
       \/ ~ctxStop /\ IsInState(core, "Running") /\ ctxPc' = "check"
    /\ UNCHANGED <<life, ctxStop, urlOrdered, owned, relay, tcp, gns>>

\* Slip: only the GNS side is looked at.
CtxCheckGns ==
    /\ ctxPc = "check"
    /\ IF gnsPhase = "Stopped"
       THEN ctxPc' = "exited" /\ stopOrdered' = TRUE
       ELSE ctxPc' = "recvTcp" /\ UNCHANGED stopOrdered
    /\ UNCHANGED <<core, initPc, teardownPc, ctxStop, urlOrdered, owned, relay, tcp, gns>>

\* Either side stopped: this->Stop(); return;
CtxCheck ==
    /\ ctxPc = "check"
    /\ IF "Stopped" \in {gnsPhase, tcpPhase}
       THEN ctxPc' = "exited" /\ stopOrdered' = TRUE
       ELSE ctxPc' = "recvTcp" /\ UNCHANGED stopOrdered
    /\ UNCHANGED <<core, initPc, teardownPc, ctxStop, urlOrdered, owned, relay, tcp, gns>>

\* The messages that a Recv() has just added to taken.
News(before, after) == SubSeq(after, Len(before) + 1, Len(after))

\* Send and Recv of an instance begin with if (!IsInState(Running)) return; the
\* test may have passed just before the instance began to stop.
Serves(phase) == phase \in {"Running", "Stopping", "Stopped"}
Declines(phase) == phase # "Running"

RecvTcp ==
    /\ ctxPc = "recvTcp" /\ ctxPc' = "countRecvTcp"
    /\ UNCHANGED tcpPhase
    /\ \/ Serves(tcpPhase) /\ Tcp!Take
       \/ Declines(tcpPhase) /\ UNCHANGED tcpStream
    /\ count' = Len(msgtcp2gns)
    /\ msgtcp2gns' = msgtcp2gns \o News(tcpTaken, tcpTaken')
    /\ UNCHANGED <<life, ctxStop, urlOrdered, owned, msggns2tcp, counters, tcpStop, gns>>

\* Slip: the list is cleared although a side that is not running took nothing.
SendGnsClear ==
    /\ ctxPc = "sendGns" /\ ctxPc' = "countSendGns"
    /\ UNCHANGED gnsPhase
    /\ \/ Serves(gnsPhase) /\ Gns!Give(msgtcp2gns)
       \/ Declines(gnsPhase) /\ UNCHANGED gnsStream
    /\ count' = Len(msgtcp2gns)
    /\ msgtcp2gns' = <<>>
    /\ UNCHANGED <<life, ctxStop, urlOrdered, owned, msggns2tcp, counters, gnsStop, tcp>>

SendGns ==
    /\ ctxPc = "sendGns" /\ ctxPc' = "countSendGns"
    /\ UNCHANGED gnsPhase
    /\ \/ Serves(gnsPhase) /\ Gns!Give(msgtcp2gns) /\ msgtcp2gns' = <<>>
       \/ Declines(gnsPhase) /\ UNCHANGED <<gnsStream, msgtcp2gns>>
    /\ count' = Len(msgtcp2gns)
    /\ UNCHANGED <<life, ctxStop, urlOrdered, owned, msggns2tcp, counters, gnsStop, tcp>>

RecvGns ==
    /\ ctxPc = "recvGns" /\ ctxPc' = "countRecvGns"
    /\ UNCHANGED gnsPhase
    /\ \/ Serves(gnsPhase) /\ Gns!Take
       \/ Declines(gnsPhase) /\ UNCHANGED gnsStream
    /\ count' = Len(msggns2tcp)
    /\ msggns2tcp' = msggns2tcp \o News(gnsTaken, gnsTaken')
    /\ UNCHANGED <<life, ctxStop, urlOrdered, owned, msgtcp2gns, counters, gnsStop, tcp>>

SendTcp ==
    /\ ctxPc = "sendTcp" /\ ctxPc' = "countSendTcp"
    /\ UNCHANGED tcpPhase
    /\ \/ Serves(tcpPhase) /\ Tcp!Give(msggns2tcp) /\ msggns2tcp' = <<>>
       \/ Declines(tcpPhase) /\ UNCHANGED <<tcpStream, msggns2tcp>>
    /\ count' = Len(msggns2tcp)
    /\ UNCHANGED <<life, ctxStop, urlOrdered, owned, msgtcp2gns, counters, tcpStop, gns>>

\* What a fetch_add leaves alone.  count is dead until the next Recv or Send.
Counts(from, to) ==
    /\ ctxPc = from /\ ctxPc' = to /\ count' = 0
    /\ UNCHANGED <<life, ctxStop, urlOrdered, owned, lists, tcp, gns>>

CountRecvTcp ==
    /\ Counts("countRecvTcp", "sendGns")
    /\ mRecvTcp' = mRecvTcp + (Len(msgtcp2gns) - count)
    /\ UNCHANGED <<mSendGns, mRecvGns, mSendTcp>>

CountSendGns ==
    /\ Counts("countSendGns", "recvGns")
    /\ mSendGns' = mSendGns + (count - Len(msgtcp2gns))
    /\ UNCHANGED <<mRecvTcp, mRecvGns, mSendTcp>>

CountRecvGns ==
    /\ Counts("countRecvGns", "sendTcp")
    /\ mRecvGns' = mRecvGns + (Len(msggns2tcp) - count)
    /\ UNCHANGED <<mRecvTcp, mSendGns, mSendTcp>>

\* Slip: the whole list is counted, also when it was not accepted.
CountSendTcpAll ==
    /\ Counts("countSendTcp", "top")
    /\ mSendTcp' = mSendTcp + count
    /\ UNCHANGED <<mRecvTcp, mSendGns, mRecvGns>>

CountSendTcp ==
    /\ Counts("countSendTcp", "top")
    /\ mSendTcp' = mSendTcp + (count - Len(msggns2tcp))
    /\ UNCHANGED <<mRecvTcp, mSendGns, mRecvGns>>

CountStep == CountRecvTcp \/ CountSendGns \/ CountRecvGns \/ CountSendTcp

CtxStep == CtxTop \/ CtxCheck \/ RecvTcp \/ SendGns \/ RecvGns \/ SendTcp \/ CountStep

-----------------------------------------------------------------------------
(* The two instances and the peers behind them *)

\* The peer's command message has been read.
UrlArrives ==
    /\ ~urlOrdered /\ urlOrdered' = TRUE
    /\ tcpPhase # "Stopped"
    /\ UNCHANGED <<life, ctx, owned, relay, tcp, gns>>

TcpProgress ==
    /\ \/ TcpLife!BeginInitializing
       \/ TcpLife!EndInitializing
       \/ tcpStop /\ TcpLife!BeginStopping
       \/ TcpLife!EndStopping
    /\ UNCHANGED <<life, ctx, urlOrdered, owned, relay, tcpStop, tcpStream, gns>>

GnsProgress ==
    /\ \/ GnsLife!BeginInitializing
       \/ GnsLife!EndInitializing
       \/ gnsStop /\ GnsLife!BeginStopping
       \/ GnsLife!EndStopping
    /\ UNCHANGED <<life, ctx, urlOrdered, owned, relay, gnsStop, gnsStream, tcp>>

\* An instance stops itself: its connection is lost, or a queue is too long.
TcpCrash ==
    /\ ~tcpStop /\ tcpStop' = TRUE
    /\ UNCHANGED <<life, ctx, urlOrdered, owned, relay, tcpPhase, tcpStream, gns>>

GnsCrash ==
    /\ gnsPhase # "none" /\ ~gnsStop /\ gnsStop' = TRUE
    /\ UNCHANGED <<life, ctx, urlOrdered, owned, relay, gnsPhase, gnsStream, tcp>>

TcpTraffic ==
    /\ UNCHANGED tcpPhase
    /\ \/ Len(tcpArrived) < MaxTcp /\ Tcp!Arrive(Len(tcpArrived) + 1)
       \/ Tcp!Transmit
    /\ UNCHANGED <<life, ctx, urlOrdered, owned, relay, tcpStop, gns>>

GnsTraffic ==
    /\ gnsPhase # "none" /\ UNCHANGED gnsPhase
    /\ \/ Len(gnsArrived) < MaxGns /\ Gns!Arrive(Len(gnsArrived) + 1)
       \/ Gns!Transmit
    /\ UNCHANGED <<life, ctx, urlOrdered, owned, relay, gnsStop, tcp>>

Environment == UrlArrives \/ TcpCrash \/ GnsCrash \/ TcpTraffic \/ GnsTraffic

-----------------------------------------------------------------------------
Terminated ==
    /\ IsInState(core, "Stopped") /\ initPc = "done"
    /\ UNCHANGED vars

Next == InitStep \/ OrderStop \/ StopStep \/ CtxStep
        \/ TcpProgress \/ GnsProgress \/ Environment \/ Terminated

Spec == Init /\ [][Next]_vars

\* Threads run, the URL timeout among them; a transition of an instance ends,
\* and one that was told to stop does (TcpInstance and GnsInstance,
\* StopCompletes).  Peers need send nothing and nobody need stop anything.
Fairness ==
    /\ WF_vars(InitStep) /\ WF_vars(StopStep) /\ WF_vars(CtxStep)
    /\ WF_vars(TcpProgress) /\ WF_vars(GnsProgress)

FairSpec == Spec /\ Fairness

-----------------------------------------------------------------------------
IsPrefixOf(s, t) == Len(s) <= Len(t) /\ s = SubSeq(t, 1, Len(s))

(* End to end, what goes out on one side is a prefix of what came in on the  *)
(* other, in both directions: although the GNS side may start long after the *)
(* TCP side and either may refuse a list, nothing is lost in the middle,     *)
(* repeated or reordered.  On the GNS side what is sent is what the library  *)
(* was handed.                                                               *)
RelayInOrder == IsPrefixOf(gnsSent, tcpArrived) /\ IsPrefixOf(tcpSent, gnsArrived)

(* Whenever somebody looks at the profile, no counter is ahead of what it    *)
(* counts, although a list that is declined is offered again and again, and  *)
(* no more is shown as sent to TCP than as received from GNS.  A counter is  *)
(* behind only between a Recv or Send and the fetch_add that belongs to it.  *)
CountersTrail ==
    /\ mRecvTcp <= Len(tcpTaken) /\ mSendGns <= Len(gnsGiven)
    /\ mRecvGns <= Len(gnsTaken) /\ mSendTcp <= Len(tcpGiven)
    /\ mSendTcp <= mRecvGns
    /\ ctxPc # "countRecvTcp" => mRecvTcp = Len(tcpTaken)
    /\ ctxPc # "countSendGns" => mSendGns = Len(gnsGiven)
    /\ ctxPc # "countRecvGns" => mRecvGns = Len(gnsTaken)
    /\ ctxPc # "countSendTcp" => mSendTcp = Len(tcpGiven)

(* CtxWorker never touches an instance that went back to its factory, which  *)
(* deletes it.                                                               *)
CtxUsesOwnInstances ==
    ctxPc \in {"check", "recvTcp", "sendGns", "recvGns", "sendTcp"} =>
        mTcpInstance = "instance" /\ mGnsInstance = "instance"

(* A stopped bridge has returned both its instances, each of them once and   *)
(* each of them stopped, whether it failed to start or was stopped later.    *)
ReturnsEachStopped ==
    /\ \A k, l \in 1..Len(returned) : returned[k] = returned[l] => k = l
    /\ \A k \in 1..Len(returned) :
         IF returned[k] = "tcp" THEN tcpPhase = "Stopped" ELSE gnsPhase = "Stopped"
    /\ IsInState(core, "Stopped") =>
         /\ "tcp" \in {returned[k] : k \in 1..Len(returned)}
         /\ gnsPhase # "none" => "gns" \in {returned[k] : k \in 1..Len(returned)}

(* When either side stops, for whatever reason, the bridge follows.          *)
EitherSideStops ==
    /\ tcpPhase = "Stopped" ~> IsInState(core, "Stopped")
    /\ gnsPhase = "Stopped" ~> IsInState(core, "Stopped")

(* What BridgeFactory takes a bridge to be: the GNS instance is there from   *)
(* the URL on, nothing is returned before a teardown begins and nothing kept *)
(* at its end, and it begins only if no URL came or Stop() was called,       *)
(* whichever of the two transitions it runs in.                              *)
BridgePhase ==
    IF IsInState(core, "Stopped") THEN "stopped"
    ELSE IF teardownPc # "none" THEN "stopping"
    ELSE IF mGnsInstance = "instance" THEN "running" ELSE "starting"

BridgeHolds == {side \in {"tcp", "gns"} :
    \/ side = "tcp" /\ mTcpInstance = "instance"
    \/ side = "gns" /\ mGnsInstance = "instance"}

AsBridge == INSTANCE BridgeLife WITH
    Bridge <- {"this"},
    bridge <- [b \in {"this"} |-> BridgePhase],
    told <- {b \in {"this"} : stopOrdered},
    holds <- [b \in {"this"} |-> BridgeHolds]

ImplementsBridgeLife == AsBridge!Spec

(* A Stop() of the bridge ends in Stopped, even while its constructor's      *)
(* thread still waits for a URL that does not come.                          *)
StopCompletes == stopOrdered ~> IsInState(core, "Stopped")

(* Whatever should take a bridge down does: its owner or either side.        *)
ComesDown == EitherSideStops /\ StopCompletes

=============================================================================
