---------------------------- MODULE BridgeReport ----------------------------
(***************************************************************************)
(* BridgeInstance::ReportStatus, which the main thread runs at any time    *)
(* beside the threads of the bridge: it loads the four counters one after  *)
(* the other, and then looks at each of the two instances through a        *)
(* pointer that it tests first.  The states that it copies are only shown  *)
(* and are left out.                                                       *)
(***************************************************************************)
EXTENDS BridgeInstance

VARIABLES reportPc,
          profile  \* the counters of the BridgeInstanceProfile under way

report == <<reportPc, profile>>

NoProfile == [mRecvTcp |-> 0, mSendTcp |-> 0, mRecvGns |-> 0, mSendGns |-> 0]

ReportTypeOK ==
    /\ reportPc \in {"idle", "loadSendTcp", "loadRecvGns", "loadSendGns",
                    "testTcp", "useTcp", "testGns", "useGns"}
    /\ profile \in [{"mRecvTcp", "mSendTcp", "mRecvGns", "mSendGns"} -> Nat]

ReportInit == Init /\ reportPc = "idle" /\ profile = NoProfile

\* profile.m... = m....load(): one counter, at one moment.
Load(from, to, field, value) ==
    /\ reportPc = from /\ reportPc' = to
    /\ profile' = [profile EXCEPT ![field] = value]
    /\ UNCHANGED vars

LoadRecvTcp == Load("idle", "loadSendTcp", "mRecvTcp", mRecvTcp)
LoadSendTcp == Load("loadSendTcp", "loadRecvGns", "mSendTcp", mSendTcp)
LoadRecvGns == Load("loadRecvGns", "loadSendGns", "mRecvGns", mRecvGns)
LoadSendGns == Load("loadSendGns", "testTcp", "mSendGns", mSendGns)

\* mTcpInstance != nullptr, and then, if so, what it points to.
TestTcp ==
    /\ reportPc = "testTcp"
    /\ reportPc' = IF mTcpInstance = "null" THEN "testGns" ELSE "useTcp"
    /\ UNCHANGED <<profile, vars>>

UseTcp ==
    /\ reportPc = "useTcp" /\ reportPc' = "testGns"
    /\ UNCHANGED <<profile, vars>>

\* The profile is handed over where the report ends.
Done == reportPc' = "idle" /\ profile' = NoProfile

TestGns ==
    /\ reportPc = "testGns"
    /\ \/ mGnsInstance = "null" /\ Done
       \/ mGnsInstance # "null" /\ reportPc' = "useGns" /\ UNCHANGED profile
    /\ UNCHANGED vars

UseGns ==
    /\ reportPc = "useGns" /\ Done
    /\ UNCHANGED vars

ReportStep == LoadRecvTcp \/ LoadSendTcp \/ LoadRecvGns \/ LoadSendGns
              \/ TestTcp \/ UseTcp \/ TestGns \/ UseGns

ReportNext == ReportStep \/ (Next /\ UNCHANGED report)

ReportSpec == ReportInit /\ [][ReportNext]_<<vars, report>>

-----------------------------------------------------------------------------
\* All four counters have been loaded.
Loaded == reportPc \in {"testTcp", "useTcp", "testGns", "useGns"}

(* No profile shows a message as passed on before one shows it received: on  *)
(* the way to TCP the loads go against the flow, so what it shows as sent it *)
(* shows as received; on the way to GNS they go with it, and what it shows   *)
(* as sent had at least been taken by then.  CtxWorker adds to a counter     *)
(* some time after the Recv or Send, while the report loads the next.        *)
ProfileIsPlausible ==
    Loaded =>
        /\ profile.mSendTcp <= profile.mRecvGns
        /\ profile.mSendGns <= Len(tcpTaken) /\ profile.mRecvTcp <= Len(tcpTaken)
        /\ profile.mRecvGns <= Len(gnsTaken)

(* README.md:17, "You can press `p` on keyboard directly to show all         *)
(* profiles of running connections": the report looks at an instance only    *)
(* while the bridge has it.                                                  *)
ReportUsesOwnInstances ==
    /\ reportPc = "useTcp" => mTcpInstance = "instance"
    /\ reportPc = "useGns" => mGnsInstance = "instance"

=============================================================================
