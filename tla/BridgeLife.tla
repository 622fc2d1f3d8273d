----------------------------- MODULE BridgeLife -----------------------------
(***************************************************************************)
(* What a BridgeInstance promises its factory, without its threads, its    *)
(* state machine and its messages: it holds a TCP instance from the start, *)
(* and a GNS instance once it has got the URL; it comes down when it is    *)
(* told to, or when it gets no URL; it returns what it holds, the TCP      *)
(* instance first, before it says that it has stopped.  BridgeInstance     *)
(* implements this, and BridgeFactory is built on it.                      *)
(***************************************************************************)
CONSTANT Bridge

VARIABLES bridge,  \* where each bridge is in its life
          told,    \* bridges on which Stop() was called
          holds    \* instances each bridge has not returned

lives == <<bridge, told, holds>>

Init ==
    /\ bridge \in [Bridge -> {"none", "starting"}]
    /\ told = {}
    /\ holds = [b \in Bridge |-> IF bridge[b] = "none" THEN {} ELSE {"tcp"}]

Create(new) ==
    /\ \A b \in new : bridge[b] = "none"
    /\ bridge' = [b \in Bridge |-> IF b \in new THEN "starting" ELSE bridge[b]]
    /\ holds' = [b \in Bridge |-> IF b \in new THEN {"tcp"} ELSE holds[b]]
    /\ UNCHANGED told

\* Stop(), from whomever: it takes effect when its turn comes.
Tell(b) == told' = told \cup {b} /\ UNCHANGED <<bridge, holds>>

Connect(b) ==
    /\ bridge[b] = "starting" /\ bridge' = [bridge EXCEPT ![b] = "running"]
    /\ holds' = [holds EXCEPT ![b] = {"tcp", "gns"}]
    /\ UNCHANGED told

Stop(b) ==
    /\ bridge[b] = "starting" \/ (bridge[b] = "running" /\ b \in told)
    /\ bridge' = [bridge EXCEPT ![b] = "stopping"]
    /\ UNCHANGED <<told, holds>>

ReturnTcp(b) ==
    /\ bridge[b] = "stopping" /\ "tcp" \in holds[b]
    /\ holds' = [holds EXCEPT ![b] = @ \ {"tcp"}]
    /\ UNCHANGED <<bridge, told>>

ReturnGns(b) ==
    /\ bridge[b] = "stopping" /\ holds[b] = {"gns"}
    /\ holds' = [holds EXCEPT ![b] = {}]
    /\ UNCHANGED <<bridge, told>>

End(b) ==
    /\ bridge[b] = "stopping" /\ holds[b] = {}
    /\ bridge' = [bridge EXCEPT ![b] = "stopped"]
    /\ UNCHANGED <<told, holds>>

Delete(b) ==
    /\ bridge[b] = "stopped" /\ bridge' = [bridge EXCEPT ![b] = "deleted"]
    /\ UNCHANGED <<told, holds>>

Next ==
    \/ \E new \in SUBSET Bridge : Create(new)
    \/ \E b \in Bridge : \/ Tell(b) \/ Connect(b) \/ Stop(b) \/ ReturnTcp(b)
                         \/ ReturnGns(b) \/ End(b) \/ Delete(b)

Spec == Init /\ [][Next]_lives
=============================================================================
