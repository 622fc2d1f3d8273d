------------------------------ MODULE Endpoint ------------------------------
(***************************************************************************)
(* What a TcpInstance or a GnsInstance promises the BridgeInstance that    *)
(* owns it: two one-way streams, one from the network to the owner, one    *)
(* back, which keep the order, duplicate nothing and lose messages only at *)
(* the end; and, once it is stopped, silence on the network.               *)
(***************************************************************************)
EXTENDS Sequences, Naturals

CONSTANTS Message,
          Batch     \* the lists of messages one Send() may hand over

VARIABLES arrived,  \* read from the network
          taken,    \* of these, what Recv() gave to the owner
          given,    \* what the owner passed to Send()
          sent,     \* of these, what was written to the network
          stopped

vars == <<arrived, taken, given, sent, stopped>>

Init ==
    /\ arrived = <<>> /\ taken = <<>> /\ given = <<>> /\ sent = <<>>
    /\ stopped = FALSE

\* The next message comes in.
Arrive(m) ==
    /\ ~stopped
    /\ arrived' = Append(arrived, m)
    /\ UNCHANGED <<taken, given, sent, stopped>>

\* Recv() gives the owner what has arrived, as far as it is ready.
Take ==
    /\ \E n \in Len(taken)..Len(arrived) : taken' = SubSeq(arrived, 1, n)
    /\ UNCHANGED <<arrived, given, sent, stopped>>

\* Send() accepts a list.
Give(list) ==
    /\ given' = given \o list
    /\ UNCHANGED <<arrived, taken, sent, stopped>>

Transmit ==
    /\ ~stopped
    /\ \E n \in Len(sent)..Len(given) : sent' = SubSeq(given, 1, n)
    /\ UNCHANGED <<arrived, taken, given, stopped>>

Stop ==
    /\ stopped' = TRUE
    /\ UNCHANGED <<arrived, taken, given, sent>>

Next ==
    \/ \E m \in Message : Arrive(m)
    \/ Take
    \/ \E list \in Batch : Give(list)
    \/ Transmit
    \/ Stop

Spec == Init /\ [][Next]_vars
=============================================================================
