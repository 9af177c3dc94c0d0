------------------------------ MODULE Admission ------------------------------
(***************************************************************************)
(* What admission control of guaranteed bandwidth promises: servers are    *)
(* granted a guarantee, or not, and the guarantees granted never add up to *)
(* more than the capacity left beside the spare.  There are no counters,   *)
(* rules, users or levels here; module Qsup implements this.               *)
(***************************************************************************)
EXTENDS Sums

CONSTANTS NumClients, Capacity

Clients == 1 .. NumClients

VARIABLES
    spare,     \* capacity withheld
    clients,   \* the clients that have been admitted
    granted    \* the guarantee of each client, 0 when not admitted

avars == <<spare, clients, granted>>

Granted == Total(granted, NumClients)

Init ==
    /\ spare = 0
    /\ clients = {}
    /\ granted = [c \in Clients |-> 0]

\* The spare is set while nobody is admitted.
Withhold(bw) ==
    /\ clients = {}
    /\ spare' = bw
    /\ UNCHANGED <<clients, granted>>

\* A client is admitted only if all guarantees still fit.
Admit(c, bw) ==
    /\ c \notin clients
    /\ Granted + bw <= Capacity - spare
    /\ clients' = clients \cup {c}
    /\ granted' = [granted EXCEPT ![c] = bw]
    /\ UNCHANGED spare

\* A client that leaves gives back all of its guarantee.
Release(c) ==
    /\ c \in clients
    /\ clients' = clients \ {c}
    /\ granted' = [granted EXCEPT ![c] = 0]
    /\ UNCHANGED spare

Next ==
    \/ \E bw \in 0 .. Capacity : Withhold(bw)
    \/ \E c \in Clients, bw \in 0 .. Capacity : Admit(c, bw)
    \/ \E c \in Clients : Release(c)

Spec == Init /\ [][Next]_avars
=============================================================================
