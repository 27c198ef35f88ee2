----------------------------- MODULE Mitigation -----------------------------
(***************************************************************************)
(* What FRADE promises, whatever its parts: an address is dropped by the   *)
(* firewall only after it was convicted, it is dropped for good, and every *)
(* convicted address is dropped in the end.                                *)
(***************************************************************************)
CONSTANT IP

VARIABLES
    convicted,  \* the addresses some detector has found guilty
    dropped     \* the addresses the firewall drops

vars == << convicted, dropped >>

Init == convicted = {} /\ dropped = {}

Convict(ip) ==
    /\ convicted' = convicted \cup {ip}
    /\ UNCHANGED dropped

\* The firewall is given a batch of addresses at a time.
Drop(S) ==
    /\ S \subseteq convicted
    /\ dropped' = dropped \cup S
    /\ UNCHANGED convicted

Next ==
    \/ \E ip \in IP : Convict(ip)
    \/ \E S \in SUBSET IP : Drop(S)

DropOf(ip) == \E S \in SUBSET IP : ip \in S /\ Drop(S)

Spec == Init /\ [][Next]_vars /\ \A ip \in IP : WF_vars(DropOf(ip))
=============================================================================
