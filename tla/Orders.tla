------------------------------- MODULE Orders -------------------------------
(***************************************************************************)
(* What the scripts that start and stop a service may rely on: the orders  *)
(* the attack detector gives for it, whatever packets it sees.  It may     *)
(* start the service again while it runs, and it stops nothing that was    *)
(* not started since it stopped it the last time.  Every order changes a   *)
(* number, so that none of them can pass for a step without orders.        *)
(***************************************************************************)
EXTENDS Naturals

VARIABLES
    since,   \* the starts since the last stop
    stops    \* the stops since the last start

OrdersInit == since = 0 /\ stops = 0

Start == since' = since + 1 /\ stops' = 0

Stop == since > 0 /\ since' = 0 /\ stops' = stops + 1

OrdersSpec == OrdersInit /\ [][Start \/ Stop]_<< since, stops >>
=============================================================================
