----------------------------- MODULE MCLifecycle -----------------------------
(***************************************************************************)
(* FRADE or dyn4 started twice against one attacker, for TLC.              *)
(***************************************************************************)
EXTENDS Lifecycle

OneOfBoth == {{"frade"}, {"dyn4"}}
Lengths == << 1, 2 >>
Counts == << 2, 3 >>
GoodAndBad == {<< 7, 200 >>, << 6, 301 >>}
=============================================================================
