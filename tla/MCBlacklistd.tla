---------------------------- MODULE MCBlacklistd ----------------------------
(***************************************************************************)
(* Blacklistd with a few addresses, for TLC.                               *)
(***************************************************************************)
EXTENDS Blacklistd, TLC

CONSTANTS i1, i2, i3

Addresses == Permutations(IP)
=============================================================================
