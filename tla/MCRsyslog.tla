------------------------------ MODULE MCRsyslog ------------------------------
(***************************************************************************)
(* The log loop with a small site, for TLC.                                *)
(***************************************************************************)
EXTENDS Rsyslog, TLC

CONSTANTS i1, i2, page, other, foreign

NoBag == [u \in URI |-> 0]
NoGroup == << >>
NoFolders == [u \in URI |-> << >>]
NoEdges == [e \in {} |-> 0]
NoSubUri == [u \in URI |-> u]
NoEmbed == [u \in URI |-> NoBag]
UnitCost == [u \in URI |-> 1]
Window == << 2 >>
Count == << 2 >>
Cost == << 9 >>
Thresh == << 100 >>
=============================================================================
