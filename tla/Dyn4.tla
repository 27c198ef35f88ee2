-------------------------------- MODULE Dyn4 --------------------------------
(***************************************************************************)
(* The connection counter (FRADE/dyn4/dyn4.py).  It counts the connection  *)
(* requests of an address in windows of several sizes; a request from a    *)
(* port it has seen before is a retransmission and is not counted, however *)
(* long ago that was.  A sniffer's record of an address is                 *)
(*   starts, counts   of each window; and the ports seen.                  *)
(***************************************************************************)
EXTENDS Integers, Sequences, FiniteSets

CONSTANTS
    winSizes,     \* the lengths of the windows
    thresholds,   \* the count at which a window convicts
    NoData        \* the record of an address that was never seen

Windows == DOMAIN winSizes

Data == [starts : [Windows -> Nat], counts : [Windows -> Nat], ports : SUBSET Nat]

ASSUME Dyn4Assumption ==
    /\ Len(thresholds) = Len(winSizes)
    /\ \A w \in Windows : winSizes[w] \in Nat \ {0} /\ thresholds[w] \in Nat \ {0, 1}
    /\ NoData \notin Data

\* The first request of an address starts its windows and is not compared.
FirstSeen(time, port) ==
    [ starts |-> [w \in Windows |-> time], counts |-> [w \in Windows |-> 1], ports |-> {port} ]

\* Mutant: a window is one second too long.
RollsOverLate(d, time) == {w \in Windows : time - d.starts[w] > winSizes[w]}

RollsOver(d, time) == {w \in Windows : time - d.starts[w] >= winSizes[w]}

\* A window that rolls over starts with this request.
Counted(d, time, port) ==
    [ starts |-> [w \in Windows |-> IF w \in RollsOver(d, time) THEN time ELSE d.starts[w]],
      counts |-> [w \in Windows |-> IF w \in RollsOver(d, time) THEN 1 ELSE d.counts[w] + 1],
      ports |-> d.ports \cup {port} ]

dyn4(d, time, port) ==
    IF d = NoData THEN FirstSeen(time, port)
    ELSE IF port \in d.ports THEN d
    ELSE Counted(d, time, port)

\* The windows whose count is compared with their threshold.
Compared(d, time, port) ==
    IF d = NoData \/ port \in d.ports THEN {} ELSE Windows \ RollsOver(d, time)

Convicts(d, time, port) ==
    \E w \in Compared(d, time, port) : Counted(d, time, port).counts[w] >= thresholds[w]
=============================================================================
