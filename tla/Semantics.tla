------------------------------ MODULE Semantics ------------------------------
(***************************************************************************)
(* The semantics model of FRADE (FRADE/FRADE.cpp, FRADE/SemNode.cpp): a    *)
(* graph of pages with transition probabilities, and the walk a user takes *)
(* through it, one transition per main request.                            *)
(*                                                                         *)
(* A probability p is represented by its cost -log p: probability 1 costs  *)
(* 0, a product of probabilities is a sum of costs, "seqProb <= threshold" *)
(* is "cost >= threshold's cost", and "the largest probability" is "the    *)
(* smallest cost".  A name (of a file, a folder or a group) is a member of *)
(* URI; what the code finds out by cutting a string at its slashes is the  *)
(* constant Folders.                                                       *)
(***************************************************************************)
EXTENDS Integers, Sequences, FiniteSets

CONSTANTS
    URI,            \* names: requested files, folders, groups
    Wildcard,       \* the name "any" of the wildcard node
    NULL,           \* the null pointer
    Nodes,          \* the keys of semNodes
    EdgeCost,       \* [edges -> cost]: one entry per line of SEM_CONF_FILE
    Folders,        \* [URI -> Seq(URI)]: prefixes ending in "/", longest first
    Group,          \* the map groups, file -> its group; empty without GROUP_FILE
    NoFileCost,     \* -log NO_FILE_PROB
    SeqThreshCost,  \* -log seqThreshes, by sequence length
    SlotLength      \* slotlength, 5 in semantics()

ASSUME SemanticsAssumption ==
    /\ Wildcard \notin URI
    /\ NULL \notin URI \cup {Wildcard}
    /\ Nodes \subseteq URI \cup {Wildcard}
    /\ DOMAIN EdgeCost \subseteq Nodes \X Nodes
    /\ \A e \in DOMAIN EdgeCost : EdgeCost[e] \in Nat
    /\ Folders \in [URI -> Seq(URI)]
    /\ DOMAIN Group \subseteq URI
    /\ \A u \in DOMAIN Group : Group[u] \in URI
    /\ NoFileCost \in Nat
    /\ SeqThreshCost \in Seq(Nat)
    /\ Len(SeqThreshCost) >= 1
    /\ SlotLength \in Nat \ {0}

-----------------------------------------------------------------------------
(***************************************************************************)
(* The names a file may stand for in the graph: itself (rank 0), then its  *)
(* group when groups are configured, its folders, longest first, when they *)
(* are not.  Ranks(u) are those of them that are nodes; it is what the     *)
(* code collects in startList and endList.                                 *)
(***************************************************************************)
Fallback(u) ==
    IF DOMAIN Group = {} THEN Folders[u]
    ELSE IF u \in DOMAIN Group THEN << Group[u] >> ELSE << >>

Name(u, k) == IF k = 0 THEN u ELSE Fallback(u)[k]

Ranks(u) == {k \in 0 .. Len(Fallback(u)) : Name(u, k) \in Nodes}

\* At most one node: the one of the lowest rank.
ClosestNode(u) ==
    {Name(u, k) : k \in {r \in Ranks(u) : \A s \in Ranks(u) : r <= s}}

Outcome(cost, endNode, prevFile) ==
    [crash |-> FALSE, cost |-> cost, endNode |-> endNode, prevFile |-> prevFile]

Crash == [crash |-> TRUE, cost |-> 0, endNode |-> NULL, prevFile |-> NULL]

(***************************************************************************)
(* The transition from the node start to the file end, for a user whose    *)
(* saved pointers are endNode and prevFile.  After the wildcard edge is    *)
(* found the code looks up the exact edge again, which it has just failed  *)
(* to find: both pointers become null.  Pairs of names are tried in rank   *)
(* order and only a strictly larger probability replaces the best so far.  *)
(***************************************************************************)
Pairs(start, end) ==
    {p \in Ranks(start) \X Ranks(end) :
        << Name(start, p[1]), Name(end, p[2]) >> \in DOMAIN EdgeCost}

PairCost(start, end, p) == EdgeCost[<< Name(start, p[1]), Name(end, p[2]) >>]

Precedes(start, end, p, q) ==
    \/ PairCost(start, end, p) < PairCost(start, end, q)
    \/ /\ PairCost(start, end, p) = PairCost(start, end, q)
       /\ \/ p[1] < q[1]
          \/ p[1] = q[1] /\ p[2] <= q[2]

BestPair(start, end) ==
    {p \in Pairs(start, end) :
        \A q \in Pairs(start, end) : Precedes(start, end, p, q)}

\* Mutant: a page that is in the graph but not reached by an edge does not
\* become the node the next transition starts from.
TransitionKeepsNode(start, end, endNode, prevFile) ==
    IF << start, end >> \in DOMAIN EdgeCost
      THEN {Outcome(EdgeCost[<< start, end >>], end, end)}
    ELSE IF Pairs(start, end) # {}
      THEN {Outcome(PairCost(start, end, p), Name(end, p[2]), Name(end, p[2])) :
                p \in BestPair(start, end)}
    ELSE {Outcome(NoFileCost, endNode, prevFile)}

Transition(start, end, endNode, prevFile) ==
    IF << start, end >> \in DOMAIN EdgeCost
      THEN {Outcome(EdgeCost[<< start, end >>], end, end)}
    ELSE IF << start, Wildcard >> \in DOMAIN EdgeCost
      THEN {Outcome(EdgeCost[<< start, Wildcard >>], NULL, NULL)}
    ELSE IF Pairs(start, end) # {}
      THEN {Outcome(PairCost(start, end, p), Name(end, p[2]), Name(end, p[2])) :
                p \in BestPair(start, end)}
    ELSE IF Ranks(end) # {}
      THEN {Outcome(NoFileCost, n, prevFile) : n \in ClosestNode(end)}
    ELSE {Outcome(NoFileCost, endNode, prevFile)}

(***************************************************************************)
(* The first file of a walk.  When the file has a group that is not a node *)
(* the code falls through with its local variable start uninitialized: a   *)
(* crash, or a transition from whatever node an earlier call left there.   *)
(***************************************************************************)
\* Mutant: a first file that is not found is taken as certain.
FirstFileFree(end) ==
    IF Ranks(end) # {}
      THEN {Outcome(0, n, n) : n \in ClosestNode(end)}
    ELSE {Outcome(0, NULL, end)}

FirstFile(end) ==
    IF Ranks(end) # {}
      THEN {Outcome(0, n, n) : n \in ClosestNode(end)}
    ELSE IF end \in DOMAIN Group
      THEN {Crash} \cup UNION {Transition(n, end, NULL, end) : n \in Nodes}
    ELSE {Outcome(NoFileCost, NULL, end)}

\* The set of possible results; it has more than one member only when the
\* code reads the uninitialized variable.
getTransitionProb2(endNode, prevFile, end) ==
    IF endNode = NULL THEN FirstFile(end)
    ELSE Transition(endNode, end, endNode, prevFile)

(***************************************************************************)
(* The position of the threshold a sequence of seqLength requests is       *)
(* compared with: its length, one less than seqLength, rounded up to a     *)
(* multiple of SlotLength and capped at the last threshold.  Positions are *)
(* one more than the code's zero-based index.                              *)
(***************************************************************************)
RoundUp(sl) ==
    IF sl % SlotLength = 0 THEN sl ELSE ((sl \div SlotLength) + 1) * SlotLength

LookupIndex(seqLength) ==
    IF RoundUp(seqLength - 1) > Len(SeqThreshCost)
      THEN Len(SeqThreshCost)
      ELSE RoundUp(seqLength - 1)
=============================================================================
