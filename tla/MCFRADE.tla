------------------------------- MODULE MCFRADE -------------------------------
(***************************************************************************)
(* Small sites for TLC: values of FRADE's constants.                       *)
(***************************************************************************)
EXTENDS FRADE, Configure, TLC

CONSTANTS i1, i2                            \* addresses
CONSTANTS page, heavy, obj, query, dummy    \* requests
CONSTANTS a, b, dir, sub, stray, img         \* names of the semantics model
CONSTANT any                                \* the wildcard

NoGroup == LoadGroups(<< >>)
NoFolders == [u \in URI |-> << >>]
NoBag == [u \in URI |-> 0]
NoSubUri == [u \in URI |-> u]

-----------------------------------------------------------------------------
\* A site for the dynamics modules: two pages, one of which embeds an object.
RateURI == {page, heavy}
ObjURI == {page, obj}
QueryURI == {page, obj, query}
OnePage == {page}
FullURI == {page, obj, query, dummy, sub, stray}

Chop == [u \in URI |-> u]
Tenth == [n \in 0 .. 20 |-> n \div 10]

RateEmbed == LoadEmbed(<< >>, Chop, URI)
ObjEmbed == LoadEmbed(<< [page |-> page, objects |-> << obj >>, spaced |-> TRUE] >>, Chop, URI)
ObjCost == LoadTimes(<< [page |-> page, time |-> 10, spaced |-> FALSE],
                        [page |-> obj, time |-> 3, spaced |-> TRUE],
                        [page |-> query, time |-> 1, spaced |-> TRUE],
                        [page |-> dummy, time |-> 1, spaced |-> TRUE],
                        [page |-> sub, time |-> 1, spaced |-> TRUE],
                        [page |-> stray, time |-> 1, spaced |-> TRUE] >>, Tenth, URI)
UnitCost == [u \in URI |-> 1]
RateCost == [u \in URI |-> IF u = heavy THEN 3 ELSE 0]
QueryBase == [u \in URI |-> IF u = query THEN obj ELSE u]

Conf == << << "WINDOWS", << 2, 4 >> >>, << "WINDOWS", << 9 >> >> >>
TwoWindows == Setting(Conf, "WINDOWS", << >>)
TwoCounts == read_dyn_threshes(<< 2, 3 >>, 2)
TwoCosts == read_dyn_threshes(<< 5, 6, 9 >>, 2)
NoCosts == << 100, 100 >>
OneWindow == << 3 >>
ShortWindow == << 2 >>
OneCount == << 2 >>
OneCost == << 5 >>
TrivialThresh == << 100 >>

-----------------------------------------------------------------------------
\* A graph over a file in a folder, the folder, and a file outside it, with no
\* wildcard and few edges; stray and the embedded img are not in it.
WalkURI == {a, b, dir, stray, img}
WalkFolders == [u \in URI |-> IF u = a THEN << dir >> ELSE << >>]
Edge(x, y, c) == [start |-> x, end |-> y, cost |-> c, startIsFile |-> TRUE, endIsFile |-> TRUE]
WalkLines == << Edge(a, dir, 3), Edge(dir, a, 1), Edge(dir, b, 2), Edge(dir, a, 5) >>
WalkNodes == LoadNodes(WalkLines)
WalkEdges == LoadEdges(WalkLines)
NoEdges == LoadEdges(<< >>)
SomeThresh == << 2, 4, 5, 6, 8 >>
=============================================================================
