----------------------------- MODULE FRADEBuilds -----------------------------
(***************************************************************************)
(* The engine and the three other versions of it kept in FRADE/, each to   *)
(* be compiled in the place of FRADE.cpp:                                  *)
(*   "tb"    FRADE_tb.cpp, the version of the test bed: it knows a page by *)
(*           the expressions of MAIN_REQS, convicts at the first object    *)
(*           that is not on the page's list, and judges a transition by    *)
(*           its exact edge only;                                          *)
(*   "load"  FRADE_load_bl.cpp, the same for measurements under load: the  *)
(*           pages are watched only while the number of users is a         *)
(*           multiple of LoadSample;                                       *)
(*   "sem"   sem.cpp, the semantics module alone.                          *)
(* The versions keep the records, the blacklist and the pipe of FRADE.     *)
(***************************************************************************)
EXTENDS FRADE, Configure

CONSTANTS
    settings,      \* the names set in the configuration file
    main_reqs,     \* the URIs some expression of MAIN_REQS matches
    hit,           \* the names that contain "hit.json"
    HitBothCost,   \* -log 0.1
    HitOneCost,    \* -log 0.01
    sem_Nodes,     \* what sem.cpp makes of SEM_CONF_FILE (see Configure)
    sem_EdgeCost,
    LoadSample     \* 5 in FRADE_load_bl.cpp

ASSUME BuildsAssumption ==
    /\ main_reqs \subseteq URI
    /\ hit \subseteq URI
    /\ HitBothCost \in Nat
    /\ HitOneCost \in Nat
    /\ DOMAIN sem_EdgeCost \subseteq sem_Nodes \X sem_Nodes
    /\ \A e \in DOMAIN sem_EdgeCost : sem_EdgeCost[e] \in Nat
    /\ LoadSample \in Nat \ {0}
    /\ frade_Required \subseteq settings

VARIABLES
    build,       \* the version that was compiled
    count_main   \* "load": the users whose first request was a page

buildVars == << vars, build, count_main >>

Known(ip) == ip \in DOMAIN users

-----------------------------------------------------------------------------
(***************************************************************************)
(* FRADE_tb.cpp                                                            *)
(***************************************************************************)
tb_isMainRequest(f) == f \in main_reqs

\* The constructor is given the file of a page, and NULL for anything else.
tb_NewUser(t, f, page) ==
    LET At(n) == [i \in Win |-> IF page THEN n ELSE 0]
    IN  [seqLength |-> 1, seqCost |-> 0,
         prevFile |-> IF page THEN f ELSE NULL, endNode |-> NULL,
         counts |-> At(1), procs |-> At(proc_time[f]), times |-> At(t),
         embedcounts |-> [i \in Win |-> IF page THEN 0 ELSE 1],
         embedtimes |-> [i \in Win |-> IF page THEN 0 ELSE t],
         current_main |-> IF page THEN f ELSE NULL,
         current_list |-> main_embed[f]]

tb_UserRecord(ip, t, f) ==
    IF Known(ip) THEN users[ip] ELSE tb_NewUser(t, f, tb_isMainRequest(f))

\* An edge, or the node of the page itself: the lists of folders and groups are
\* empty.  A step between two "hit.json", or to or from one, is cheaper.
tb_Missing(start, end) ==
    IF start \in hit /\ end \in hit THEN HitBothCost
    ELSE IF start \in hit \/ end \in hit THEN HitOneCost
    ELSE NoFileCost

tb_Transition(start, end, endNode, prevFile) ==
    IF << start, end >> \in DOMAIN EdgeCost
      THEN Outcome(EdgeCost[<< start, end >>], end, end)
    ELSE IF end \in Nodes THEN Outcome(tb_Missing(start, end), end, prevFile)
    ELSE Outcome(NoFileCost, endNode, prevFile)

\* The first file of a walk is looked up as in FRADE.cpp, the uninitialized
\* variable included.
tb_FirstFile(end) ==
    IF Ranks(end) # {}
      THEN {Outcome(0, n, n) : n \in ClosestNode(end)}
    ELSE IF end \in DOMAIN Group
      THEN {Crash} \cup {tb_Transition(n, end, NULL, end) : n \in Nodes}
    ELSE {Outcome(NoFileCost, NULL, end)}

tb_getTransitionProb2(endNode, prevFile, end) ==
    IF endNode = NULL THEN tb_FirstFile(end)
    ELSE {tb_Transition(endNode, end, endNode, prevFile)}

tb_dynamics1and3(ud, t, f) == dynamics1and3(EnterPage(ud, f), t, f)

\* Mutant: the object found is not erased.
tb_dynamics2Keeps(ud, f) == [ok |-> ud.current_list[f] > 0, ud |-> ud]

\* One occurrence of the object is erased from the list, or the user convicted.
tb_dynamics2(ud, f) ==
    [ok |-> ud.current_list[f] > 0,
     ud |-> IF ud.current_list[f] > 0 THEN [ud EXCEPT !.current_list[f] = @ - 1] ELSE ud]

\* Walks is what the build's getTransitionProb2 may return.
tb_semantics(ip, ud, Walks) ==
    \E o \in Walks :
        /\ running' = ~ o.crash
        /\ IF o.crash THEN Conclude(ip, ud, FALSE)
           ELSE Conclude(ip, Walked(ud, o), Unlikely(Walked(ud, o)))

\* The rest of beAFRADE for a page, from the record ud.
tb_PageOf(ip, t, f, ud, Walks) ==
    LET charged == tb_dynamics1and3(ud, t, f)
        first == charged.prevFile = NULL
    IN  IF Tripped(EnterPage(ud, f), t, f)
          THEN Conclude(ip, charged, TRUE) /\ UNCHANGED running
        ELSE IF first \/ "sem" \notin activemodules
          THEN /\ Conclude(ip, IF first THEN [charged EXCEPT !.prevFile = f] ELSE charged, FALSE)
               /\ UNCHANGED running
        ELSE tb_semantics(ip, charged, Walks)

tb_ObjectOf(ip, t, f, ud) ==
    /\ IF "dyn2" \in activemodules /\ ~ HasQuery(f)
         THEN Conclude(ip, tb_dynamics2(ud, f).ud, ~ tb_dynamics2(ud, f).ok)
         ELSE Conclude(ip, ud, FALSE)
    /\ UNCHANGED running

tb_deception(ip, f, ud) ==
    /\ "dec" \in activemodules /\ f \in dummy_links
    /\ Conclude(ip, ud, TRUE)
    /\ UNCHANGED running

tb_beAFRADE(ip, t, f) ==
    LET ud == tb_UserRecord(ip, t, f)
    IN  /\ Receive(ip, t, f)
        /\ UNCHANGED count_main
        /\ \/ tb_deception(ip, f, ud)
           \/ /\ ~ ("dec" \in activemodules /\ f \in dummy_links)
              /\ IF tb_isMainRequest(f)
                   THEN tb_PageOf(ip, t, f, ud, tb_getTransitionProb2(ud.endNode, ud.prevFile, f))
                   ELSE tb_ObjectOf(ip, t, f, ud)

-----------------------------------------------------------------------------
(***************************************************************************)
(* FRADE_load_bl.cpp                                                       *)
(***************************************************************************)
\* These functions are the same, line for line, in both files.
load_isMainRequest(f) == tb_isMainRequest(f)
load_NewUser(t, f, page) == tb_NewUser(t, f, page)
load_dynamics1and3(ud, t, f) == tb_dynamics1and3(ud, t, f)
load_dynamics2(ud, f) == tb_dynamics2(ud, f)
load_semantics(ip, ud, Walks) == tb_semantics(ip, ud, Walks)
load_deception(ip, f, ud) == tb_deception(ip, f, ud)

load_count(ip, f) ==
    IF ~ Known(ip) /\ load_isMainRequest(f) THEN count_main + 1 ELSE count_main

load_sampled(ip, f) == load_isMainRequest(f) /\ load_count(ip, f) % LoadSample = 0

load_UserRecord(ip, t, f) ==
    IF Known(ip) THEN users[ip] ELSE load_NewUser(t, f, load_sampled(ip, f))

\* A page that is not an edge away: a step to or from a "hit.json" is cheaper, one
\* between two of them is no exception in this version.
load_Missing(start, end) ==
    IF start \in hit \/ end \in hit THEN HitOneCost ELSE NoFileCost

load_Transition(start, end, endNode, prevFile) ==
    IF << start, end >> \in DOMAIN EdgeCost
      THEN Outcome(EdgeCost[<< start, end >>], end, end)
    ELSE IF end \in Nodes THEN Outcome(load_Missing(start, end), end, prevFile)
    ELSE Outcome(NoFileCost, endNode, prevFile)

load_getTransitionProb2(endNode, prevFile, end) ==
    IF endNode # NULL THEN {load_Transition(endNode, end, endNode, prevFile)}
    ELSE IF Ranks(end) = {} /\ end \in DOMAIN Group
      THEN {Crash} \cup {load_Transition(n, end, NULL, end) : n \in Nodes}
    ELSE tb_FirstFile(end)

load_PageOf(ip, t, f, ud) ==
    LET charged == load_dynamics1and3(ud, t, f)
        first == charged.prevFile = NULL
        Stays(next, convicted) == Conclude(ip, next, convicted) /\ UNCHANGED running
    IN  IF Tripped(EnterPage(ud, f), t, f) THEN Stays(charged, TRUE)
        ELSE IF first THEN Stays([charged EXCEPT !.prevFile = f], FALSE)
        ELSE IF "sem" \notin activemodules THEN Stays(charged, FALSE)
        ELSE load_semantics(ip, charged, load_getTransitionProb2(ud.endNode, ud.prevFile, f))

load_ObjectOf(ip, t, f, ud) ==
    LET charged == IF "dyn2" \in activemodules /\ ~ HasQuery(f)
                   THEN load_dynamics2(ud, f) ELSE [ok |-> TRUE, ud |-> ud]
    IN  Conclude(ip, charged.ud, ~ charged.ok) /\ UNCHANGED running

\* A page that is not watched is taken for an embedded object.
load_beAFRADE(ip, t, f) ==
    LET ud == load_UserRecord(ip, t, f)
    IN  /\ Receive(ip, t, f)
        /\ count_main' = load_count(ip, f)
        /\ \/ load_deception(ip, f, ud)
           \/ /\ ~ ("dec" \in activemodules /\ f \in dummy_links)
              /\ IF load_sampled(ip, f) THEN load_PageOf(ip, t, f, ud)
                                        ELSE load_ObjectOf(ip, t, f, ud)

-----------------------------------------------------------------------------
(***************************************************************************)
(* sem.cpp                                                                 *)
(***************************************************************************)
\* Mutant: a transition that is not found costs nothing.
sem_getTransitionProbFree(endNode, prevFile, end) ==
    LET start == IF endNode # NULL THEN endNode ELSE prevFile
    IN  IF << start, end >> \in DOMAIN sem_EdgeCost
          THEN Outcome(sem_EdgeCost[<< start, end >>], end, end)
          ELSE Outcome(0, NULL, end)

\* The walk starts from the saved node, or else from that of the last file, and
\* only an exact edge is found.  The fallback to a folder never finds anything:
\* hasFolder asks regex_match for a match of the whole name, so that "the
\* substring of the folder" is the name that was not found.
sem_getTransitionProb(endNode, prevFile, end) ==
    LET start == IF endNode # NULL THEN endNode ELSE prevFile
    IN  IF << start, end >> \in DOMAIN sem_EdgeCost
          THEN Outcome(sem_EdgeCost[<< start, end >>], end, end)
          ELSE Outcome(NoFileCost, NULL, end)

\* The length is seqLength itself, which counts the first request twice.
sem_Unlikely(ud) == ud.seqCost >= SeqThreshCost[LookupIndex(ud.seqLength + 1)]

\* The pipe is opened and written for every conviction, known or not.
sem_blacklistIP(ip) ==
    /\ blacklist' = blacklist \cup {ip}
    /\ pipe' = Append(pipe, ip)

sem_semantics(ip, ud, f) ==
    LET walked == Walked(ud, sem_getTransitionProb(ud.endNode, ud.prevFile, f))
    IN  /\ users' = [users EXCEPT ![ip] = walked]
        /\ IF sem_Unlikely(walked) THEN sem_blacklistIP(ip) ELSE UNCHANGED << blacklist, pipe >>

\* The first request of a user only makes its record.
sem_beAFRADE(ip, t, f) ==
    LET ud == [users[ip] EXCEPT !.seqLength = @ + 1]
    IN  /\ Receive(ip, t, f)
        /\ UNCHANGED << running, count_main >>
        /\ IF ~ Known(ip) THEN Conclude(ip, tb_NewUser(t, f, tb_isMainRequest(f)), FALSE)
           ELSE IF ~ tb_isMainRequest(f) THEN UNCHANGED << users, blacklist, pipe >>
           ELSE IF ud.prevFile = NULL THEN Conclude(ip, [ud EXCEPT !.prevFile = f], FALSE)
           ELSE sem_semantics(ip, ud, f)

-----------------------------------------------------------------------------
\* A version exits in its constructor if one of its settings is missing.
Starts(b) ==
    (CASE b = "frade" -> frade_Required [] b = "tb" -> tb_Required
       [] b = "load" -> load_Required [] b = "sem" -> sem_Required) \subseteq settings

BuildsInit ==
    /\ Init
    /\ build \in {b \in {"frade", "tb", "load", "sem"} : Starts(b)}
    /\ count_main = 0

BuildsNext ==
    /\ UNCHANGED build
    /\ \/ build = "frade" /\ Next /\ UNCHANGED count_main
       \/ \E ip \in IP, f \in URI, t \in 2 .. MaxTime :
            /\ Timely(t)
            /\ \/ build = "tb" /\ tb_beAFRADE(ip, t, f)
               \/ build = "load" /\ load_beAFRADE(ip, t, f)
               \/ build = "sem" /\ sem_beAFRADE(ip, t, f)

BuildsSpec == BuildsInit /\ [][BuildsNext]_buildVars

-----------------------------------------------------------------------------
Asked(ip, f, K) == {k \in K : handled[k].ip = ip /\ handled[k].uri = f}

\* Some request of ip could not be paid from the list of the page it was on: the
\* page at j, or the user's first request, lists it no more often than it was
\* asked for from there on.  In the "load" build the last page may have gone
\* unnoticed.
Unlisted(ip) ==
    \E k \in DOMAIN handled :
        /\ handled[k].ip = ip
        /\ ~ HasQuery(handled[k].uri)
        /\ \E j \in 1 .. k :
              /\ handled[j].ip = ip
              /\ build = "tb" =>
                    \A i \in (j + 1) .. (k - 1) :
                        handled[i].ip = ip => ~ tb_isMainRequest(handled[i].uri)
              /\ Cardinality(Asked(ip, handled[k].uri, j .. (k - 1)))
                    >= main_embed[handled[j].uri][handled[k].uri]

\* No build convicts without evidence: what counts in FRADE.cpp, a walk of
\* sem.cpp, which reads no list of modules, and in the two versions with the
\* strict dyn2 an object its page does not list.
BuildConvictionJustified ==
    \A ip \in blacklist :
        \/ Evidence(ip)
        \/ /\ build = "sem" /\ Known(ip)
           /\ \E l \in DOMAIN SeqThreshCost : users[ip].seqCost >= SeqThreshCost[l]
        \/ build \in {"tb", "load"} /\ "dyn2" \in activemodules /\ Unlisted(ip)

\* Where an object that is not listed convicts, a user at large has asked for
\* every object at most as often as the pages it asked for list it.
ObjectsListed ==
    build \in {"tb", "load"} /\ "dyn2" \in activemodules =>
        \A ip \in DOMAIN users \ blacklist, f \in URI \ main_reqs :
            ~ HasQuery(f) =>
                LET Mine == {k \in DOMAIN handled : handled[k].ip = ip}
                IN  Cardinality(Asked(ip, f, Mine))
                      <= Total([u \in URI |-> main_embed[u][f]], Mine)

\* In the versions without wildcard edges every page the graph does not know
\* costs NO_FILE_PROB, whatever came before it, so a user at large saw few.
StraysBounded ==
    LET Stray(f) == /\ tb_isMainRequest(f)
                    /\ f \notin Nodes \cup sem_Nodes \cup DOMAIN Group
                    /\ Ranks(f) = {}
        Strays(ip) == {k \in DOMAIN handled : handled[k].ip = ip /\ Stray(handled[k].uri)}
    IN  build = "sem" \/ (build = "tb" /\ "sem" \in activemodules) =>
            \A ip \in DOMAIN users \ blacklist :
                \/ Cardinality(Strays(ip)) <= 1
                \/ \E l \in DOMAIN SeqThreshCost :
                       (Cardinality(Strays(ip)) - 1) * NoFileCost < SeqThreshCost[l]
=============================================================================
