-------------------------------- MODULE FRADE --------------------------------
(***************************************************************************)
(* The detection engine (FRADE/FRADE.cpp, FRADE/UserData.cpp): one user    *)
(* record per source address, updated by one call of beAFRADE per line of  *)
(* the web server's access log, and the blacklist it writes to a pipe.     *)
(*                                                                         *)
(* A time is a number of milliseconds; time 1 marks a line written by the  *)
(* challenge proxy, and the code's other times are larger.  A cost is a    *)
(* processing time.  A list of embedded objects is a bag: the code only    *)
(* asks whether an object is in it and removes one occurrence.             *)
(***************************************************************************)
EXTENDS Semantics, FiniteSetsExt

CONSTANTS
    IP,
    embedded_reqs,   \* the URIs of EMBEDDED_REQ_FILE
    Base,            \* [URI -> URI]: the part of a URI before its "?"
    main_embed,      \* [URI -> bag of URIs]: DYN2_DETAILS
    proc_time,       \* [URI -> Nat]: DYN3_DETAILS
    dummy_links,     \* the URIs of DUMMY_LINKS_FILE
    windows,         \* sequence of window lengths
    dyn1Threshes,    \* sequence of thresholds, one per window
    dyn3Threshes,
    activemodules,   \* subset of {"dyn1", "dyn2", "dyn3", "sem", "dec"}
    Word,            \* 2^64 in the build: the modulus of unsigned long
    MaxTime,         \* bound: the largest time in the log
    Disorder,        \* bound: how far a line may lie behind an earlier one
    MaxRequests      \* bound: the number of requests

Win == DOMAIN windows
Bag == [URI -> Nat]

ASSUME FRADEAssumption ==
    /\ embedded_reqs \subseteq URI
    /\ Base \in [URI -> URI]
    /\ main_embed \in [URI -> Bag]
    /\ proc_time \in [URI -> Nat]
    /\ dummy_links \subseteq URI
    /\ windows \in Seq(Nat \ {0})
    /\ dyn1Threshes \in [Win -> Nat]
    /\ dyn3Threshes \in [Win -> Nat]
    /\ activemodules \subseteq {"dyn1", "dyn2", "dyn3", "sem", "dec"}
    /\ MaxTime \in Nat \ {0}
    /\ Disorder \in Nat
    /\ MaxRequests \in Nat
    /\ Word \in Nat
    /\ \A i \in Win : Word > MaxTime + windows[i]

VARIABLES
    users,      \* the map users: a record per known address
    blacklist,  \* the set blacklist
    pipe,       \* the addresses written to the pipe and not yet read from it
    running,    \* FALSE once the process has crashed
    handled     \* history: the requests beAFRADE was called with (req_count is its length)

vars == << users, blacklist, pipe, running, handled >>

Request == [ip : IP, time : 1 .. MaxTime, uri : URI]

UserData ==
    [seqLength : Nat \ {0}, seqCost : Nat,
     prevFile : URI \cup {NULL}, endNode : Nodes \cup {NULL},
     counts : [Win -> Nat], procs : [Win -> Nat], times : [Win -> 0 .. MaxTime],
     embedcounts : [Win -> {0, 1}], embedtimes : [Win -> 0 .. MaxTime],
     current_main : URI \cup {NULL}, current_list : Bag]

TypeOK ==
    /\ DOMAIN users \subseteq IP
    /\ \A ip \in DOMAIN users : users[ip] \in UserData
    /\ blacklist \subseteq IP
    /\ pipe \in Seq(IP)
    /\ running \in BOOLEAN
    /\ handled \in Seq(Request)

-----------------------------------------------------------------------------
isMainRequest(f) == f \notin embedded_reqs \/ Base[f] \notin embedded_reqs

HasQuery(f) == Base[f] # f

\* reqTime - times[i] in unsigned arithmetic: an older request is far ahead.
Elapsed(t, s) == IF t >= s THEN t - s ELSE Word - (s - t)

NewUser(t, f) ==
    [seqLength |-> 1, seqCost |-> 0,
     prevFile |-> IF isMainRequest(f) THEN f ELSE NULL,
     endNode |-> NULL,
     counts |-> [i \in Win |-> IF isMainRequest(f) THEN 1 ELSE 0],
     procs |-> [i \in Win |-> IF isMainRequest(f) THEN proc_time[f] ELSE 0],
     times |-> [i \in Win |-> IF isMainRequest(f) THEN t ELSE 0],
     embedcounts |-> [i \in Win |-> IF isMainRequest(f) THEN 0 ELSE 1],
     embedtimes |-> [i \in Win |-> IF isMainRequest(f) THEN 0 ELSE t],
     current_main |-> IF isMainRequest(f) THEN f ELSE NULL,
     current_list |-> main_embed[f]]

\* The record beAFRADE works on: a new one goes on to be charged as well.
UserRecord(ip, t, f) == IF ip \in DOMAIN users THEN users[ip] ELSE NewUser(t, f)

(***************************************************************************)
(* dynamics1and3: the windows are charged in order; the first one whose    *)
(* count (dyn1) or cost (dyn3) passes its threshold ends the loop, so the  *)
(* windows after it keep their old values.  A window that is started anew  *)
(* is not compared with its thresholds.                                    *)
(***************************************************************************)
Fresh(ud, t, i) == ud.times[i] = 0 \/ Elapsed(t, ud.times[i]) >= windows[i]

\* Mutant: the threshold itself is too many.
TripsEarly(ud, t, f, i) ==
    /\ ~ Fresh(ud, t, i)
    /\ \/ "dyn1" \in activemodules /\ ud.counts[i] + 1 >= dyn1Threshes[i]
       \/ "dyn3" \in activemodules /\ ud.procs[i] + proc_time[f] >= dyn3Threshes[i]

Trips(ud, t, f, i) ==
    /\ ~ Fresh(ud, t, i)
    /\ \/ "dyn1" \in activemodules /\ ud.counts[i] + 1 > dyn1Threshes[i]
       \/ "dyn3" \in activemodules /\ ud.procs[i] + proc_time[f] > dyn3Threshes[i]

Reached(ud, t, f, i) == \A j \in Win : j < i => ~ Trips(ud, t, f, j)

Tripped(ud, t, f) == \E i \in Win : Trips(ud, t, f, i)

\* Mutants: a request in a running window is not added to its count; a window
\* that is started anew keeps its count.
dynamics1and3LosesCount(ud, t, f) ==
    [ud EXCEPT
       !.counts = [i \in Win |-> IF Reached(ud, t, f, i) /\ Fresh(ud, t, i) THEN 1 ELSE @[i]],
       !.procs = [i \in Win |-> IF ~ Reached(ud, t, f, i) THEN @[i]
                                ELSE IF Fresh(ud, t, i) THEN proc_time[f]
                                     ELSE @[i] + proc_time[f]],
       !.times = [i \in Win |-> IF Reached(ud, t, f, i) /\ Fresh(ud, t, i)
                                THEN t ELSE @[i]]]
dynamics1and3KeepsCount(ud, t, f) ==
    [ud EXCEPT
       !.counts = [i \in Win |-> IF Reached(ud, t, f, i) THEN @[i] + 1 ELSE @[i]],
       !.procs = [i \in Win |-> IF ~ Reached(ud, t, f, i) THEN @[i]
                                ELSE IF Fresh(ud, t, i) THEN proc_time[f]
                                     ELSE @[i] + proc_time[f]],
       !.times = [i \in Win |-> IF Reached(ud, t, f, i) /\ Fresh(ud, t, i)
                                THEN t ELSE @[i]]]

dynamics1and3(ud, t, f) ==
    [ud EXCEPT
       !.counts = [i \in Win |-> IF ~ Reached(ud, t, f, i) THEN @[i]
                                 ELSE IF Fresh(ud, t, i) THEN 1 ELSE @[i] + 1],
       !.procs = [i \in Win |-> IF ~ Reached(ud, t, f, i) THEN @[i]
                                ELSE IF Fresh(ud, t, i) THEN proc_time[f]
                                     ELSE @[i] + proc_time[f]],
       !.times = [i \in Win |-> IF Reached(ud, t, f, i) /\ Fresh(ud, t, i)
                                THEN t ELSE @[i]]]

\* A request taken as a page view: what beAFRADE and dynamics2 both do first.
EnterPage(ud, f) ==
    [ud EXCEPT !.seqLength = @ + 1, !.current_main = f, !.current_list = main_embed[f]]

Charged(ud, t, f) == dynamics1and3(EnterPage(ud, f), t, f)

\* Mutant: an object is found in the list and stays there.
TakeAllowedKeeps(ud, t, f) == ud

\* dynamics2 on an object the current page allows: one occurrence is removed.
TakeAllowed(ud, t, f) ==
    LET Stale(i) == ud.embedtimes[i] = 0 \/ Elapsed(t, ud.embedtimes[i]) >= windows[i]
    IN  [ud EXCEPT
           !.current_list[f] = @ - 1,
           !.embedcounts = [i \in Win |-> IF Stale(i) THEN 0 ELSE @[i]],
           !.embedtimes = [i \in Win |-> IF Stale(i) THEN t ELSE @[i]]]

\* The user's record after the outcome o of one transition of its walk.
Walked(ud, o) ==
    [ud EXCEPT !.seqCost = @ + o.cost, !.endNode = o.endNode, !.prevFile = o.prevFile]

Unlikely(ud) == ud.seqCost >= SeqThreshCost[LookupIndex(ud.seqLength)]

-----------------------------------------------------------------------------
\* A log line reaches beAFRADE.
Receive(ip, t, f) ==
    /\ running
    /\ Len(handled) < MaxRequests
    /\ handled' = Append(handled, [ip |-> ip, time |-> t, uri |-> f])

\* Mutant: the result of the insertion is not tested.
blacklistIPAlways(ip) ==
    /\ blacklist' = blacklist \cup {ip}
    /\ pipe' = Append(pipe, ip)

blacklistIP(ip) ==
    /\ blacklist' = blacklist \cup {ip}
    /\ pipe' = IF ip \in blacklist THEN pipe ELSE Append(pipe, ip)

\* The handler ends with the record ud and, if convict, a blacklisting.
Conclude(ip, ud, convict) ==
    /\ users' = [x \in DOMAIN users \cup {ip} |-> IF x = ip THEN ud ELSE users[x]]
    /\ IF convict THEN blacklistIP(ip) ELSE UNCHANGED << blacklist, pipe >>

(***************************************************************************)
(* What follows the charging of a page view that does not return: the      *)
(* first page of a user is remembered, a later one is judged by its        *)
(* transition when the module is active.                                   *)
(***************************************************************************)
FirstPage(ip, ud, f, convicted) ==
    /\ ud.prevFile = NULL
    /\ Conclude(ip, [ud EXCEPT !.prevFile = f], convicted)
    /\ UNCHANGED running

Unjudged(ip, ud, convicted) ==
    /\ ud.prevFile # NULL
    /\ "sem" \notin activemodules
    /\ Conclude(ip, ud, convicted)
    /\ UNCHANGED running

semantics(ip, ud, f, convicted) ==
    /\ ud.prevFile # NULL
    /\ "sem" \in activemodules
    /\ \E o \in getTransitionProb2(ud.endNode, ud.prevFile, f) :
          /\ running' = ~ o.crash
          /\ IF o.crash THEN Conclude(ip, ud, convicted)
             ELSE Conclude(ip, Walked(ud, o), convicted \/ Unlikely(Walked(ud, o)))

NextPage(ip, ud, f, convicted) ==
    \/ FirstPage(ip, ud, f, convicted)
    \/ Unjudged(ip, ud, convicted)
    \/ semantics(ip, ud, f, convicted)

-----------------------------------------------------------------------------
(***************************************************************************)
(* beAFRADE, one action per path through it.                               *)
(***************************************************************************)
\* A line of the challenge proxy: blacklisted before any record is made.
ProxyBlock(ip, f) ==
    /\ Receive(ip, 1, f)
    /\ blacklistIP(ip)
    /\ UNCHANGED << users, running >>

deception(ip, t, f) ==
    /\ "dec" \in activemodules
    /\ f \in dummy_links
    /\ Receive(ip, t, f)
    /\ Conclude(ip, UserRecord(ip, t, f), TRUE)
    /\ UNCHANGED running

Accepted(ip, t, f) ==
    /\ ~ ("dec" \in activemodules /\ f \in dummy_links)
    /\ Receive(ip, t, f)

MainRequest(ip, t, f) ==
    LET entered == EnterPage(UserRecord(ip, t, f), f)
    IN  /\ isMainRequest(f)
        /\ Accepted(ip, t, f)
        /\ IF Tripped(entered, t, f)
             THEN Conclude(ip, Charged(UserRecord(ip, t, f), t, f), TRUE) /\ UNCHANGED running
             ELSE NextPage(ip, Charged(UserRecord(ip, t, f), t, f), f, FALSE)

\* With the module off, or a query string, an embedded request changes nothing.
IgnoredRequest(ip, t, f) ==
    /\ ~ isMainRequest(f)
    /\ "dyn2" \notin activemodules \/ HasQuery(f)
    /\ Accepted(ip, t, f)
    /\ Conclude(ip, UserRecord(ip, t, f), FALSE)
    /\ UNCHANGED running

\* Mutant: the list is not looked into.
AllowedObjectUnchecked(ip, t, f) ==
    /\ ~ isMainRequest(f)
    /\ "dyn2" \in activemodules /\ ~ HasQuery(f)
    /\ Accepted(ip, t, f)
    /\ Conclude(ip, TakeAllowed(UserRecord(ip, t, f), t, f), FALSE)
    /\ UNCHANGED running

AllowedObject(ip, t, f) ==
    /\ ~ isMainRequest(f)
    /\ "dyn2" \in activemodules /\ ~ HasQuery(f)
    /\ UserRecord(ip, t, f).current_list[f] > 0
    /\ Accepted(ip, t, f)
    /\ Conclude(ip, TakeAllowed(UserRecord(ip, t, f), t, f), FALSE)
    /\ UNCHANGED running

\* An object the page does not allow is a page view; a trip does not return.
UnlistedObject(ip, t, f) ==
    LET ud == UserRecord(ip, t, f)
    IN  /\ ~ isMainRequest(f)
        /\ "dyn2" \in activemodules /\ ~ HasQuery(f)
        /\ ud.current_list[f] = 0
        /\ Accepted(ip, t, f)
        /\ NextPage(ip, Charged(ud, t, f), f, Tripped(EnterPage(ud, f), t, f))

beAFRADE(ip, t, f) ==
    \/ deception(ip, t, f)
    \/ MainRequest(ip, t, f)
    \/ IgnoredRequest(ip, t, f)
    \/ AllowedObject(ip, t, f)
    \/ UnlistedObject(ip, t, f)

\* The web server's lines are at most Disorder behind the latest before them.
Timely(t) == \A k \in DOMAIN handled : handled[k].time <= t + Disorder

Init ==
    /\ users = << >>
    /\ blacklist = {}
    /\ pipe = << >>
    /\ running = TRUE
    /\ handled = << >>

Next ==
    \E ip \in IP, f \in URI :
        \/ ProxyBlock(ip, f)
        \/ \E t \in 2 .. MaxTime : Timely(t) /\ beAFRADE(ip, t, f)

Spec == Init /\ [][Next]_vars

-----------------------------------------------------------------------------
(***************************************************************************)
(* What the engine owes its operators, stated over the history.            *)
(***************************************************************************)
Viewable(f) == isMainRequest(f) \/ ("dyn2" \in activemodules /\ ~ HasQuery(f))

Requests(ip) == {k \in DOMAIN handled : handled[k].ip = ip /\ handled[k].time # 1}

MainIndices(ip) == {k \in Requests(ip) : isMainRequest(handled[k].uri)}

\* The requests of ip timed in the w milliseconds from s that may be charged.
InWindow(ip, s, w) ==
    {k \in DOMAIN handled : /\ handled[k].ip = ip
                            /\ handled[k].time \in s .. (s + w - 1)
                            /\ handled[k].time # 1
                            /\ Viewable(handled[k].uri)}

Times(ip) == {handled[k].time : k \in {j \in DOMAIN handled : handled[j].ip = ip}}

\* What the requests K add up to, each weighing what g says of its URI.
Total(g, K) == SumFunctionOnSet([k \in DOMAIN handled |-> g[handled[k].uri]], K)

CostOf(K) == Total(proc_time, K)

\* A blacklisted address is in the pipe once, and nothing else is in it: the
\* insertion test of blacklistIP, whatever detector or pair of detectors calls
\* it, and however often a convicted user comes back.
EmittedOnce ==
    /\ \A j, k \in DOMAIN pipe : pipe[j] = pipe[k] => j = k
    /\ Range(pipe) = blacklist

\* The count a window holds never exceeds the requests the user made inside it
\* by more than one: the first main request, which both the UserData
\* constructor and the first call of dynamics1and3 count.
CountsJustified ==
    \A ip \in DOMAIN users, i \in Win :
        LET ud == users[ip]
        IN  IF ud.times[i] = 0 THEN ud.counts[i] = 0
            ELSE ud.counts[i] <= 1 + Cardinality(InWindow(ip, ud.times[i], windows[i]))

\* What the log must hold of a blacklisted user: a proxy line, a dummy link, one
\* window with too many requests or too much cost (the first request weighing
\* double), or a walk whose cost reached some threshold.
Evidence(ip) ==
    \/ \E k \in DOMAIN handled :
          /\ handled[k].ip = ip
          /\ \/ handled[k].time = 1
             \/ "dec" \in activemodules /\ handled[k].uri \in dummy_links
    \/ /\ "dyn1" \in activemodules
       /\ \E i \in Win, s \in Times(ip) :
             Cardinality(InWindow(ip, s, windows[i])) + 1 > dyn1Threshes[i]
    \/ /\ "dyn3" \in activemodules
       /\ \E i \in Win, s \in Times(ip) :
             \E k \in InWindow(ip, s, windows[i]) :
                CostOf(InWindow(ip, s, windows[i])) + proc_time[handled[k].uri]
                    > dyn3Threshes[i]
    \/ /\ "sem" \in activemodules
       /\ ip \in DOMAIN users
       /\ \E l \in DOMAIN SeqThreshCost : users[ip].seqCost >= SeqThreshCost[l]

\* No user is blacklisted without evidence in the log, whatever module or pair of
\* modules convicted it.
ConvictionJustified == \A ip \in blacklist : Evidence(ip)

\* The rate a user can keep up without being blacklisted: with dyn1 on, at most
\* twice the threshold of a window in any interval of the window's length,
\* though the windows of dynamics1and3 are not sliding.
RateBounded ==
    "dyn1" \in activemodules =>
        \A ip \in IP \ blacklist, i \in Win :
            \A s \in Times(ip) :
                Cardinality({k \in MainIndices(ip) :
                                handled[k].time \in s .. (s + windows[i] - 1)})
                    <= 2 * dyn1Threshes[i]

\* Each of the objects F is either paid for by a page that lists it, as often
\* as it lists it, or charged as a page view (seqLength).  The first request of
\* a user gives its record a list, whatever it is.
PaidFor(F) ==
    LET Served(ip, f) == {k \in Requests(ip) : handled[k].uri = f}
        Listing(ip) == {k \in Requests(ip) : \/ Viewable(handled[k].uri)
                                             \/ \A j \in Requests(ip) : k <= j}
        Allowance(ip, f) == Total([u \in URI |-> main_embed[u][f]], Listing(ip))
        Views(ip) == users[ip].seqLength - 1 - Cardinality(MainIndices(ip))
    IN  "dyn2" \in activemodules =>
            \A ip \in DOMAIN users \ blacklist, f \in F :
                Cardinality(Served(ip, f)) <= Views(ip) + Allowance(ip, f)

\* With dyn2 on, an embedded object requested without a query string is paid for.
EmbeddedPaid == PaidFor({f \in URI : ~ isMainRequest(f) /\ ~ HasQuery(f)})

\* The node a user's next transition starts from, when there is one, stands for
\* the last page the user asked for that the graph knows, itself or by its
\* folder or group, or for an object the graph knows that came after it and may
\* have been charged as a page: what the graph does not know neither moves the
\* user nor loses it.
EndNodeTracksKnown ==
    LET Known(ip) == {k \in Requests(ip) : /\ Viewable(handled[k].uri)
                                           /\ Ranks(handled[k].uri) # {}}
        Names(u) == {Name(u, k) : k \in Ranks(u)}
    IN  \A ip \in DOMAIN users \ blacklist :
            users[ip].endNode # NULL =>
                \E k \in Known(ip) :
                    /\ \A j \in Known(ip) \cap MainIndices(ip) : j <= k
                    /\ users[ip].endNode \in Names(handled[k].uri)

\* In a graph without a wildcard, the pages it knows nothing of cost a user
\* NO_FILE_PROB each (the first page of a user whose interaction began with
\* embedded objects is not judged), so a user that is not blacklisted has seen
\* at most one of them or is still below some threshold.
UnknownPagesBounded ==
    LET Unknown(f) == Ranks(f) = {} /\ f \notin DOMAIN Group
        Visits(ip) == Cardinality({k \in MainIndices(ip) : Unknown(handled[k].uri)})
    IN  "sem" \in activemodules /\ Wildcard \notin Nodes =>
            \A ip \in DOMAIN users \ blacklist :
                \/ Visits(ip) <= 1
                \/ \E l \in DOMAIN SeqThreshCost :
                       (Visits(ip) - 1) * NoFileCost < SeqThreshCost[l]
=============================================================================
