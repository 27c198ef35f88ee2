---------------------------- MODULE FRADE_proofs ----------------------------
(***************************************************************************)
(* Proofs about the detection engine, for any site, any semantics model,   *)
(* any thresholds and any set of active modules: what a step does to the   *)
(* records and the order of convictions, and what the records and the      *)
(* blacklist say of the history of the requests; then the same for the     *)
(* other versions of the engine (FRADEBuilds).                             *)
(***************************************************************************)
EXTENDS FRADEBuilds, DataFacts, TLAPS

-----------------------------------------------------------------------------
(***************************************************************************)
(* The walk through the semantics model.                                   *)
(***************************************************************************)
OutcomeType ==
    [crash : BOOLEAN, cost : Nat, endNode : Nodes \cup {NULL}, prevFile : URI \cup {NULL}]

\* The names a file may stand for are names.
LEMMA NameType ==
    ASSUME NEW u \in URI, NEW k \in Ranks(u)
    PROVE  Name(u, k) \in URI /\ Name(u, k) \in Nodes
BY SemanticsAssumption DEF Ranks, Name, Fallback

LEMMA ClosestNodeType ==
    ASSUME NEW u \in URI
    PROVE  ClosestNode(u) \subseteq URI \cap Nodes
BY NameType DEF ClosestNode

\* An edge the search for the best pair considers has a cost.
LEMMA PairCostType ==
    ASSUME NEW start, NEW end, NEW pr \in Pairs(start, end)
    PROVE  PairCost(start, end, pr) \in Nat
BY SemanticsAssumption DEF Pairs, PairCost

LEMMA OutcomeIsTyped ==
    ASSUME NEW c \in Nat, NEW e \in Nodes \cup {NULL}, NEW f \in URI \cup {NULL}
    PROVE  Outcome(c, e, f) \in OutcomeType
BY DEF Outcome, OutcomeType

LEMMA TransitionType ==
    ASSUME NEW start, NEW end \in URI, NEW endNode \in Nodes \cup {NULL},
           NEW prevFile \in URI \cup {NULL}
    PROVE  Transition(start, end, endNode, prevFile) \subseteq OutcomeType
<1> USE SemanticsAssumption
<1>1. CASE << start, end >> \in DOMAIN EdgeCost
  <2>1. end \in Nodes /\ EdgeCost[<< start, end >>] \in Nat
    BY <1>1
  <2> QED
    BY <1>1, <2>1, OutcomeIsTyped DEF Transition
<1>2. CASE << start, end >> \notin DOMAIN EdgeCost /\ << start, Wildcard >> \in DOMAIN EdgeCost
  <2>1. EdgeCost[<< start, Wildcard >>] \in Nat
    BY <1>2
  <2> QED
    BY <1>2, <2>1, OutcomeIsTyped DEF Transition
<1>3. CASE /\ << start, end >> \notin DOMAIN EdgeCost
           /\ << start, Wildcard >> \notin DOMAIN EdgeCost
           /\ Pairs(start, end) # {}
  <2>1. \A pr \in BestPair(start, end) :
            PairCost(start, end, pr) \in Nat /\ Name(end, pr[2]) \in URI \cap Nodes
    BY PairCostType, NameType DEF BestPair, Pairs
  <2>2. Transition(start, end, endNode, prevFile) =
            {Outcome(PairCost(start, end, pr), Name(end, pr[2]), Name(end, pr[2])) :
                pr \in BestPair(start, end)}
    BY <1>3 DEF Transition
  <2>3. \A pr \in BestPair(start, end) :
            Outcome(PairCost(start, end, pr), Name(end, pr[2]), Name(end, pr[2]))
                \in OutcomeType
    BY <2>1, OutcomeIsTyped
  <2> QED
    BY <2>2, <2>3
<1>4. CASE /\ << start, end >> \notin DOMAIN EdgeCost
           /\ << start, Wildcard >> \notin DOMAIN EdgeCost
           /\ Pairs(start, end) = {}
  <2>1. \A n \in ClosestNode(end) : Outcome(NoFileCost, n, prevFile) \in OutcomeType
    BY ClosestNodeType, OutcomeIsTyped
  <2>2. Outcome(NoFileCost, endNode, prevFile) \in OutcomeType
    BY OutcomeIsTyped
  <2> QED
    BY <1>4, <2>1, <2>2 DEF Transition
<1> QED
  BY <1>1, <1>2, <1>3, <1>4

LEMMA WalkType ==
    ASSUME NEW end \in URI, NEW endNode \in Nodes \cup {NULL}, NEW prevFile \in URI \cup {NULL}
    PROVE  getTransitionProb2(endNode, prevFile, end) \subseteq OutcomeType
<1>1. FirstFile(end) \subseteq OutcomeType
  <2>1. Crash \in OutcomeType
    BY DEF Crash, OutcomeType
  <2>2. \A n \in Nodes : Transition(n, end, NULL, end) \subseteq OutcomeType
    BY TransitionType
  <2>3. \A n \in ClosestNode(end) : Outcome(0, n, n) \in OutcomeType
    BY ClosestNodeType DEF Outcome, OutcomeType
  <2>4. Outcome(NoFileCost, NULL, end) \in OutcomeType
    BY SemanticsAssumption DEF Outcome, OutcomeType
  <2> QED
    BY <2>1, <2>2, <2>3, <2>4 DEF FirstFile
<1> QED
  BY <1>1, TransitionType DEF getTransitionProb2

\* Division with remainder.
LEMMA Division ==
    ASSUME NEW a \in Nat, NEW b \in Nat, b > 0
    PROVE  /\ a \div b \in Int
           /\ a % b \in 0 .. b - 1
           /\ a = b * (a \div b) + (a % b)
<1>1. a \div b \in Int
  OBVIOUS
<1>2. a % b \in 0 .. b - 1
  OBVIOUS
<1>3. a = b * (a \div b) + (a % b)
  OBVIOUS
<1> QED
  BY <1>1, <1>2, <1>3

\* The threshold a judged sequence is compared with exists, and it is the one
\* for a length not shorter than the sequence, by less than a slot, unless the
\* sequence is longer than every threshold: semantics() never reads outside
\* seqThreshes, since it is called with seqLength at least 2.
THEOREM ThresholdExists ==
    ASSUME NEW n \in Nat, n >= 2
    PROVE  /\ LookupIndex(n) \in DOMAIN SeqThreshCost
           /\ \/ LookupIndex(n) = Len(SeqThreshCost)
              \/ LookupIndex(n) \in n - 1 .. n - 2 + SlotLength
<1> DEFINE sl == n - 1
           L == SlotLength
<1>1. sl \in Nat \ {0} /\ L \in Nat \ {0} /\ Len(SeqThreshCost) \in Nat \ {0}
  BY SemanticsAssumption
<1>2. /\ sl \div L \in Int /\ sl % L \in 0 .. L - 1
      /\ sl = L * (sl \div L) + (sl % L)
  BY <1>1, Division
<1>3. RoundUp(sl) \in sl .. sl + L - 1
  <2>1. CASE sl % L = 0
    BY <1>1, <2>1 DEF RoundUp
  <2>2. CASE sl % L # 0
    <3>1. ((sl \div L) + 1) * L = L * (sl \div L) + L
      BY <1>1, <1>2
    <3> QED
      BY <1>1, <1>2, <2>2, <3>1 DEF RoundUp
  <2> QED
    BY <2>1, <2>2
<1>4. DOMAIN SeqThreshCost = 1 .. Len(SeqThreshCost)
  BY SemanticsAssumption
<1> HIDE DEF sl, L
<1>5. LookupIndex(n) = IF RoundUp(sl) > Len(SeqThreshCost) THEN Len(SeqThreshCost) ELSE RoundUp(sl)
  BY DEF LookupIndex, sl
<1> QED
  BY <1>1, <1>3, <1>4, <1>5 DEF sl, L

-----------------------------------------------------------------------------
(***************************************************************************)
(* The updates of a user's record.                                         *)
(***************************************************************************)
LEMMA NewUserType ==
    ASSUME NEW t \in 1 .. MaxTime, NEW f \in URI
    PROVE  NewUser(t, f) \in UserData
BY FRADEAssumption DEF NewUser, UserData, Bag

LEMMA UserRecordType ==
    ASSUME TypeOK, NEW ip \in IP, NEW t \in 1 .. MaxTime, NEW f \in URI
    PROVE  UserRecord(ip, t, f) \in UserData
BY NewUserType DEF UserRecord, TypeOK

LEMMA EnterPageType ==
    ASSUME NEW ud \in UserData, NEW f \in URI
    PROVE  EnterPage(ud, f) \in UserData
<1>1. main_embed[f] \in Bag
  BY FRADEAssumption
<1>2. ud.seqLength + 1 \in Nat \ {0}
  BY DEF UserData
<1> QED
  BY <1>1, <1>2 DEF EnterPage, UserData

LEMMA DynamicsType ==
    ASSUME NEW ud \in UserData, NEW t \in 1 .. MaxTime, NEW f \in URI
    PROVE  dynamics1and3(ud, t, f) \in UserData
<1>1. proc_time[f] \in Nat /\ t \in 0 .. MaxTime
  BY FRADEAssumption
<1>2. /\ ud.counts \in [Win -> Nat] /\ ud.procs \in [Win -> Nat]
      /\ ud.times \in [Win -> 0 .. MaxTime]
  BY DEF UserData
<1> DEFINE R(i) == Reached(ud, t, f, i)
           F(i) == Fresh(ud, t, i)
           counts == [i \in Win |-> IF ~ R(i) THEN ud.counts[i]
                                    ELSE IF F(i) THEN 1 ELSE ud.counts[i] + 1]
           procs == [i \in Win |-> IF ~ R(i) THEN ud.procs[i]
                                   ELSE IF F(i) THEN proc_time[f]
                                        ELSE ud.procs[i] + proc_time[f]]
           times == [i \in Win |-> IF R(i) /\ F(i) THEN t ELSE ud.times[i]]
<1>3. counts \in [Win -> Nat]
  BY <1>2
<1>4. procs \in [Win -> Nat]
  BY <1>1, <1>2
<1>5. times \in [Win -> 0 .. MaxTime]
  BY <1>1, <1>2
<1>6. dynamics1and3(ud, t, f) =
          [ud EXCEPT !.counts = counts, !.procs = procs, !.times = times]
  BY DEF dynamics1and3, UserData
<1> HIDE DEF counts, procs, times
<1> QED
  BY <1>3, <1>4, <1>5, <1>6 DEF UserData

LEMMA ChargedType ==
    ASSUME NEW ud \in UserData, NEW t \in 1 .. MaxTime, NEW f \in URI
    PROVE  Charged(ud, t, f) \in UserData
BY EnterPageType, DynamicsType DEF Charged

LEMMA TakeAllowedType ==
    ASSUME NEW ud \in UserData, NEW t \in 1 .. MaxTime, NEW f \in URI, ud.current_list[f] > 0
    PROVE  TakeAllowed(ud, t, f) \in UserData
<1>1. ud.current_list \in [URI -> Nat] /\ ud.current_list[f] - 1 \in Nat
  BY DEF UserData, Bag
<1>2. [ud.current_list EXCEPT ![f] = @ - 1] \in [URI -> Nat]
  BY <1>1
<1>3. t \in 0 .. MaxTime
  BY FRADEAssumption
<1>4. /\ ud.embedcounts \in [Win -> {0, 1}]
      /\ ud.embedtimes \in [Win -> 0 .. MaxTime]
  BY DEF UserData
<1> DEFINE Stale(i) == ud.embedtimes[i] = 0 \/ Elapsed(t, ud.embedtimes[i]) >= windows[i]
           list == [ud.current_list EXCEPT ![f] = @ - 1]
           counts == [i \in Win |-> IF Stale(i) THEN 0 ELSE ud.embedcounts[i]]
           times == [i \in Win |-> IF Stale(i) THEN t ELSE ud.embedtimes[i]]
<1>5. counts \in [Win -> {0, 1}]
  BY <1>4
<1>6. times \in [Win -> 0 .. MaxTime]
  BY <1>3, <1>4
<1>7. TakeAllowed(ud, t, f) =
          [ud EXCEPT !.current_list = list, !.embedcounts = counts, !.embedtimes = times]
  BY DEF TakeAllowed, UserData
<1> HIDE DEF list, counts, times
<1>8. list \in Bag
  BY <1>2 DEF list, Bag
<1> QED
  BY <1>5, <1>6, <1>7, <1>8 DEF UserData

LEMMA WalkedType ==
    ASSUME NEW ud \in UserData, NEW o \in OutcomeType
    PROVE  Walked(ud, o) \in UserData
<1>1. ud.seqCost + o.cost \in Nat
  BY DEF UserData, OutcomeType
<1>2. o.endNode \in Nodes \cup {NULL} /\ o.prevFile \in URI \cup {NULL}
  BY DEF OutcomeType
<1> QED
  BY <1>1, <1>2 DEF Walked, UserData

LEMMA FirstPageType ==
    ASSUME NEW ud \in UserData, NEW f \in URI
    PROVE  [ud EXCEPT !.prevFile = f] \in UserData
BY DEF UserData

-----------------------------------------------------------------------------
(***************************************************************************)
(* One request.                                                            *)
(***************************************************************************)
\* A request that is received is recorded.
LEMMA ReceiveType ==
    ASSUME TypeOK, NEW ip \in IP, NEW t \in 1 .. MaxTime, NEW f \in URI, Receive(ip, t, f)
    PROVE  handled' \in Seq(Request)
<1>1. [ip |-> ip, time |-> t, uri |-> f] \in Request
  BY DEF Request
<1> QED
  BY <1>1 DEF TypeOK, Receive

\* What is true of the blacklist and the pipe: addresses, each written once.
Emitted ==
    /\ blacklist \subseteq IP
    /\ pipe \in Seq(IP)
    /\ EmittedOnce

\* A conviction keeps it, whether the address is new or not.
LEMMA BlacklistEmits ==
    ASSUME Emitted, NEW ip \in IP, blacklistIP(ip)
    PROVE  Emitted'
<1>1. CASE ip \in blacklist
  <2>1. blacklist' = blacklist /\ pipe' = pipe
    BY <1>1 DEF blacklistIP
  <2> QED
    BY <2>1 DEF Emitted, EmittedOnce, Range
<1>2. CASE ip \notin blacklist
  <2>1. blacklist' = blacklist \cup {ip} /\ pipe' = Append(pipe, ip) /\ pipe \in Seq(IP)
    BY <1>2 DEF blacklistIP, Emitted
  <2>2. /\ pipe' \in Seq(IP)
        /\ Len(pipe) \in Nat
        /\ DOMAIN pipe = 1 .. Len(pipe) /\ DOMAIN pipe' = 1 .. Len(pipe) + 1
        /\ \A k \in 1 .. Len(pipe) : pipe'[k] = pipe[k]
        /\ pipe'[Len(pipe) + 1] = ip
    BY <2>1
  <2>3. \A k \in 1 .. Len(pipe) : pipe[k] # ip
    BY <1>2, <2>2 DEF Emitted, EmittedOnce, Range
  <2>4. \A j, k \in DOMAIN pipe' : pipe'[j] = pipe'[k] => j = k
    BY <2>2, <2>3 DEF Emitted, EmittedOnce, Range
  <2>5. Range(pipe') = Range(pipe) \cup {ip}
    <3>1. ASSUME NEW x \in Range(pipe')
          PROVE  x \in Range(pipe) \cup {ip}
      BY <2>2 DEF Range
    <3>2. ASSUME NEW x \in Range(pipe) \cup {ip}
          PROVE  x \in Range(pipe')
      BY <2>2 DEF Range
    <3> QED
      BY <3>1, <3>2
  <2>6. Range(pipe') = blacklist'
    BY <2>1, <2>5 DEF Emitted, EmittedOnce, Range
  <2> QED
    BY <2>1, <2>2, <2>4, <2>6 DEF Emitted, EmittedOnce, Range
<1> QED
  BY <1>1, <1>2

IInv == TypeOK /\ EmittedOnce

LEMMA IInvEmitted == IInv <=> TypeOK /\ Emitted
BY DEF IInv, TypeOK, Emitted

\* A handler that ends with a typed record, and a conviction or none, keeps the
\* invariant.
LEMMA ConcludeKeeps ==
    ASSUME IInv, NEW ip \in IP, NEW ud \in UserData, NEW convict,
           Conclude(ip, ud, convict), handled' \in Seq(Request), running' \in BOOLEAN
    PROVE  IInv'
<1>1. /\ DOMAIN users' = DOMAIN users \cup {ip}
      /\ \A x \in DOMAIN users' : users'[x] = IF x = ip THEN ud ELSE users[x]
  BY DEF Conclude
<1>2. DOMAIN users' \subseteq IP /\ \A x \in DOMAIN users' : users'[x] \in UserData
  BY <1>1 DEF IInv, TypeOK
<1>3. Emitted
  BY IInvEmitted
<1>4. Emitted'
  <2>1. CASE convict
    BY <1>3, <2>1, BlacklistEmits DEF Conclude
  <2>2. CASE ~ convict
    BY <1>3, <2>2 DEF Conclude, Emitted, EmittedOnce
  <2> QED
    BY <2>1, <2>2
<1> QED
  BY <1>2, <1>4 DEF IInv, TypeOK, UserData, Request, Emitted

\* So does what follows the charging of a page view.
LEMMA NextPageKeeps ==
    ASSUME IInv, NEW ip \in IP, NEW ud \in UserData, NEW f \in URI, NEW convicted,
           NextPage(ip, ud, f, convicted), handled' \in Seq(Request)
    PROVE  IInv'
<1>1. running \in BOOLEAN
  BY DEF IInv, TypeOK
<1>2. CASE FirstPage(ip, ud, f, convicted)
  BY <1>1, <1>2, FirstPageType, ConcludeKeeps DEF FirstPage
<1>3. CASE Unjudged(ip, ud, convicted)
  BY <1>1, <1>3, ConcludeKeeps DEF Unjudged
<1>4. CASE semantics(ip, ud, f, convicted)
  <2>1. PICK o \in getTransitionProb2(ud.endNode, ud.prevFile, f) :
            /\ running' = ~ o.crash
            /\ IF o.crash THEN Conclude(ip, ud, convicted)
               ELSE Conclude(ip, Walked(ud, o), convicted \/ Unlikely(Walked(ud, o)))
    BY <1>4 DEF semantics
  <2>2. o \in OutcomeType
    <3>1. ud.endNode \in Nodes \cup {NULL} /\ ud.prevFile \in URI \cup {NULL}
      BY DEF UserData
    <3> QED
      BY <2>1, <3>1, WalkType
  <2>3. running' \in BOOLEAN
    BY <2>1, <2>2 DEF OutcomeType
  <2>4. Walked(ud, o) \in UserData
    BY <2>2, WalkedType
  <2> QED
    BY <2>1, <2>3, <2>4, ConcludeKeeps
<1> QED
  BY <1>2, <1>3, <1>4 DEF NextPage

-----------------------------------------------------------------------------
LEMMA Initially == Init => IInv
BY DEF Init, IInv, TypeOK, EmittedOnce, Range

\* Each path through beAFRADE keeps the invariant.
LEMMA RequestKeeps ==
    ASSUME IInv, NEW ip \in IP, NEW t \in 1 .. MaxTime, NEW f \in URI, beAFRADE(ip, t, f)
    PROVE  IInv'
<1>1. UserRecord(ip, t, f) \in UserData /\ running \in BOOLEAN
  BY UserRecordType DEF IInv, TypeOK
<1>2. Receive(ip, t, f)
  BY DEF beAFRADE, deception, MainRequest, IgnoredRequest, AllowedObject, UnlistedObject, Accepted
<1>3. handled' \in Seq(Request)
  BY <1>2, ReceiveType DEF IInv
<1>4. Charged(UserRecord(ip, t, f), t, f) \in UserData
  BY <1>1, ChargedType
<1>5. CASE deception(ip, t, f)
  BY <1>1, <1>3, <1>5, ConcludeKeeps DEF deception
<1>6. CASE MainRequest(ip, t, f)
  BY <1>1, <1>3, <1>4, <1>6, ConcludeKeeps, NextPageKeeps DEF MainRequest
<1>7. CASE IgnoredRequest(ip, t, f)
  BY <1>1, <1>3, <1>7, ConcludeKeeps DEF IgnoredRequest
<1>8. CASE AllowedObject(ip, t, f)
  <2>1. TakeAllowed(UserRecord(ip, t, f), t, f) \in UserData
    BY <1>1, <1>8, TakeAllowedType DEF AllowedObject
  <2> QED
    BY <1>1, <1>3, <1>8, <2>1, ConcludeKeeps DEF AllowedObject
<1>9. CASE UnlistedObject(ip, t, f)
  BY <1>1, <1>3, <1>4, <1>9, NextPageKeeps DEF UnlistedObject
<1> QED
  BY <1>5, <1>6, <1>7, <1>8, <1>9 DEF beAFRADE

\* A line of the proxy touches no record.
LEMMA ProxyKeeps ==
    ASSUME IInv, NEW ip \in IP, NEW f \in URI, ProxyBlock(ip, f)
    PROVE  IInv'
<1>1. handled' \in Seq(Request)
  BY ReceiveType, FRADEAssumption DEF ProxyBlock, IInv
<1>2. Emitted'
  BY IInvEmitted, BlacklistEmits DEF ProxyBlock
<1> QED
  BY <1>1, <1>2 DEF ProxyBlock, IInv, TypeOK, Emitted, UserData, Request

LEMMA Inductive == IInv /\ [Next]_vars => IInv'
<1> SUFFICES ASSUME IInv, [Next]_vars PROVE IInv'
  OBVIOUS
<1>1. CASE UNCHANGED vars
  BY <1>1 DEF vars, IInv, TypeOK, EmittedOnce, Range, UserData, Request
<1>2. CASE Next
  <2>1. PICK ip \in IP, f \in URI :
            ProxyBlock(ip, f) \/ \E t \in 2 .. MaxTime : beAFRADE(ip, t, f)
    BY <1>2 DEF Next
  <2>2. CASE ProxyBlock(ip, f)
    BY <2>2, ProxyKeeps
  <2>3. CASE \E t \in 2 .. MaxTime : beAFRADE(ip, t, f)
    <3>1. PICK t \in 1 .. MaxTime : beAFRADE(ip, t, f)
      BY <2>3, FRADEAssumption
    <3> QED
      BY <3>1, RequestKeeps
  <2> QED
    BY <2>1, <2>2, <2>3
<1> QED
  BY <1>1, <1>2

LEMMA Invariance == Spec => []IInv
BY Initially, Inductive, PTL DEF Spec

\* Every record of every user stays well formed, whatever the order of page
\* views, embedded objects and convictions: an allowance is never negative,
\* the saved node is a node of the model.
THEOREM Typing == Spec => []TypeOK
<1>1. IInv => TypeOK
  BY DEF IInv
<1> QED
  BY <1>1, Invariance, PTL

\* However many detectors convict a user, and however often, its address is
\* written to the pipe once; and no address is written without being on the
\* blacklist.
THEOREM WrittenOnce == Spec => []EmittedOnce
<1>1. IInv => EmittedOnce
  BY DEF IInv
<1> QED
  BY <1>1, Invariance, PTL

-----------------------------------------------------------------------------
(***************************************************************************)
(* The count a window holds and the history.                               *)
(***************************************************************************)
\* InWindow and CountsJustified, for any history and any one record.
Within(h, ip, s, w) ==
    {k \in DOMAIN h : /\ h[k].ip = ip
                      /\ h[k].time \in s .. (s + w - 1)
                      /\ h[k].time # 1
                      /\ Viewable(h[k].uri)}

CountedIn(h, ip, ud) ==
    \A i \in Win :
        IF ud.times[i] = 0 THEN ud.counts[i] = 0
        ELSE ud.counts[i] <= 1 + Cardinality(Within(h, ip, ud.times[i], windows[i]))

LEMMA CountsPerRecord ==
    CountsJustified <=> \A ip \in DOMAIN users : CountedIn(handled, ip, users[ip])
BY DEF CountsJustified, CountedIn, InWindow, Within

\* One more request: a window holds what it held, and the request when it is one
\* of the user's and timed inside it.
LEMMA WithinGrows ==
    ASSUME NEW h \in Seq(Request), NEW r \in Request, NEW ip, NEW s, NEW w
    PROVE  LET old == Within(h, ip, s, w)
               new == Within(Append(h, r), ip, s, w)
           IN  /\ Cardinality(old) \in Nat /\ Cardinality(new) \in Nat
               /\ Cardinality(old) <= Cardinality(new)
               /\ (/\ r.ip = ip /\ r.time \in s .. (s + w - 1)
                   /\ r.time # 1 /\ Viewable(r.uri))
                  => Cardinality(new) = Cardinality(old) + 1
<1> DEFINE g == Append(h, r)
           n == Len(h) + 1
           old == Within(h, ip, s, w)
           new == Within(g, ip, s, w)
           Counts == /\ r.ip = ip /\ r.time \in s .. (s + w - 1)
                     /\ r.time # 1 /\ Viewable(r.uri)
<1>1. /\ Len(h) \in Nat /\ DOMAIN h = 1 .. Len(h) /\ DOMAIN g = 1 .. n
      /\ \A k \in 1 .. Len(h) : g[k] = h[k]
      /\ g[n] = r
  OBVIOUS
<1>2. old \subseteq 1 .. Len(h) /\ n \notin old
  BY <1>1 DEF Within
<1>3. IsFiniteSet(old) /\ Cardinality(old) \in Nat
  BY <1>1, <1>2, PartOfInterval
<1>4. new = IF Counts THEN old \cup {n} ELSE old
  <2> HIDE DEF g
  <2>1. \A k \in 1 .. Len(h) : k \in new <=> k \in old
    BY <1>1 DEF Within
  <2>2. n \in new <=> Counts
    BY <1>1 DEF Within
  <2>3. new \subseteq 1 .. n
    BY <1>1 DEF Within
  <2>4. 1 .. n = (1 .. Len(h)) \cup {n}
    BY <1>1
  <2> HIDE DEF new, old, Counts, n
  <2>5. CASE Counts
    <3>1. \A k : k \in new <=> k \in old \cup {n}
      BY <1>2, <2>1, <2>2, <2>3, <2>4, <2>5
    <3> QED
      BY <2>5, <3>1, Zenon
  <2>6. CASE ~ Counts
    <3>1. \A k : k \in new <=> k \in old
      BY <1>2, <2>1, <2>2, <2>3, <2>4, <2>6
    <3> QED
      BY <2>6, <3>1, Zenon
  <2> QED
    BY <2>5, <2>6
<1>5. Cardinality(old \cup {n}) = Cardinality(old) + 1
  BY <1>2, <1>3, FS_AddElement
<1> HIDE DEF old, new, Counts
<1>6. /\ Cardinality(new) \in Nat /\ Cardinality(old) <= Cardinality(new)
      /\ Counts => Cardinality(new) = Cardinality(old) + 1
  BY <1>3, <1>4, <1>5
<1> QED
  BY <1>3, <1>6 DEF old, new, Counts

\* A record's counts stay justified when requests are added.
LEMMA StillCounted ==
    ASSUME NEW h \in Seq(Request), NEW r \in Request, NEW ip, NEW ud \in UserData,
           CountedIn(h, ip, ud)
    PROVE  CountedIn(Append(h, r), ip, ud)
<1> SUFFICES ASSUME NEW i \in Win, ud.times[i] # 0
             PROVE  ud.counts[i] <=
                        1 + Cardinality(Within(Append(h, r), ip, ud.times[i], windows[i]))
  BY DEF CountedIn
<1>1. ud.counts[i] \in Nat
  BY DEF UserData
<1>2. ud.counts[i] <= 1 + Cardinality(Within(h, ip, ud.times[i], windows[i]))
  BY DEF CountedIn
<1> QED
  BY <1>1, <1>2, WithinGrows

\* Only counts and times matter.
LEMMA SameCounts ==
    ASSUME NEW h, NEW ip, NEW ud, NEW vd, CountedIn(h, ip, ud),
           vd.counts = ud.counts, vd.times = ud.times
    PROVE  CountedIn(h, ip, vd)
BY DEF CountedIn

\* A new record counts its first page before it is charged.
LEMMA NewUserCounted ==
    ASSUME NEW h \in Seq(Request), NEW ip, NEW t \in 1 .. MaxTime, NEW f \in URI
    PROVE  CountedIn(h, ip, NewUser(t, f))
<1>1. CASE isMainRequest(f)
  <2> SUFFICES ASSUME NEW i \in Win
               PROVE  1 <= 1 + Cardinality(Within(h, ip, t, windows[i]))
    BY <1>1, FRADEAssumption DEF CountedIn, NewUser
  <2>1. Within(h, ip, t, windows[i]) \in SUBSET (1 .. Len(h)) /\ Len(h) \in Nat
    BY DEF Within
  <2>2. Cardinality(Within(h, ip, t, windows[i])) \in Nat
    BY <2>1, PartOfInterval
  <2> QED
    BY <2>2
<1>2. CASE ~ isMainRequest(f)
  BY <1>2 DEF CountedIn, NewUser
<1> QED
  BY <1>1, <1>2

\* A window in progress holds the request: the modulus is so large that a
\* request older than the window is never taken to be inside it.
LEMMA InProgress ==
    ASSUME NEW ud \in UserData, NEW t \in 1 .. MaxTime, NEW i \in Win, ~ Fresh(ud, t, i)
    PROVE  ud.times[i] # 0 /\ t \in ud.times[i] .. (ud.times[i] + windows[i] - 1)
<1>1. /\ ud.times[i] \in 0 .. MaxTime /\ windows[i] \in Nat \ {0}
      /\ MaxTime \in Nat /\ Word \in Nat /\ Word > MaxTime + windows[i]
  BY FRADEAssumption DEF UserData, Win
<1>2. ud.times[i] # 0 /\ ~ (Elapsed(t, ud.times[i]) >= windows[i])
  BY DEF Fresh
<1>3. CASE t >= ud.times[i]
  BY <1>1, <1>2, <1>3 DEF Elapsed
<1>4. CASE ~ (t >= ud.times[i])
  BY <1>1, <1>2, <1>4 DEF Elapsed
<1> QED
  BY <1>3, <1>4

\* A charge adds at most the request that is charged.
LEMMA ChargeCounted ==
    ASSUME NEW h \in Seq(Request), NEW ip \in IP, NEW t \in 2 .. MaxTime, NEW f \in URI,
           NEW ud \in UserData, CountedIn(h, ip, ud), Viewable(f)
    PROVE  CountedIn(Append(h, [ip |-> ip, time |-> t, uri |-> f]), ip, Charged(ud, t, f))
<1> DEFINE r == [ip |-> ip, time |-> t, uri |-> f]
           e == EnterPage(ud, f)
           c == Charged(ud, t, f)
<1>1. r \in Request /\ t \in 1 .. MaxTime /\ t # 1 /\ t # 0
  BY FRADEAssumption DEF Request
<1>2. e \in UserData /\ e.counts = ud.counts /\ e.times = ud.times
  BY EnterPageType DEF EnterPage, UserData
<1>3. CountedIn(h, ip, e)
  BY <1>2, SameCounts
<1> HIDE DEF e
<1>4. /\ c.counts = [i \in Win |-> IF ~ Reached(e, t, f, i) THEN e.counts[i]
                                    ELSE IF Fresh(e, t, i) THEN 1 ELSE e.counts[i] + 1]
      /\ c.times = [i \in Win |-> IF Reached(e, t, f, i) /\ Fresh(e, t, i)
                                   THEN t ELSE e.times[i]]
  BY <1>2 DEF Charged, dynamics1and3, UserData, e
<1> SUFFICES ASSUME NEW i \in Win
             PROVE  IF c.times[i] = 0 THEN c.counts[i] = 0
                    ELSE c.counts[i] <= 1 + Cardinality(Within(Append(h, r), ip, c.times[i], windows[i]))
  BY DEF CountedIn
<1> HIDE DEF c, r
<1>5. e.counts[i] \in Nat
  BY <1>2 DEF UserData
<1>6. CASE ~ Reached(e, t, f, i)
  <2>1. c.times[i] = e.times[i] /\ c.counts[i] = e.counts[i]
    BY <1>4, <1>6
  <2> QED
    BY <1>1, <1>2, <1>3, <2>1, StillCounted DEF CountedIn
<1>7. CASE Reached(e, t, f, i) /\ Fresh(e, t, i)
  <2>1. c.times[i] = t /\ c.counts[i] = 1
    BY <1>4, <1>7
  <2>2. Cardinality(Within(Append(h, r), ip, t, windows[i])) \in Nat
    BY <1>1, WithinGrows
  <2> QED
    BY <1>1, <2>1, <2>2
<1>8. CASE Reached(e, t, f, i) /\ ~ Fresh(e, t, i)
  <2>1. c.times[i] = e.times[i] /\ c.counts[i] = e.counts[i] + 1
    BY <1>4, <1>8
  <2>2. e.times[i] # 0 /\ t \in e.times[i] .. (e.times[i] + windows[i] - 1)
    BY <1>1, <1>2, <1>8, InProgress
  <2>3. e.counts[i] <= 1 + Cardinality(Within(h, ip, e.times[i], windows[i]))
    BY <1>3, <2>2 DEF CountedIn
  <2>4. r.ip = ip /\ r.time = t /\ r.uri = f
    BY DEF r
  <2>5. /\ Cardinality(Within(Append(h, r), ip, e.times[i], windows[i]))
             = Cardinality(Within(h, ip, e.times[i], windows[i])) + 1
        /\ Cardinality(Within(h, ip, e.times[i], windows[i])) \in Nat
    BY <1>1, <2>2, <2>4, WithinGrows
  <2> QED
    BY <1>5, <2>1, <2>2, <2>3, <2>5
<1> QED
  BY <1>6, <1>7, <1>8

-----------------------------------------------------------------------------
CInv == IInv /\ CountsJustified

\* A handler that ends with a justified record keeps all of them justified.
LEMMA ConcludeCounts ==
    ASSUME CInv, NEW ip \in IP, NEW t \in 1 .. MaxTime, NEW f \in URI, Receive(ip, t, f),
           NEW ud, CountedIn(handled', ip, ud), NEW convict, Conclude(ip, ud, convict)
    PROVE  CountsJustified'
<1> DEFINE r == [ip |-> ip, time |-> t, uri |-> f]
<1>1. handled \in Seq(Request) /\ r \in Request /\ handled' = Append(handled, r)
  BY DEF CInv, IInv, TypeOK, Receive, Request
<1> HIDE DEF r
<1>2. /\ DOMAIN users' = DOMAIN users \cup {ip}
      /\ \A x \in DOMAIN users' : users'[x] = IF x = ip THEN ud ELSE users[x]
  BY DEF Conclude
<1>3. ASSUME NEW x \in DOMAIN users', x # ip
      PROVE  CountedIn(handled', x, users[x])
  <2>1. users[x] \in UserData /\ CountedIn(handled, x, users[x])
    BY <1>2, <1>3, CountsPerRecord DEF CInv, IInv, TypeOK
  <2> QED
    BY <1>1, <2>1, StillCounted
<1>4. \A x \in DOMAIN users' : CountedIn(handled', x, users'[x])
  BY <1>2, <1>3
<1> QED
  BY <1>4 DEF CountsJustified, CountedIn, InWindow, Within, Viewable, HasQuery, isMainRequest

LEMMA NextPageCounts ==
    ASSUME CInv, NEW ip \in IP, NEW t \in 1 .. MaxTime, NEW f \in URI, Receive(ip, t, f),
           NEW ud \in UserData, CountedIn(handled', ip, ud),
           NEW convicted, NextPage(ip, ud, f, convicted)
    PROVE  CountsJustified'
<1>1. CASE FirstPage(ip, ud, f, convicted)
  <2> DEFINE vd == [ud EXCEPT !.prevFile = f]
  <2>1. vd.counts = ud.counts /\ vd.times = ud.times
    BY DEF UserData
  <2>2. CountedIn(handled', ip, vd)
    BY <2>1, SameCounts
  <2> QED
    BY <1>1, <2>2, ConcludeCounts DEF FirstPage
<1>2. CASE Unjudged(ip, ud, convicted)
  BY <1>2, ConcludeCounts DEF Unjudged
<1>3. CASE semantics(ip, ud, f, convicted)
  <2>1. PICK o \in getTransitionProb2(ud.endNode, ud.prevFile, f) :
            IF o.crash THEN Conclude(ip, ud, convicted)
            ELSE Conclude(ip, Walked(ud, o), convicted \/ Unlikely(Walked(ud, o)))
    BY <1>3 DEF semantics
  <2>2. Walked(ud, o).counts = ud.counts /\ Walked(ud, o).times = ud.times
    BY DEF Walked, UserData
  <2>3. CountedIn(handled', ip, Walked(ud, o))
    BY <2>2, SameCounts
  <2> QED
    BY <2>1, <2>3, ConcludeCounts
<1> QED
  BY <1>1, <1>2, <1>3 DEF NextPage

LEMMA RequestCounts ==
    ASSUME CInv, NEW ip \in IP, NEW t \in 2 .. MaxTime, NEW f \in URI, beAFRADE(ip, t, f)
    PROVE  CountsJustified'
<1> DEFINE ud == UserRecord(ip, t, f)
           r == [ip |-> ip, time |-> t, uri |-> f]
<1>1. t \in 1 .. MaxTime
  BY FRADEAssumption
<1>2. Receive(ip, t, f)
  BY DEF beAFRADE, deception, MainRequest, IgnoredRequest, AllowedObject, UnlistedObject, Accepted
<1>3. handled \in Seq(Request) /\ r \in Request /\ handled' = Append(handled, r)
  BY <1>1, <1>2 DEF CInv, IInv, TypeOK, Receive, Request
<1>4. ud \in UserData
  BY <1>1, UserRecordType DEF CInv, IInv
<1>5. CountedIn(handled, ip, ud)
  <2>1. CASE ip \in DOMAIN users
    BY <2>1, CountsPerRecord DEF CInv, UserRecord
  <2>2. CASE ip \notin DOMAIN users
    BY <1>1, <1>3, <2>2, NewUserCounted DEF UserRecord
  <2> QED
    BY <2>1, <2>2
<1> HIDE DEF ud
<1>6. CountedIn(handled', ip, ud)
  BY <1>3, <1>4, <1>5, StillCounted
<1>7. Charged(ud, t, f) \in UserData
  BY <1>1, <1>4, ChargedType
<1>8. Viewable(f) => CountedIn(handled', ip, Charged(ud, t, f))
  BY <1>3, <1>4, <1>5, ChargeCounted
<1>9. CASE deception(ip, t, f)
  BY <1>1, <1>2, <1>6, <1>9, ConcludeCounts DEF deception, ud
<1>10. CASE MainRequest(ip, t, f)
  <2>1. CountedIn(handled', ip, Charged(ud, t, f))
    BY <1>8, <1>10 DEF MainRequest, Viewable
  <2> QED
    BY <1>1, <1>2, <1>7, <1>10, <2>1, ConcludeCounts, NextPageCounts DEF MainRequest, ud
<1>11. CASE IgnoredRequest(ip, t, f)
  BY <1>1, <1>2, <1>6, <1>11, ConcludeCounts DEF IgnoredRequest, ud
<1>12. CASE AllowedObject(ip, t, f)
  <2>1. /\ TakeAllowed(ud, t, f).counts = ud.counts
        /\ TakeAllowed(ud, t, f).times = ud.times
    BY <1>4 DEF TakeAllowed, UserData
  <2>2. CountedIn(handled', ip, TakeAllowed(ud, t, f))
    BY <1>6, <2>1, SameCounts
  <2> QED
    BY <1>1, <1>2, <1>12, <2>2, ConcludeCounts DEF AllowedObject, ud
<1>13. CASE UnlistedObject(ip, t, f)
  <2>1. CountedIn(handled', ip, Charged(ud, t, f))
    BY <1>8, <1>13 DEF UnlistedObject, Viewable
  <2> QED
    BY <1>1, <1>2, <1>7, <1>13, <2>1, NextPageCounts DEF UnlistedObject, ud
<1> QED
  BY <1>9, <1>10, <1>11, <1>12, <1>13 DEF beAFRADE

LEMMA CountsInductive == CInv /\ [Next]_vars => CInv'
<1> SUFFICES ASSUME CInv, [Next]_vars PROVE CInv'
  OBVIOUS
<1>1. IInv'
  BY Inductive DEF CInv
<1>2. CASE UNCHANGED vars
  BY <1>1, <1>2 DEF vars, CInv, CountsJustified, InWindow, Viewable, HasQuery, isMainRequest
<1>3. CASE Next
  <2>1. PICK ip \in IP, f \in URI :
            ProxyBlock(ip, f) \/ \E t \in 2 .. MaxTime : beAFRADE(ip, t, f)
    BY <1>3 DEF Next
  <2>2. CASE ProxyBlock(ip, f)
    <3> DEFINE r == [ip |-> ip, time |-> 1, uri |-> f]
    <3>1. /\ handled \in Seq(Request) /\ r \in Request
          /\ handled' = Append(handled, r) /\ users' = users
      BY <2>2, FRADEAssumption DEF ProxyBlock, Receive, CInv, IInv, TypeOK, Request
    <3> HIDE DEF r
    <3>2. \A x \in DOMAIN users :
              users[x] \in UserData /\ CountedIn(handled, x, users[x])
      BY CountsPerRecord DEF CInv, IInv, TypeOK
    <3>3. \A x \in DOMAIN users' : CountedIn(handled', x, users'[x])
      BY <3>1, <3>2, StillCounted
    <3>4. CountsJustified'
      BY <3>3 DEF CountsJustified, CountedIn, InWindow, Within, Viewable, HasQuery, isMainRequest
    <3> QED
      BY <1>1, <3>4 DEF CInv
  <2>3. CASE \E t \in 2 .. MaxTime : beAFRADE(ip, t, f)
    BY <1>1, <2>3, RequestCounts DEF CInv
  <2> QED
    BY <2>1, <2>2, <2>3
<1> QED
  BY <1>2, <1>3

\* No window of any user ever holds more than the requests the user made inside
\* it and the first one, counted twice, whatever the order of the log's lines:
\* dyn1 convicts nobody for requests of another window or of another user.
THEOREM CountsHold == Spec => []CountsJustified
<1>1. Init => CInv
  BY Initially DEF Init, CInv, CountsJustified
<1>2. CInv => CountsJustified
  BY DEF CInv
<1> QED
  BY <1>1, <1>2, CountsInductive, PTL DEF Spec
-----------------------------------------------------------------------------
(***************************************************************************)
(* The history of the requests: what the records and the blacklist say of  *)
(* the log that led to them.  First, one more line of the log.             *)
(***************************************************************************)
\* The lines of the history h that are among the requests R.
Hits(h, R) == {k \in DOMAIN h : h[k] \in R}

\* A line is added to them when it is among R.
LEMMA HitsAppend ==
    ASSUME NEW h \in Seq(Request), NEW r \in Request, NEW R
    PROVE  /\ Hits(Append(h, r), R) =
                  IF r \in R THEN Hits(h, R) \cup {Len(h) + 1} ELSE Hits(h, R)
           /\ \A k \in Hits(h, R) : k \in 1 .. Len(h) /\ Append(h, r)[k] = h[k]
           /\ Len(h) \in Nat /\ Append(h, r)[Len(h) + 1] = r
           /\ IsFiniteSet(Hits(h, R)) /\ Cardinality(Hits(h, R)) \in Nat
           /\ Cardinality(Hits(Append(h, r), R)) =
                  IF r \in R THEN Cardinality(Hits(h, R)) + 1 ELSE Cardinality(Hits(h, R))
<1> DEFINE g == Append(h, r)
           n == Len(h) + 1
<1>1. /\ Len(h) \in Nat /\ DOMAIN h = 1 .. Len(h) /\ DOMAIN g = (1 .. Len(h)) \cup {n}
      /\ \A k \in 1 .. Len(h) : g[k] = h[k]
      /\ g[n] = r
  OBVIOUS
<1>2. Hits(h, R) \in SUBSET (1 .. Len(h)) /\ n \notin Hits(h, R)
  BY <1>1 DEF Hits
<1>3. IsFiniteSet(Hits(h, R)) /\ Cardinality(Hits(h, R)) \in Nat
  BY <1>1, <1>2, PartOfInterval
<1> HIDE DEF g, n
<1>4. Hits(g, R) = IF r \in R THEN Hits(h, R) \cup {n} ELSE Hits(h, R)
  BY <1>1 DEF Hits
<1>5. Cardinality(Hits(h, R) \cup {n}) = Cardinality(Hits(h, R)) + 1
  BY <1>2, <1>3, FS_AddElement
<1> QED
  BY <1>1, <1>2, <1>3, <1>4, <1>5 DEF g, n

\* What a line of the log holds, and the costs and thresholds of the semantics.
LEMMA LineFields ==
    ASSUME NEW r \in Request
    PROVE  /\ r.ip \in IP /\ r.uri \in URI /\ proc_time[r.uri] \in Nat
           /\ r.time \in 1 .. MaxTime /\ r.time \in Nat /\ r.time # 0
<1>1. r.ip \in IP /\ r.uri \in URI /\ r.time \in 1 .. MaxTime
  BY DEF Request
<1>2. MaxTime \in Nat /\ proc_time \in [URI -> Nat]
  BY FRADEAssumption
<1> QED
  BY <1>1, <1>2

LEMMA Costs ==
    /\ NoFileCost \in Nat /\ SeqThreshCost \in Seq(Nat)
    /\ \A l \in DOMAIN SeqThreshCost : SeqThreshCost[l] \in Nat
    /\ NULL \notin URI
<1>1. NoFileCost \in Nat /\ SeqThreshCost \in Seq(Nat) /\ NULL \notin URI
  BY SemanticsAssumption
<1> QED
  BY <1>1

\* The weight of some lines of a history; Total is that of the requests handled.
Weight(h, g, K) == SumFunctionOnSet([k \in DOMAIN h |-> g[h[k].uri]], K)

LEMMA WeightType ==
    ASSUME NEW h \in Seq(Request), NEW g \in [URI -> Nat], NEW K \in SUBSET (DOMAIN h)
    PROVE  Weight(h, g, K) \in Nat
<1> DEFINE F == [k \in DOMAIN h |-> g[h[k].uri]]
<1>1. K \in SUBSET (1 .. Len(h)) /\ Len(h) \in Nat
  OBVIOUS
<1>2. IsFiniteSet(K)
  BY <1>1, PartOfInterval
<1>3. \A k \in DOMAIN h : g[h[k].uri] \in Nat
  <2>1. \A k \in DOMAIN h : h[k] \in Request
    OBVIOUS
  <2> QED
    BY <2>1 DEF Request
<1>4. \A k \in K : F[k] \in Nat
  BY <1>3
<1> HIDE DEF F
<1>5. SumFunctionOnSet(F, K) \in Nat
  BY <1>2, <1>4, SumType
<1> QED
  BY <1>5 DEF Weight, F

LEMMA WeightAppend ==
    ASSUME NEW h \in Seq(Request), NEW r \in Request, NEW g \in [URI -> Nat],
           NEW K \in SUBSET (DOMAIN h)
    PROVE  /\ Weight(h, g, K) \in Nat
           /\ Weight(Append(h, r), g, K) = Weight(h, g, K)
           /\ Weight(Append(h, r), g, K \cup {Len(h) + 1}) = Weight(h, g, K) + g[r.uri]
<1> DEFINE q == Append(h, r)
           n == Len(h) + 1
           F == [k \in DOMAIN h |-> g[h[k].uri]]
           G == [k \in DOMAIN q |-> g[q[k].uri]]
<1>1. /\ Len(h) \in Nat /\ DOMAIN h = 1 .. Len(h) /\ DOMAIN q = 1 .. n
      /\ \A k \in 1 .. Len(h) : q[k] = h[k] /\ h[k] \in Request
      /\ q[n] = r
  OBVIOUS
<1> HIDE DEF q, F, G
<1>2. IsFiniteSet(K) /\ n \notin K
  <2>1. K \in SUBSET (1 .. Len(h))
    BY <1>1
  <2>2. IsFiniteSet(K)
    BY <1>1, <2>1, PartOfInterval
  <2> QED
    BY <1>1, <2>1, <2>2
<1> USE DEF F, G
<1> HIDE DEF n
<1>3. \A k \in K : F[k] \in Nat /\ G[k] = F[k] /\ G[k] \in Nat
  BY <1>1 DEF Request, n
<1>4. n \in DOMAIN q
  BY <1>1 DEF n
<1>5. G[n] = g[r.uri] /\ g[r.uri] \in Nat
  BY <1>1, <1>4 DEF Request
<1>6. Weight(h, g, K) = SumFunctionOnSet(F, K) /\ Weight(q, g, K) = SumFunctionOnSet(G, K)
      /\ Weight(q, g, K \cup {n}) = SumFunctionOnSet(G, K \cup {n})
  BY DEF Weight
<1> HIDE DEF F, G
<1>7. SumFunctionOnSet(F, K) \in Nat
  BY <1>2, <1>3, SumType
<1>8. SumFunctionOnSet(G, K) = SumFunctionOnSet(F, K)
  BY <1>2, <1>3, SumCongruent
<1>9. SumFunctionOnSet(G, K \cup {n}) = SumFunctionOnSet(G, K) + G[n]
  BY <1>2, <1>3, <1>5, SumAdd
<1> QED
  BY <1>5, <1>6, <1>7, <1>8, <1>9 DEF q, n

-----------------------------------------------------------------------------
(***************************************************************************)
(* The paths through beAFRADE, as what becomes of the user's record.       *)
(***************************************************************************)
Trip(ip, t, f) == Tripped(EnterPage(UserRecord(ip, t, f), f), t, f)

Viewed(ip, t, f) == Charged(UserRecord(ip, t, f), t, f)

\* The record stays: a dummy link, or a request that is ignored.
Plain(ip, t, f, ud, convict) ==
    /\ ud = UserRecord(ip, t, f)
    /\ IF convict THEN "dec" \in activemodules /\ f \in dummy_links ELSE ~ Viewable(f)

Taken(ip, t, f, ud, convict) ==
    /\ ~ isMainRequest(f) /\ Viewable(f)
    /\ UserRecord(ip, t, f).current_list[f] > 0
    /\ ud = TakeAllowed(UserRecord(ip, t, f), t, f)
    /\ ~ convict

\* A page view: a page, or an object that is not allowed.
View(ip, t, f) == isMainRequest(f) \/ (Viewable(f) /\ UserRecord(ip, t, f).current_list[f] = 0)

TripEnds(ip, t, f, ud, convict) ==
    /\ isMainRequest(f)
    /\ Trip(ip, t, f)
    /\ ud = Viewed(ip, t, f) /\ convict

PageRemembered(ip, t, f, ud, convict) ==
    /\ View(ip, t, f)
    /\ Viewed(ip, t, f).prevFile = NULL
    /\ ud = [Viewed(ip, t, f) EXCEPT !.prevFile = f]
    /\ convict <=> Trip(ip, t, f)

NotJudged(ip, t, f, ud, convict) ==
    /\ View(ip, t, f)
    /\ Viewed(ip, t, f).prevFile # NULL
    /\ \/ "sem" \notin activemodules
       \/ Ranks(f) = {} /\ f \in DOMAIN Group
    /\ ud = Viewed(ip, t, f)
    /\ convict <=> Trip(ip, t, f)

Judged(ip, t, f, ud, convict) ==
    /\ View(ip, t, f)
    /\ Viewed(ip, t, f).prevFile # NULL
    /\ "sem" \in activemodules
    /\ \E o \in getTransitionProb2(Viewed(ip, t, f).endNode, Viewed(ip, t, f).prevFile, f) :
          ~ o.crash /\ ud = Walked(Viewed(ip, t, f), o)
    /\ convict <=> Trip(ip, t, f) \/ Unlikely(ud)

Path(ip, t, f, ud, convict) ==
    \/ Plain(ip, t, f, ud, convict)
    \/ Taken(ip, t, f, ud, convict)
    \/ TripEnds(ip, t, f, ud, convict)
    \/ PageRemembered(ip, t, f, ud, convict)
    \/ NotJudged(ip, t, f, ud, convict)
    \/ Judged(ip, t, f, ud, convict)

\* Only the first file of a walk crashes the walk, and only when its group is
\* not a node.
LEMMA CrashCases ==
    ASSUME NEW endNode, NEW prevFile, NEW f,
           NEW o \in getTransitionProb2(endNode, prevFile, f), o.crash
    PROVE  Ranks(f) = {} /\ f \in DOMAIN Group
<1>1. ASSUME NEW start, NEW e, NEW p, NEW q \in Transition(start, f, e, p)
      PROVE  ~ q.crash
  BY <1>1 DEF Transition, Outcome
<1> QED
  BY <1>1 DEF getTransitionProb2, FirstFile, Outcome

\* Following the charging of a page view, one of the last four paths is taken.
LEMMA NextPagePaths ==
    ASSUME NEW ip, NEW t, NEW f \in URI, View(ip, t, f), Viewed(ip, t, f) \in UserData,
           NEW convicted \in BOOLEAN, convicted <=> Trip(ip, t, f),
           NextPage(ip, Viewed(ip, t, f), f, convicted)
    PROVE  \E ud \in UserData, convict \in BOOLEAN :
               Conclude(ip, ud, convict) /\ Path(ip, t, f, ud, convict)
<1> DEFINE vd == Viewed(ip, t, f)
<1> HIDE DEF vd
<1>1. vd \in UserData /\ NextPage(ip, vd, f, convicted)
  BY DEF vd
<1>2. CASE FirstPage(ip, vd, f, convicted)
  <2>1. [vd EXCEPT !.prevFile = f] \in UserData
    BY <1>1, FirstPageType
  <2>2. PageRemembered(ip, t, f, [vd EXCEPT !.prevFile = f], convicted)
    BY <1>2 DEF PageRemembered, FirstPage, vd
  <2> QED
    BY <1>2, <2>1, <2>2 DEF FirstPage, Path
<1>3. CASE Unjudged(ip, vd, convicted)
  <2>1. NotJudged(ip, t, f, vd, convicted)
    BY <1>3 DEF NotJudged, Unjudged, vd
  <2> QED
    BY <1>1, <1>3, <2>1 DEF Unjudged, Path
<1>4. CASE semantics(ip, vd, f, convicted)
  <2>1. PICK o \in getTransitionProb2(vd.endNode, vd.prevFile, f) :
            IF o.crash THEN Conclude(ip, vd, convicted)
            ELSE Conclude(ip, Walked(vd, o), convicted \/ Unlikely(Walked(vd, o)))
    BY <1>4 DEF semantics
  <2>2. o \in OutcomeType
    <3>1. vd.endNode \in Nodes \cup {NULL} /\ vd.prevFile \in URI \cup {NULL}
      BY <1>1 DEF UserData
    <3> QED
      BY <2>1, <3>1, WalkType
  <2>3. CASE o.crash
    <3>1. NotJudged(ip, t, f, vd, convicted)
      BY <1>4, <2>1, <2>3, CrashCases DEF NotJudged, semantics, vd
    <3> QED
      BY <1>1, <2>1, <2>3, <3>1 DEF Path
  <2>4. CASE ~ o.crash
    <3> DEFINE convict == convicted \/ Unlikely(Walked(vd, o))
    <3>1. Walked(vd, o) \in UserData /\ convict \in BOOLEAN
      BY <1>1, <2>2, WalkedType
    <3>2. Judged(ip, t, f, Walked(vd, o), convict)
      BY <1>4, <2>1, <2>4 DEF Judged, semantics, vd
    <3> QED
      BY <2>1, <2>4, <3>1, <3>2 DEF Path
  <2> QED
    BY <2>3, <2>4
<1> QED
  BY <1>1, <1>2, <1>3, <1>4 DEF NextPage

LEMMA Paths ==
    ASSUME TypeOK, NEW ip \in IP, NEW t \in 2 .. MaxTime, NEW f \in URI, beAFRADE(ip, t, f)
    PROVE  /\ Receive(ip, t, f)
           /\ \E ud \in UserData, convict \in BOOLEAN :
                 Conclude(ip, ud, convict) /\ Path(ip, t, f, ud, convict)
<1> DEFINE rd == UserRecord(ip, t, f)
<1>1. t \in 1 .. MaxTime
  BY FRADEAssumption
<1>2. Receive(ip, t, f)
  BY DEF beAFRADE, deception, MainRequest, IgnoredRequest, AllowedObject, UnlistedObject, Accepted
<1>3. rd \in UserData /\ Viewed(ip, t, f) \in UserData
  BY <1>1, UserRecordType, ChargedType DEF Viewed
<1>4. Trip(ip, t, f) \in BOOLEAN
  BY DEF Trip, Tripped
<1>5. rd.current_list[f] \in Nat
  BY <1>3 DEF UserData, Bag
<1> HIDE DEF rd
<1>6. CASE deception(ip, t, f)
  BY <1>2, <1>3, <1>6 DEF deception, Path, Plain, rd
<1>7. CASE MainRequest(ip, t, f)
  <2>1. View(ip, t, f)
    BY <1>7 DEF MainRequest, View
  <2>2. CASE Trip(ip, t, f)
    <3>1. Conclude(ip, Viewed(ip, t, f), TRUE) /\ TripEnds(ip, t, f, Viewed(ip, t, f), TRUE)
      BY <1>7, <2>2 DEF MainRequest, Trip, Viewed, TripEnds
    <3> QED
      BY <1>2, <1>3, <3>1 DEF Path
  <2>3. CASE ~ Trip(ip, t, f)
    <3>1. NextPage(ip, Viewed(ip, t, f), f, FALSE)
      BY <1>7, <2>3 DEF MainRequest, Trip, Viewed
    <3> QED
      BY <1>2, <1>3, <2>1, <2>3, <3>1, NextPagePaths
  <2> QED
    BY <2>2, <2>3
<1>8. CASE IgnoredRequest(ip, t, f)
  <2>1. Conclude(ip, rd, FALSE) /\ Plain(ip, t, f, rd, FALSE)
    BY <1>8 DEF IgnoredRequest, Plain, Viewable, rd
  <2> QED
    BY <1>2, <1>3, <2>1 DEF Path
<1>9. CASE AllowedObject(ip, t, f)
  <2>1. Conclude(ip, TakeAllowed(rd, t, f), FALSE) /\ Taken(ip, t, f, TakeAllowed(rd, t, f), FALSE)
    BY <1>9 DEF AllowedObject, Taken, Viewable, rd
  <2>2. TakeAllowed(rd, t, f) \in UserData
    BY <1>1, <1>3, <2>1, TakeAllowedType DEF Taken, rd
  <2> QED
    BY <1>2, <2>1, <2>2 DEF Path
<1>10. CASE UnlistedObject(ip, t, f)
  <2>1. View(ip, t, f) /\ NextPage(ip, Viewed(ip, t, f), f, Trip(ip, t, f))
    BY <1>10 DEF UnlistedObject, View, Viewable, Viewed, Trip
  <2> QED
    BY <1>2, <1>3, <1>4, <2>1, NextPagePaths
<1> QED
  BY <1>6, <1>7, <1>8, <1>9, <1>10 DEF beAFRADE

-----------------------------------------------------------------------------
(***************************************************************************)
(* An invariant of the users at large, proved for one record: it has to    *)
(* survive the lines of other users, and a line of its own that does not   *)
(* convict.  Good is the invariant as the set of records that have it,     *)
(* given the address and a history.                                        *)
(***************************************************************************)
Of(ip) == {r \in Request : r.ip = ip /\ r.time # 1}

Line(ip, t, f) == [ip |-> ip, time |-> t, uri |-> f]

LEMMA RequestsHit == handled \in Seq(Request) => \A ip : Requests(ip) = Hits(handled, Of(ip))
BY DEF Requests, Hits, Of

\* An address without a record has no lines but those of the proxy.
HInv ==
    /\ IInv
    /\ \A ip \in IP \ DOMAIN users : Hits(handled, Of(ip)) = {}

\* Every step but a stutter adds a line.
LEMMA Lines ==
    ASSUME IInv, Next
    PROVE  \E ip \in IP, f \in URI :
              \/ /\ Line(ip, 1, f) \in Request
                 /\ handled' = Append(handled, Line(ip, 1, f))
                 /\ users' = users /\ blacklistIP(ip)
              \/ \E t \in 2 .. MaxTime, ud \in UserData, convict \in BOOLEAN :
                    /\ Line(ip, t, f) \in Request
                    /\ Timely(t)
                    /\ handled' = Append(handled, Line(ip, t, f))
                    /\ Path(ip, t, f, ud, convict)
                    /\ Conclude(ip, ud, convict)
<1>1. PICK ip \in IP, f \in URI :
          ProxyBlock(ip, f) \/ \E t \in 2 .. MaxTime : Timely(t) /\ beAFRADE(ip, t, f)
  BY DEF Next
<1>2. \A t \in 1 .. MaxTime : Line(ip, t, f) \in Request
  BY DEF Line, Request
<1>3. CASE ProxyBlock(ip, f)
  BY <1>2, <1>3, FRADEAssumption DEF ProxyBlock, Receive, Line
<1>4. ASSUME NEW t \in 2 .. MaxTime, Timely(t), beAFRADE(ip, t, f)
      PROVE  \E ud \in UserData, convict \in BOOLEAN :
                /\ Line(ip, t, f) \in Request
                /\ Timely(t)
                /\ handled' = Append(handled, Line(ip, t, f))
                /\ Path(ip, t, f, ud, convict)
                /\ Conclude(ip, ud, convict)
  <2>1. Receive(ip, t, f) /\ Line(ip, t, f) \in Request
    BY <1>2, <1>4, Paths, FRADEAssumption DEF IInv
  <2>2. handled' = Append(handled, Line(ip, t, f))
    BY <2>1 DEF Receive, Line
  <2>3. PICK ud \in UserData, convict \in BOOLEAN :
            Conclude(ip, ud, convict) /\ Path(ip, t, f, ud, convict)
    BY <1>4, Paths DEF IInv
  <2> QED
    BY <1>4, <2>1, <2>2, <2>3
<1> QED
  BY <1>1, <1>3, <1>4

\* A line is one of its own address, unless it is the proxy's.
LEMMA LineOf ==
    ASSUME NEW ip \in IP, NEW t \in 1 .. MaxTime, NEW f \in URI
    PROVE  \A x \in IP : Line(ip, t, f) \in Of(x) <=> x = ip /\ t # 1
BY DEF Line, Of, Request

LEMMA HistoryInductive == HInv /\ [Next]_vars => HInv'
<1> SUFFICES ASSUME HInv, [Next]_vars PROVE HInv'
  OBVIOUS
<1>1. IInv'
  BY Inductive DEF HInv
<1>2. handled \in Seq(Request)
  BY DEF HInv, IInv, TypeOK
<1>3. CASE UNCHANGED vars
  BY <1>1, <1>3 DEF HInv, vars
<1>4. CASE Next
  <2>1. PICK ip \in IP, f \in URI :
            \/ /\ Line(ip, 1, f) \in Request
               /\ handled' = Append(handled, Line(ip, 1, f))
               /\ users' = users
            \/ \E t \in 2 .. MaxTime :
                  /\ Line(ip, t, f) \in Request
                  /\ handled' = Append(handled, Line(ip, t, f))
                  /\ DOMAIN users' = DOMAIN users \cup {ip}
    BY <1>4, Lines DEF HInv, Conclude
  <2>2. ASSUME NEW t \in 1 .. MaxTime, handled' = Append(handled, Line(ip, t, f)),
               Line(ip, t, f) \in Request, NEW x \in IP, x # ip \/ t = 1,
               Hits(handled, Of(x)) = {}
        PROVE  Hits(handled', Of(x)) = {}
    <3>1. Line(ip, t, f) \notin Of(x)
      BY <2>2, LineOf
    <3> QED
      BY <1>2, <2>2, <3>1, HitsAppend
  <2>3. 1 \in 1 .. MaxTime /\ 2 .. MaxTime \subseteq 1 .. MaxTime
    BY FRADEAssumption
  <2> QED
    BY <1>1, <2>1, <2>2, <2>3 DEF HInv
<1> QED
  BY <1>3, <1>4

LEMMA HistoryInitially == Init => HInv
BY Initially DEF Init, HInv, Hits

LEMMA UserInductive ==
    ASSUME HInv, [Next]_vars, NEW Good,
           \A ip \in DOMAIN users \ blacklist : users[ip] \in Good[ip][handled],
           \A h \in Seq(Request), r \in Request, ip \in IP :
               r \notin Of(ip) => Good[ip][h] \subseteq Good[ip][Append(h, r)],
           \A ip \in IP \ blacklist, t \in 2 .. MaxTime, f \in URI, ud \in UserData :
               /\ Timely(t)
               /\ Path(ip, t, f, ud, FALSE)
               => ud \in Good[ip][Append(handled, Line(ip, t, f))]
    PROVE  \A ip \in DOMAIN users' \ blacklist' : users'[ip] \in Good[ip][handled']
<1>1. /\ handled \in Seq(Request) /\ DOMAIN users \subseteq IP
  BY DEF HInv, IInv, TypeOK
<1>2. CASE UNCHANGED vars
  BY <1>2 DEF vars
<1>3. CASE Next
  <2>1. PICK ip \in IP, f \in URI :
            \/ /\ Line(ip, 1, f) \in Request
               /\ handled' = Append(handled, Line(ip, 1, f))
               /\ users' = users /\ blacklistIP(ip)
            \/ \E t \in 2 .. MaxTime, ud \in UserData, convict \in BOOLEAN :
                  /\ Line(ip, t, f) \in Request
                  /\ Timely(t)
                  /\ handled' = Append(handled, Line(ip, t, f))
                  /\ Path(ip, t, f, ud, convict)
                  /\ Conclude(ip, ud, convict)
    BY <1>3, Lines DEF HInv
  <2>2. 1 \in 1 .. MaxTime /\ 2 .. MaxTime \subseteq 1 .. MaxTime
    BY FRADEAssumption
  <2>3. ASSUME NEW t \in 1 .. MaxTime, handled' = Append(handled, Line(ip, t, f)),
               Line(ip, t, f) \in Request, NEW x \in DOMAIN users \ blacklist, x # ip
        PROVE  users[x] \in Good[x][handled']
    <3>1. Line(ip, t, f) \notin Of(x) /\ x \in IP
      BY <1>1, <2>3, LineOf
    <3>2. Good[x][handled] \subseteq Good[x][handled']
      BY <1>1, <2>3, <3>1
    <3> QED
      BY <3>2
  <2>4. CASE /\ Line(ip, 1, f) \in Request
             /\ handled' = Append(handled, Line(ip, 1, f))
             /\ users' = users /\ blacklistIP(ip)
    <3>1. blacklist' = blacklist \cup {ip}
      BY <2>4 DEF blacklistIP
    <3> QED
      BY <2>2, <2>3, <2>4, <3>1
  <2>5. ASSUME NEW t \in 2 .. MaxTime, NEW ud \in UserData, NEW convict \in BOOLEAN,
               Line(ip, t, f) \in Request, Timely(t),
               handled' = Append(handled, Line(ip, t, f)),
               Path(ip, t, f, ud, convict), Conclude(ip, ud, convict)
        PROVE  \A x \in DOMAIN users' \ blacklist' : users'[x] \in Good[x][handled']
    <3>1. /\ DOMAIN users' = DOMAIN users \cup {ip}
          /\ \A x \in DOMAIN users' : users'[x] = IF x = ip THEN ud ELSE users[x]
      BY <2>5 DEF Conclude
    <3>2. blacklist \subseteq blacklist' /\ (convict => ip \in blacklist')
      BY <2>5 DEF Conclude, blacklistIP
    <3>3. ASSUME ip \notin blacklist'
          PROVE  ud \in Good[ip][handled']
      <4>1. Path(ip, t, f, ud, FALSE) /\ ip \in IP \ blacklist
        <5>1. convict = FALSE
          BY <3>2, <3>3
        <5> QED
          BY <2>5, <3>2, <3>3, <5>1
      <4> QED
        BY <2>5, <4>1
    <3> QED
      BY <2>2, <2>3, <2>5, <3>1, <3>2, <3>3
  <2> QED
    BY <2>1, <2>4, <2>5
<1> QED
  BY <1>2, <1>3

-----------------------------------------------------------------------------
(***************************************************************************)
(* The walk and the pages it has seen.                                     *)
(***************************************************************************)
Names(u) == {Name(u, k) : k \in Ranks(u)}

\* What a transition to f, from any node, does with the saved pointers e and p.
LEMMA TransitionFacts ==
    ASSUME NEW start, NEW f \in URI, NEW e, NEW p, NEW o \in Transition(start, f, e, p)
    PROVE  /\ Ranks(f) # {} => o.endNode \in Names(f) \cup {NULL}
           /\ Ranks(f) = {} => o.endNode \in {e, NULL}
           /\ o.prevFile = NULL => (o.endNode = NULL /\ Wildcard \in Nodes) \/ p = NULL
           /\ Ranks(f) = {} /\ Wildcard \notin Nodes => o.cost = NoFileCost
<1>1. f # NULL /\ NULL \notin URI
  BY SemanticsAssumption
<1>2. CASE << start, f >> \in DOMAIN EdgeCost
  <2>1. f \in Nodes /\ Len(Fallback(f)) \in Nat
    BY <1>2, SemanticsAssumption DEF Fallback
  <2>2. 0 \in Ranks(f) /\ Name(f, 0) = f
    BY <2>1 DEF Ranks, Name
  <2>3. o.endNode = f /\ o.prevFile = f
    BY <1>2 DEF Transition, Outcome
  <2> QED
    BY <1>1, <2>2, <2>3 DEF Names
<1>3. CASE << start, f >> \notin DOMAIN EdgeCost /\ << start, Wildcard >> \in DOMAIN EdgeCost
  <2>1. o.endNode = NULL /\ o.prevFile = NULL
    BY <1>3 DEF Transition, Outcome
  <2>2. Wildcard \in Nodes
    BY <1>3, SemanticsAssumption
  <2> QED
    BY <2>1, <2>2
<1>4. CASE /\ << start, f >> \notin DOMAIN EdgeCost
           /\ << start, Wildcard >> \notin DOMAIN EdgeCost
           /\ Pairs(start, f) # {}
  <2>1. PICK pr \in BestPair(start, f) :
            o = Outcome(PairCost(start, f, pr), Name(f, pr[2]), Name(f, pr[2]))
    BY <1>4 DEF Transition
  <2>2. pr[2] \in Ranks(f)
    BY <2>1 DEF BestPair, Pairs
  <2>3. Name(f, pr[2]) \in Names(f) /\ Name(f, pr[2]) \in URI
    BY <2>2, NameType DEF Names
  <2>4. o.endNode = Name(f, pr[2]) /\ o.prevFile = Name(f, pr[2])
    BY <2>1 DEF Outcome
  <2> QED
    BY <1>1, <2>2, <2>3, <2>4
<1>5. CASE /\ << start, f >> \notin DOMAIN EdgeCost
           /\ << start, Wildcard >> \notin DOMAIN EdgeCost
           /\ Pairs(start, f) = {}
           /\ Ranks(f) # {}
  <2>1. PICK n \in ClosestNode(f) : o = Outcome(NoFileCost, n, p)
    BY <1>5 DEF Transition
  <2>2. n \in Names(f)
    BY <2>1 DEF ClosestNode, Names
  <2>3. o.endNode = n /\ o.prevFile = p
    BY <2>1 DEF Outcome
  <2> QED
    BY <1>5, <2>2, <2>3
<1>6. CASE /\ << start, f >> \notin DOMAIN EdgeCost
           /\ << start, Wildcard >> \notin DOMAIN EdgeCost
           /\ Pairs(start, f) = {}
           /\ Ranks(f) = {}
  BY <1>6 DEF Transition, Outcome
<1> QED
  BY <1>2, <1>3, <1>4, <1>5, <1>6

LEMMA WalkFacts ==
    ASSUME NEW e \in Nodes \cup {NULL}, NEW p \in URI, NEW f \in URI,
           NEW o \in getTransitionProb2(e, p, f), ~ o.crash
    PROVE  /\ Ranks(f) # {} => o.endNode \in Names(f) \cup {NULL}
           /\ Ranks(f) = {} => o.endNode \in {e, NULL}
           /\ o.prevFile = NULL => o.endNode = NULL /\ Wildcard \in Nodes
           /\ Ranks(f) = {} /\ f \notin DOMAIN Group /\ Wildcard \notin Nodes
              => o.cost = NoFileCost
<1>1. f # NULL /\ NULL \notin URI
  BY SemanticsAssumption
<1>2. CASE e # NULL
  BY <1>1, <1>2, TransitionFacts DEF getTransitionProb2
<1>3. CASE e = NULL /\ Ranks(f) # {}
  <2>1. PICK n \in ClosestNode(f) : o = Outcome(0, n, n)
    BY <1>3 DEF getTransitionProb2, FirstFile
  <2>2. n \in Names(f) /\ n \in URI
    BY <2>1, ClosestNodeType DEF ClosestNode, Names
  <2>3. o.endNode = n /\ o.prevFile = n
    BY <2>1 DEF Outcome
  <2> QED
    BY <1>1, <1>3, <2>2, <2>3
<1>4. CASE e = NULL /\ Ranks(f) = {} /\ f \in DOMAIN Group
  <2>1. \E n \in Nodes : o \in Transition(n, f, NULL, f)
    BY <1>4 DEF getTransitionProb2, FirstFile, Crash
  <2> QED
    BY <1>1, <1>4, <2>1, TransitionFacts
<1>5. CASE e = NULL /\ Ranks(f) = {} /\ f \notin DOMAIN Group
  BY <1>1, <1>5 DEF getTransitionProb2, FirstFile, Outcome
<1> QED
  BY <1>2, <1>3, <1>4, <1>5

\* What charging a page view leaves and sets in the record.
LEMMA ViewedFields ==
    ASSUME TypeOK, NEW ip \in IP, NEW t \in 2 .. MaxTime, NEW f \in URI
    PROVE  LET rd == UserRecord(ip, t, f)
               vd == Viewed(ip, t, f)
           IN  /\ rd \in UserData /\ vd \in UserData
               /\ vd.seqLength = rd.seqLength + 1 /\ vd.seqCost = rd.seqCost
               /\ vd.prevFile = rd.prevFile /\ vd.endNode = rd.endNode
               /\ vd.current_list = main_embed[f]
<1> DEFINE rd == UserRecord(ip, t, f)
           ed == EnterPage(rd, f)
<1>1. t \in 1 .. MaxTime
  BY FRADEAssumption
<1>2. rd \in UserData /\ Viewed(ip, t, f) \in UserData
  BY <1>1, UserRecordType, ChargedType DEF Viewed
<1> HIDE DEF rd
<1>3. /\ ed \in UserData
      /\ ed.seqLength = rd.seqLength + 1 /\ ed.seqCost = rd.seqCost
      /\ ed.prevFile = rd.prevFile /\ ed.endNode = rd.endNode
      /\ ed.current_list = main_embed[f]
  BY <1>2, EnterPageType DEF EnterPage, UserData
<1> HIDE DEF ed
<1>4. Viewed(ip, t, f) = dynamics1and3(ed, t, f)
  BY DEF Viewed, Charged, ed, rd
<1>5. /\ Viewed(ip, t, f).seqLength = ed.seqLength /\ Viewed(ip, t, f).seqCost = ed.seqCost
      /\ Viewed(ip, t, f).prevFile = ed.prevFile /\ Viewed(ip, t, f).endNode = ed.endNode
      /\ Viewed(ip, t, f).current_list = ed.current_list
  BY <1>3, <1>4 DEF dynamics1and3, UserData
<1> QED
  BY <1>2, <1>3, <1>5 DEF rd

KnownViews(ip) == {r \in Of(ip) : Viewable(r.uri) /\ Ranks(r.uri) # {}}

KnownPages(ip) == {r \in Of(ip) : isMainRequest(r.uri) /\ Ranks(r.uri) # {}}

\* EndNodeTracksKnown, for any history and any one record, with what it rests
\* on: a user without a last file has no saved node.
Tracks(h, ip, ud) ==
    /\ ud.prevFile = NULL => ud.endNode = NULL
    /\ "sem" \notin activemodules => ud.endNode = NULL
    /\ ud.endNode # NULL =>
          \E k \in Hits(h, KnownViews(ip)) :
              /\ \A j \in Hits(h, KnownPages(ip)) : j <= k
              /\ ud.endNode \in Names(h[k].uri)

Tracking == [ip \in IP |-> [h \in Seq(Request) |-> {ud \in UserData : Tracks(h, ip, ud)}]]

\* It survives a line that is none of the user's known pages.
LEMMA StillTracked ==
    ASSUME NEW h \in Seq(Request), NEW r \in Request, NEW ip, r \notin KnownPages(ip),
           NEW ud, Tracks(h, ip, ud)
    PROVE  Tracks(Append(h, r), ip, ud)
<1> SUFFICES ASSUME ud.endNode # NULL
             PROVE  \E k \in Hits(Append(h, r), KnownViews(ip)) :
                       /\ \A j \in Hits(Append(h, r), KnownPages(ip)) : j <= k
                       /\ ud.endNode \in Names(Append(h, r)[k].uri)
  BY DEF Tracks
<1>1. PICK k \in Hits(h, KnownViews(ip)) :
          /\ \A j \in Hits(h, KnownPages(ip)) : j <= k
          /\ ud.endNode \in Names(h[k].uri)
  BY DEF Tracks
<1>2. Hits(Append(h, r), KnownPages(ip)) = Hits(h, KnownPages(ip))
  BY HitsAppend
<1>3. k \in Hits(Append(h, r), KnownViews(ip)) /\ Append(h, r)[k] = h[k]
  BY HitsAppend
<1> QED
  BY <1>1, <1>2, <1>3

\* Only the saved pointers matter.
LEMMA SameTracks ==
    ASSUME NEW h, NEW ip, NEW ud, NEW vd, Tracks(h, ip, ud),
           vd.endNode = ud.endNode, vd.prevFile = ud.prevFile
    PROVE  Tracks(h, ip, vd)
BY DEF Tracks

LEMMA RecordTracks ==
    ASSUME NEW ip, NEW t, NEW f, handled \in Seq(Request),
           ip \in DOMAIN users => Tracks(handled, ip, users[ip])
    PROVE  Tracks(handled, ip, UserRecord(ip, t, f))
<1>1. NewUser(t, f).endNode = NULL
  BY DEF NewUser
<1>2. Tracks(handled, ip, NewUser(t, f))
  BY <1>1 DEF Tracks
<1> QED
  BY <1>2 DEF UserRecord

\* A request that does not convict leaves the saved node at the last known page.
LEMMA PathTracks ==
    ASSUME HInv, NEW ip \in IP, NEW t \in 2 .. MaxTime, NEW f \in URI, NEW ud \in UserData,
           ip \in DOMAIN users => Tracks(handled, ip, users[ip]),
           Path(ip, t, f, ud, FALSE)
    PROVE  Tracks(Append(handled, Line(ip, t, f)), ip, ud)
<1> DEFINE rd == UserRecord(ip, t, f)
           vd == Viewed(ip, t, f)
           r == Line(ip, t, f)
           g == Append(handled, r)
<1>1. TypeOK /\ handled \in Seq(Request)
  BY DEF HInv, IInv, TypeOK
<1>2. r \in Request /\ r.uri = f
  BY FRADEAssumption DEF Line, Request
<1>3. Tracks(handled, ip, rd)
  BY <1>1, RecordTracks
<1>4. /\ rd \in UserData /\ vd \in UserData
      /\ vd.prevFile = rd.prevFile /\ vd.endNode = rd.endNode
  BY <1>1, ViewedFields
<1> HIDE DEF rd, vd
<1>5. Tracks(handled, ip, vd)
  BY <1>3, <1>4, SameTracks
<1>6. NULL \notin URI /\ NULL \notin Nodes
  BY SemanticsAssumption
<1>7. r \in KnownPages(ip) <=> isMainRequest(f) /\ Ranks(f) # {}
  <2>1. r \in Of(ip)
    BY <1>2, LineOf, FRADEAssumption
  <2> QED
    BY <1>2, <2>1 DEF KnownPages
<1>8. r \in KnownViews(ip) <=> Viewable(f) /\ Ranks(f) # {}
  <2>1. r \in Of(ip)
    BY <1>2, LineOf, FRADEAssumption
  <2> QED
    BY <1>2, <2>1 DEF KnownViews
<1> HIDE DEF r
<1>9. CASE Plain(ip, t, f, ud, FALSE)
  <2>1. ud = rd /\ ~ isMainRequest(f)
    BY <1>9 DEF Plain, Viewable, rd
  <2> QED
    BY <1>1, <1>2, <1>3, <1>7, <2>1, StillTracked DEF r
<1>10. CASE Taken(ip, t, f, ud, FALSE)
  <2>1. ~ isMainRequest(f) /\ ud.endNode = rd.endNode /\ ud.prevFile = rd.prevFile
    BY <1>4, <1>10 DEF Taken, TakeAllowed, UserData, rd
  <2>2. Tracks(handled, ip, ud)
    BY <1>3, <2>1, SameTracks
  <2> QED
    BY <1>1, <1>2, <1>7, <2>1, <2>2, StillTracked DEF r
<1>11. CASE PageRemembered(ip, t, f, ud, FALSE)
  <2>1. ud.endNode = vd.endNode /\ vd.prevFile = NULL /\ ud.prevFile = f
    BY <1>4, <1>11 DEF PageRemembered, UserData, vd
  <2>2. ud.endNode = NULL
    BY <1>5, <2>1 DEF Tracks
  <2> QED
    BY <2>2 DEF Tracks
<1>12. CASE NotJudged(ip, t, f, ud, FALSE)
  <2>1. ud = vd /\ ("sem" \notin activemodules \/ Ranks(f) = {})
    BY <1>12 DEF NotJudged, vd
  <2>2. CASE "sem" \notin activemodules
    BY <1>5, <2>1, <2>2 DEF Tracks
  <2>3. CASE Ranks(f) = {}
    BY <1>1, <1>2, <1>5, <1>7, <2>1, <2>3, StillTracked DEF r
  <2> QED
    BY <2>1, <2>2, <2>3
<1>13. CASE Judged(ip, t, f, ud, FALSE)
  <2>1. PICK o \in getTransitionProb2(vd.endNode, vd.prevFile, f) :
            ~ o.crash /\ ud = Walked(vd, o)
    BY <1>13 DEF Judged, vd
  <2>2. Viewable(f) /\ vd.prevFile # NULL /\ "sem" \in activemodules
    BY <1>13 DEF Judged, View, Viewable, vd
  <2>3. vd.endNode \in Nodes \cup {NULL} /\ vd.prevFile \in URI
    BY <1>4, <2>2 DEF UserData
  <2>4. /\ Ranks(f) # {} => o.endNode \in Names(f) \cup {NULL}
        /\ Ranks(f) = {} => o.endNode \in {vd.endNode, NULL}
        /\ o.prevFile = NULL => o.endNode = NULL
    BY <2>1, <2>3, WalkFacts
  <2>5. ud.endNode = o.endNode /\ ud.prevFile = o.prevFile
    BY <1>4, <2>1 DEF Walked, UserData
  <2>6. CASE ud.endNode = NULL
    BY <2>6 DEF Tracks
  <2>7. CASE Ranks(f) = {} /\ ud.endNode # NULL
    <3>1. Tracks(g, ip, vd)
      BY <1>1, <1>2, <1>5, <1>7, <2>7, StillTracked DEF r
    <3> HIDE DEF g
    <3> QED
      BY <2>2, <2>4, <2>5, <2>7, <3>1 DEF Tracks, g, r
  <2>8. CASE Ranks(f) # {} /\ ud.endNode # NULL
    <3> DEFINE n == Len(handled) + 1
    <3>1. /\ n \in Hits(g, KnownViews(ip)) /\ g[n] = r
          /\ \A j \in Hits(g, KnownPages(ip)) : j <= n
      <4>1. r \in KnownViews(ip)
        BY <1>8, <2>2, <2>8
      <4>2. /\ Len(handled) \in Nat /\ g[n] = r
            /\ Hits(g, KnownViews(ip)) = Hits(handled, KnownViews(ip)) \cup {n}
        BY <1>1, <1>2, <4>1, HitsAppend
      <4>3. DOMAIN g = 1 .. n
        BY <1>1
      <4>4. \A j \in Hits(g, KnownPages(ip)) : j \in 1 .. n
        BY <4>3 DEF Hits
      <4> QED
        BY <4>2, <4>4
    <3>2. ud.endNode \in Names(g[n].uri)
      BY <1>2, <2>4, <2>5, <2>8, <3>1
    <3> QED
      BY <2>2, <2>4, <2>5, <2>8, <3>1, <3>2 DEF Tracks, r
  <2> QED
    BY <2>6, <2>7, <2>8
<1> QED
  BY <1>9, <1>10, <1>11, <1>12, <1>13 DEF Path, TripEnds

WalkInv == HInv /\ \A ip \in DOMAIN users \ blacklist : Tracks(handled, ip, users[ip])

LEMMA WalkInductive == WalkInv /\ [Next]_vars => WalkInv'
<1> SUFFICES ASSUME WalkInv, [Next]_vars PROVE WalkInv'
  OBVIOUS
<1>1. HInv /\ HInv'
  BY HistoryInductive DEF WalkInv
<1>2. /\ handled \in Seq(Request) /\ handled' \in Seq(Request)
      /\ DOMAIN users \subseteq IP /\ \A ip \in DOMAIN users : users[ip] \in UserData
      /\ DOMAIN users' \subseteq IP /\ \A ip \in DOMAIN users' : users'[ip] \in UserData
  BY <1>1 DEF HInv, IInv, TypeOK, Request, UserData
<1>3. \A ip \in DOMAIN users \ blacklist : users[ip] \in Tracking[ip][handled]
  BY <1>2 DEF WalkInv, Tracking
<1>4. ASSUME NEW h \in Seq(Request), NEW r \in Request, NEW ip \in IP, r \notin Of(ip)
      PROVE  Tracking[ip][h] \subseteq Tracking[ip][Append(h, r)]
  <2>1. r \notin KnownPages(ip) /\ Append(h, r) \in Seq(Request)
    BY <1>4 DEF KnownPages
  <2> QED
    BY <2>1, StillTracked DEF Tracking
<1>5. ASSUME NEW ip \in IP \ blacklist, NEW t \in 2 .. MaxTime, NEW f \in URI,
             NEW ud \in UserData, Path(ip, t, f, ud, FALSE)
      PROVE  ud \in Tracking[ip][Append(handled, Line(ip, t, f))]
  <2>1. Tracks(Append(handled, Line(ip, t, f)), ip, ud)
    BY <1>1, <1>5, PathTracks DEF WalkInv
  <2>2. Append(handled, Line(ip, t, f)) \in Seq(Request)
    <3>1. Line(ip, t, f) \in Request
      BY FRADEAssumption DEF Line, Request
    <3> QED
      BY <1>2, <3>1
  <2> QED
    BY <2>1, <2>2 DEF Tracking
<1>6. \A ip \in DOMAIN users' \ blacklist' : users'[ip] \in Tracking[ip][handled']
  BY <1>1, <1>3, <1>4, <1>5, UserInductive
<1>7. \A ip \in DOMAIN users' \ blacklist' : Tracks(handled', ip, users'[ip])
  BY <1>2, <1>6 DEF Tracking
<1> QED
  BY <1>1, <1>7 DEF WalkInv, Tracks, Hits, Names, KnownViews, KnownPages, Of, Viewable,
                    HasQuery, isMainRequest, Ranks, Name, Fallback

\* The saved node of a user at large is a name of the last page it asked for
\* that the graph knows, or of a known object charged after it, whatever the
\* walk went through: wildcard edges, folders and groups, unknown pages, and
\* the transitions from an uninitialized variable.
THEOREM NodeTracks == Spec => []EndNodeTracksKnown
<1>1. Init => WalkInv
  BY HistoryInitially DEF Init, WalkInv
<1>2. WalkInv => EndNodeTracksKnown
  <2> SUFFICES ASSUME WalkInv, NEW ip \in DOMAIN users \ blacklist, users[ip].endNode # NULL
               PROVE  \E k \in {k \in Requests(ip) : /\ Viewable(handled[k].uri)
                                                     /\ Ranks(handled[k].uri) # {}} :
                         /\ \A j \in {j \in Requests(ip) : /\ Viewable(handled[j].uri)
                                                           /\ Ranks(handled[j].uri) # {}}
                                       \cap MainIndices(ip) : j <= k
                         /\ users[ip].endNode \in Names(handled[k].uri)
    BY DEF EndNodeTracksKnown, Names
  <2>1. handled \in Seq(Request)
    BY DEF WalkInv, HInv, IInv, TypeOK
  <2>2. PICK k \in Hits(handled, KnownViews(ip)) :
            /\ \A j \in Hits(handled, KnownPages(ip)) : j <= k
            /\ users[ip].endNode \in Names(handled[k].uri)
    BY DEF WalkInv, Tracks
  <2>3. k \in Requests(ip) /\ Viewable(handled[k].uri) /\ Ranks(handled[k].uri) # {}
    BY DEF Hits, KnownViews, Of, Requests
  <2>4. ASSUME NEW j \in Requests(ip) \cap MainIndices(ip), Ranks(handled[j].uri) # {}
        PROVE  j <= k
    <3>1. j \in Hits(handled, KnownPages(ip))
      BY <2>1, <2>4 DEF Hits, KnownPages, Of, Requests, MainIndices
    <3> QED
      BY <2>2, <3>1
  <2> QED
    BY <2>2, <2>3, <2>4
<1> QED
  BY <1>1, <1>2, WalkInductive, PTL DEF Spec

-----------------------------------------------------------------------------
(***************************************************************************)
(* The pages the graph knows nothing of.                                   *)
(***************************************************************************)
UnknownPages(ip) ==
    {r \in Of(ip) : isMainRequest(r.uri) /\ Ranks(r.uri) = {} /\ r.uri \notin DOMAIN Group}

\* UnknownPagesBounded, for any history and any one record, with the two facts
\* it rests on: before the first page there is nothing to pay for, and
\* afterwards every unknown page but one is in the cost of the sequence.
Pays(h, ip, ud) ==
    LET visits == Cardinality(Hits(h, UnknownPages(ip)))
    IN  /\ ud.prevFile = NULL => visits = 0
        /\ (visits - 1) * NoFileCost <= ud.seqCost
        /\ visits <= 1 \/ \E l \in DOMAIN SeqThreshCost : ud.seqCost < SeqThreshCost[l]

Paying == [ip \in IP |-> [h \in Seq(Request) |-> {ud \in UserData : Pays(h, ip, ud)}]]

\* It survives a line that is none of the user's unknown pages.
LEMMA StillPays ==
    ASSUME NEW h \in Seq(Request), NEW r \in Request, NEW ip, r \notin UnknownPages(ip),
           NEW ud, Pays(h, ip, ud)
    PROVE  Pays(Append(h, r), ip, ud)
BY HitsAppend DEF Pays

\* Only the last file and the cost matter.
LEMMA SamePays ==
    ASSUME NEW h, NEW ip, NEW ud, NEW vd, Pays(h, ip, ud),
           vd.prevFile = ud.prevFile, vd.seqCost = ud.seqCost
    PROVE  Pays(h, ip, vd)
BY DEF Pays

LEMMA RecordPays ==
    ASSUME HInv, NEW ip \in IP, NEW t, NEW f,
           ip \in DOMAIN users => Pays(handled, ip, users[ip])
    PROVE  Pays(handled, ip, UserRecord(ip, t, f))
<1>1. CASE ip \in DOMAIN users
  BY <1>1 DEF UserRecord
<1>2. CASE ip \notin DOMAIN users
  <2>1. Hits(handled, UnknownPages(ip)) = {}
    BY <1>2 DEF HInv, Hits, UnknownPages
  <2>2. Cardinality(Hits(handled, UnknownPages(ip))) = 0
    BY <2>1, FS_EmptySet
  <2>3. UserRecord(ip, t, f).seqCost = 0
    BY <1>2 DEF UserRecord, NewUser
  <2>4. (0 - 1) * NoFileCost <= 0
    BY SemanticsAssumption
  <2> QED
    BY <2>2, <2>3, <2>4 DEF Pays
<1> QED
  BY <1>1, <1>2

\* One more unknown page is one more NO_FILE_PROB.
LEMMA OneMore ==
    ASSUME NEW v \in Nat, NEW c \in Nat, NEW s \in Nat, (v - 1) * c <= s
    PROVE  ((v + 1) - 1) * c <= s + c
<1> DEFINE less == (v - 1) * c
           more == ((v + 1) - 1) * c
<1>1. more = less + c
  OBVIOUS
<1>2. less \in Int
  OBVIOUS
<1> HIDE DEF less, more
<1>3. less <= s => more <= s + c
  BY <1>1, <1>2
<1> QED
  BY <1>3 DEF less, more

\* A page view that does not convict either costs nothing it does not pay.
LEMMA PathPays ==
    ASSUME HInv, Wildcard \notin Nodes, "sem" \in activemodules,
           NEW ip \in IP, NEW t \in 2 .. MaxTime, NEW f \in URI, NEW ud \in UserData,
           ip \in DOMAIN users => Pays(handled, ip, users[ip]),
           Path(ip, t, f, ud, FALSE)
    PROVE  Pays(Append(handled, Line(ip, t, f)), ip, ud)
<1> DEFINE rd == UserRecord(ip, t, f)
           vd == Viewed(ip, t, f)
           r == Line(ip, t, f)
           g == Append(handled, r)
           visits == Cardinality(Hits(handled, UnknownPages(ip)))
<1>1. TypeOK /\ handled \in Seq(Request)
  BY DEF HInv, IInv, TypeOK
<1>2. r \in Request /\ r.uri = f
  BY FRADEAssumption DEF Line, Request
<1>3. Pays(handled, ip, rd)
  BY RecordPays
<1>4. /\ rd \in UserData /\ vd \in UserData
      /\ vd.prevFile = rd.prevFile /\ vd.seqCost = rd.seqCost
      /\ vd.seqLength = rd.seqLength + 1
  BY <1>1, ViewedFields
<1> HIDE DEF rd, vd
<1>5. Pays(handled, ip, vd)
  BY <1>3, <1>4, SamePays
<1>6. f # NULL /\ NULL \notin URI
  BY SemanticsAssumption
<1>7. r \in UnknownPages(ip) <=>
          isMainRequest(f) /\ Ranks(f) = {} /\ f \notin DOMAIN Group
  <2>1. r \in Of(ip)
    BY <1>2, LineOf, FRADEAssumption
  <2> QED
    BY <1>2, <2>1 DEF UnknownPages
<1>8. /\ visits \in Nat
      /\ Cardinality(Hits(g, UnknownPages(ip))) =
            IF r \in UnknownPages(ip) THEN visits + 1 ELSE visits
  BY <1>1, <1>2, HitsAppend
<1>9. NoFileCost \in Nat /\ vd.seqCost \in Nat
  BY <1>4, Costs DEF UserData
<1> HIDE DEF r
<1>10. CASE Plain(ip, t, f, ud, FALSE)
  <2>1. ud = rd /\ ~ isMainRequest(f)
    BY <1>10 DEF Plain, Viewable, rd
  <2> QED
    BY <1>1, <1>2, <1>3, <1>7, <2>1, StillPays DEF r
<1>11. CASE Taken(ip, t, f, ud, FALSE)
  <2>1. ~ isMainRequest(f) /\ ud.seqCost = rd.seqCost /\ ud.prevFile = rd.prevFile
    BY <1>4, <1>11 DEF Taken, TakeAllowed, UserData, rd
  <2>2. Pays(handled, ip, ud)
    BY <1>3, <2>1, SamePays
  <2> QED
    BY <1>1, <1>2, <1>7, <2>1, <2>2, StillPays DEF r
<1>12. CASE PageRemembered(ip, t, f, ud, FALSE)
  <2>1. ud.seqCost = vd.seqCost /\ vd.prevFile = NULL /\ ud.prevFile = f
    BY <1>4, <1>12 DEF PageRemembered, UserData, vd
  <2>2. visits = 0
    BY <1>5, <2>1 DEF Pays
  <2>3. Cardinality(Hits(g, UnknownPages(ip))) \in {0, 1}
    BY <1>8, <2>2
  <2>4. (0 - 1) * NoFileCost <= ud.seqCost /\ (1 - 1) * NoFileCost <= ud.seqCost
    BY <1>9, <2>1
  <2> HIDE DEF g, visits
  <2> QED
    BY <1>6, <2>1, <2>3, <2>4 DEF Pays, g, r
<1>13. CASE NotJudged(ip, t, f, ud, FALSE)
  <2>1. ud = vd /\ r \notin UnknownPages(ip)
    BY <1>7, <1>13 DEF NotJudged, vd
  <2> QED
    BY <1>1, <1>2, <1>5, <2>1, StillPays DEF r
<1>14. CASE Judged(ip, t, f, ud, FALSE)
  <2>1. PICK o \in getTransitionProb2(vd.endNode, vd.prevFile, f) :
            ~ o.crash /\ ud = Walked(vd, o)
    BY <1>14 DEF Judged, vd
  <2>2. vd.prevFile # NULL /\ ~ Unlikely(ud)
    BY <1>14 DEF Judged, vd
  <2>3. vd.endNode \in Nodes \cup {NULL} /\ vd.prevFile \in URI
    BY <1>4, <2>2 DEF UserData
  <2>4. /\ o.prevFile # NULL
        /\ r \in UnknownPages(ip) => o.cost = NoFileCost
    BY <1>7, <2>1, <2>3, WalkFacts
  <2>5. o.cost \in Nat
    BY <2>1, <2>3, WalkType DEF OutcomeType
  <2>6. /\ ud.seqCost = vd.seqCost + o.cost /\ ud.prevFile = o.prevFile
        /\ ud.seqLength = vd.seqLength
    BY <1>4, <2>1 DEF Walked, UserData
  <2>7. \E l \in DOMAIN SeqThreshCost : ud.seqCost < SeqThreshCost[l]
    <3>1. ud.seqLength \in Nat /\ ud.seqLength >= 2
      BY <1>4, <2>6 DEF UserData
    <3>2. LookupIndex(ud.seqLength) \in DOMAIN SeqThreshCost
      BY <3>1, ThresholdExists
    <3>3. SeqThreshCost[LookupIndex(ud.seqLength)] \in Nat /\ ud.seqCost \in Nat
      BY <1>9, <2>5, <2>6, <3>2, SemanticsAssumption
    <3> QED
      BY <2>2, <3>2, <3>3 DEF Unlikely
  <2>8. (visits - 1) * NoFileCost <= vd.seqCost
    BY <1>5 DEF Pays
  <2>9. (visits - 1) * NoFileCost \in Int
    BY <1>8, <1>9
  <2> HIDE DEF visits, g
  <2>10. (Cardinality(Hits(g, UnknownPages(ip))) - 1) * NoFileCost <= ud.seqCost
    <3>1. CASE r \in UnknownPages(ip)
      BY <1>8, <1>9, <2>4, <2>6, <2>8, <3>1, OneMore
    <3>2. CASE r \notin UnknownPages(ip)
      <4> DEFINE owed == (visits - 1) * NoFileCost
                 owes == (Cardinality(Hits(g, UnknownPages(ip))) - 1) * NoFileCost
      <4>1. owes = owed
        BY <1>8, <3>2
      <4>2. owed \in Int /\ owed <= vd.seqCost
        BY <2>8, <2>9
      <4> HIDE DEF owed, owes
      <4>3. owes <= ud.seqCost
        BY <1>9, <2>5, <2>6, <4>1, <4>2
      <4> QED
        BY <4>3 DEF owes
    <3> QED
      BY <3>1, <3>2
  <2> QED
    BY <2>4, <2>6, <2>7, <2>10 DEF Pays, g, r
<1> QED
  BY <1>10, <1>11, <1>12, <1>13, <1>14 DEF Path, TripEnds

PayInv ==
    /\ HInv
    /\ "sem" \in activemodules /\ Wildcard \notin Nodes =>
          \A ip \in DOMAIN users \ blacklist : Pays(handled, ip, users[ip])

LEMMA PayInductive == PayInv /\ [Next]_vars => PayInv'
<1> SUFFICES ASSUME PayInv, [Next]_vars PROVE PayInv'
  OBVIOUS
<1>1. HInv /\ HInv'
  BY HistoryInductive DEF PayInv
<1> SUFFICES ASSUME "sem" \in activemodules, Wildcard \notin Nodes
             PROVE  \A ip \in DOMAIN users' \ blacklist' : Pays(handled, ip, users[ip])'
  BY <1>1 DEF PayInv
<1>2. /\ handled \in Seq(Request) /\ handled' \in Seq(Request)
      /\ DOMAIN users \subseteq IP /\ \A ip \in DOMAIN users : users[ip] \in UserData
      /\ DOMAIN users' \subseteq IP /\ \A ip \in DOMAIN users' : users'[ip] \in UserData
  BY <1>1 DEF HInv, IInv, TypeOK, Request, UserData
<1>3. \A ip \in DOMAIN users \ blacklist : users[ip] \in Paying[ip][handled]
  BY <1>2 DEF PayInv, Paying
<1>4. ASSUME NEW h \in Seq(Request), NEW r \in Request, NEW ip \in IP, r \notin Of(ip)
      PROVE  Paying[ip][h] \subseteq Paying[ip][Append(h, r)]
  <2>1. r \notin UnknownPages(ip) /\ Append(h, r) \in Seq(Request)
    BY <1>4 DEF UnknownPages
  <2> QED
    BY <2>1, StillPays DEF Paying
<1>5. ASSUME NEW ip \in IP \ blacklist, NEW t \in 2 .. MaxTime, NEW f \in URI,
             NEW ud \in UserData, Path(ip, t, f, ud, FALSE)
      PROVE  ud \in Paying[ip][Append(handled, Line(ip, t, f))]
  <2>1. Pays(Append(handled, Line(ip, t, f)), ip, ud)
    BY <1>1, <1>5, PathPays DEF PayInv
  <2>2. Append(handled, Line(ip, t, f)) \in Seq(Request)
    <3>1. Line(ip, t, f) \in Request
      BY FRADEAssumption DEF Line, Request
    <3> QED
      BY <1>2, <3>1
  <2> QED
    BY <2>1, <2>2 DEF Paying
<1>6. \A ip \in DOMAIN users' \ blacklist' : users'[ip] \in Paying[ip][handled']
  BY <1>1, <1>3, <1>4, <1>5, UserInductive
<1>7. \A ip \in DOMAIN users' \ blacklist' : Pays(handled', ip, users'[ip])
  BY <1>2, <1>6 DEF Paying
<1> QED
  BY <1>7 DEF Pays, Hits, UnknownPages, Of, isMainRequest, Ranks, Name, Fallback

\* In a graph without wildcard edges nobody wanders among pages the graph does
\* not know without paying for them: all but one of those a user at large has
\* seen are in the cost of its sequence, and that is below some threshold.
THEOREM UnknownPagesPaid == Spec => []UnknownPagesBounded
<1>1. Init => PayInv
  BY HistoryInitially DEF Init, PayInv
<1>2. PayInv => UnknownPagesBounded
  <2> SUFFICES ASSUME PayInv, "sem" \in activemodules, Wildcard \notin Nodes,
                      NEW ip \in DOMAIN users \ blacklist
               PROVE  LET visits == Cardinality({k \in MainIndices(ip) :
                                                   /\ Ranks(handled[k].uri) = {}
                                                   /\ handled[k].uri \notin DOMAIN Group})
                      IN  \/ visits <= 1
                          \/ \E l \in DOMAIN SeqThreshCost :
                                (visits - 1) * NoFileCost < SeqThreshCost[l]
    BY DEF UnknownPagesBounded
  <2> DEFINE visits == Cardinality(Hits(handled, UnknownPages(ip)))
  <2>1. handled \in Seq(Request) /\ users[ip] \in UserData
    BY DEF PayInv, HInv, IInv, TypeOK
  <2>2. {k \in MainIndices(ip) : /\ Ranks(handled[k].uri) = {}
                                 /\ handled[k].uri \notin DOMAIN Group}
          = Hits(handled, UnknownPages(ip))
    BY <2>1 DEF Hits, UnknownPages, Of, Requests, MainIndices
  <2>3. /\ (visits - 1) * NoFileCost <= users[ip].seqCost
        /\ visits <= 1 \/ \E l \in DOMAIN SeqThreshCost : users[ip].seqCost < SeqThreshCost[l]
    BY DEF PayInv, Pays
  <2>4. (visits - 1) * NoFileCost \in Int /\ users[ip].seqCost \in Int
    <3>1. Hits(handled, UnknownPages(ip)) \in SUBSET (1 .. Len(handled)) /\ Len(handled) \in Nat
      BY <2>1 DEF Hits
    <3>2. visits \in Nat
      BY <3>1, PartOfInterval
    <3> QED
      BY <2>1, <3>2, Costs DEF UserData
  <2>5. \A l \in DOMAIN SeqThreshCost : SeqThreshCost[l] \in Int
    BY SemanticsAssumption
  <2> DEFINE owed == (visits - 1) * NoFileCost
  <2> HIDE DEF owed
  <2>6. visits <= 1 \/ \E l \in DOMAIN SeqThreshCost : owed < SeqThreshCost[l]
    BY <2>3, <2>4, <2>5 DEF owed
  <2> QED
    BY <2>2, <2>6 DEF owed
<1> QED
  BY <1>1, <1>2, PayInductive, PTL DEF Spec

-----------------------------------------------------------------------------
(***************************************************************************)
(* The objects the pages list.                                             *)
(***************************************************************************)
Pages(ip) == {r \in Of(ip) : isMainRequest(r.uri)}

Asks(ip, f) == {r \in Of(ip) : r.uri = f}

\* The lines that give the user a list: its page views, and its first request.
Lists(h, ip) ==
    {k \in Hits(h, Of(ip)) : Viewable(h[k].uri) \/ \A j \in Hits(h, Of(ip)) : k <= j}

ListedBy(f) == [u \in URI |-> main_embed[u][f]]

Given(h, ip, f) == Weight(h, ListedBy(f), Lists(h, ip))

Objects == {f \in URI : ~ isMainRequest(f) /\ ~ HasQuery(f)}

\* The page views of the record that no page accounts for.
Strays(h, ip, ud) == ud.seqLength - 1 - Cardinality(Hits(h, Pages(ip)))

\* EmbeddedPaid, for any history and any one record: what the user may still
\* take from the list it has counts with what it has taken.
Covered(h, ip, ud) ==
    \A f \in Objects :
        Cardinality(Hits(h, Asks(ip, f))) + ud.current_list[f]
            <= Strays(h, ip, ud) + Given(h, ip, f)

Covering == [ip \in IP |-> [h \in Seq(Request) |-> {ud \in UserData : Covered(h, ip, ud)}]]

LEMMA EmbedType ==
    ASSUME NEW f \in URI
    PROVE  ListedBy(f) \in [URI -> Nat] /\ \A u \in URI : ListedBy(f)[u] = main_embed[u][f]
BY FRADEAssumption DEF ListedBy, Bag

\* A line of the user gives a list when it may be a page view, or is the first.
LEMMA ListsAppend ==
    ASSUME NEW h \in Seq(Request), NEW r \in Request, NEW ip
    PROVE  /\ r \notin Of(ip) => Lists(Append(h, r), ip) = Lists(h, ip)
           /\ r \in Of(ip) =>
                Lists(Append(h, r), ip) =
                    IF Viewable(r.uri) \/ Hits(h, Of(ip)) = {}
                    THEN Lists(h, ip) \cup {Len(h) + 1} ELSE Lists(h, ip)
           /\ Lists(h, ip) \in SUBSET (DOMAIN h)
<1> DEFINE n == Len(h) + 1
           g == Append(h, r)
           old == Hits(h, Of(ip))
           new == Hits(g, Of(ip))
<1>1. /\ Len(h) \in Nat /\ g[n] = r
      /\ \A k \in old : k \in 1 .. Len(h) /\ g[k] = h[k]
      /\ new = IF r \in Of(ip) THEN old \cup {n} ELSE old
  BY HitsAppend
<1>2. Lists(h, ip) = {k \in old : Viewable(h[k].uri) \/ \A j \in old : k <= j}
  BY DEF Lists
<1>3. Lists(g, ip) = {k \in new : Viewable(g[k].uri) \/ \A j \in new : k <= j}
  BY DEF Lists
<1> HIDE DEF g, old, new
<1>4. ASSUME r \notin Of(ip)
      PROVE  Lists(g, ip) = Lists(h, ip)
  BY <1>1, <1>2, <1>3, <1>4
<1>5. ASSUME r \in Of(ip)
      PROVE  Lists(g, ip) =
                 IF Viewable(r.uri) \/ old = {} THEN Lists(h, ip) \cup {n} ELSE Lists(h, ip)
  <2>1. \A k \in old : k \in Lists(g, ip) <=> k \in Lists(h, ip)
    BY <1>1, <1>2, <1>3, <1>5
  <2>2. n \notin old /\ \A j \in old : j < n
    BY <1>1
  <2>3. n \in Lists(g, ip) <=> Viewable(r.uri) \/ old = {}
    <3>1. n <= n /\ \A j \in old : ~ (n <= j)
      BY <1>1, <2>2
    <3>2. (\A j \in new : n <= j) <=> old = {}
      BY <1>1, <1>5, <3>1
    <3> QED
      BY <1>1, <1>3, <1>5, <3>2
  <2>4. Lists(g, ip) \subseteq old \cup {n} /\ Lists(h, ip) \subseteq old
    BY <1>1, <1>2, <1>3, <1>5
  <2>5. \A k : k \in Lists(g, ip) <=>
                 k \in Lists(h, ip) \/ (k = n /\ (Viewable(r.uri) \/ old = {}))
    BY <2>1, <2>2, <2>3, <2>4
  <2> QED
    BY <2>5
<1>6. Lists(h, ip) \in SUBSET (DOMAIN h)
  BY <1>2 DEF old, Hits
<1> QED
  BY <1>4, <1>5, <1>6 DEF g, old

LEMMA GivenAppend ==
    ASSUME NEW h \in Seq(Request), NEW r \in Request, NEW ip, NEW f \in URI
    PROVE  /\ Given(h, ip, f) \in Nat
           /\ r \notin Of(ip) => Given(Append(h, r), ip, f) = Given(h, ip, f)
           /\ r \in Of(ip) =>
                Given(Append(h, r), ip, f) =
                    IF Viewable(r.uri) \/ Hits(h, Of(ip)) = {}
                    THEN Given(h, ip, f) + main_embed[r.uri][f] ELSE Given(h, ip, f)
<1>1. r.uri \in URI
  BY DEF Request
<1>2. /\ ListedBy(f) \in [URI -> Nat] /\ Lists(h, ip) \in SUBSET (DOMAIN h)
      /\ ListedBy(f)[r.uri] = main_embed[r.uri][f]
  BY <1>1, EmbedType, ListsAppend
<1>3. /\ Weight(h, ListedBy(f), Lists(h, ip)) \in Nat
      /\ Weight(Append(h, r), ListedBy(f), Lists(h, ip)) = Weight(h, ListedBy(f), Lists(h, ip))
      /\ Weight(Append(h, r), ListedBy(f), Lists(h, ip) \cup {Len(h) + 1})
            = Weight(h, ListedBy(f), Lists(h, ip)) + main_embed[r.uri][f]
  <2> DEFINE l == ListedBy(f)
             K == Lists(h, ip)
  <2>1. l \in [URI -> Nat] /\ K \in SUBSET (DOMAIN h) /\ l[r.uri] = main_embed[r.uri][f]
    BY <1>2
  <2> HIDE DEF l, K
  <2>2. Weight(h, l, K) \in Nat
    BY <2>1, WeightType
  <2>3. /\ Weight(Append(h, r), l, K) = Weight(h, l, K)
        /\ Weight(Append(h, r), l, K \cup {Len(h) + 1}) = Weight(h, l, K) + main_embed[r.uri][f]
    BY <2>1, WeightAppend
  <2> QED
    BY <2>2, <2>3 DEF l, K
<1> QED
  BY <1>3, ListsAppend DEF Given

LEMMA StillCovered ==
    ASSUME NEW h \in Seq(Request), NEW r \in Request, NEW ip, r \notin Of(ip),
           NEW ud, Covered(h, ip, ud)
    PROVE  Covered(Append(h, r), ip, ud)
<1> SUFFICES ASSUME NEW f \in Objects
             PROVE  Cardinality(Hits(Append(h, r), Asks(ip, f))) + ud.current_list[f]
                        <= Strays(Append(h, r), ip, ud) + Given(Append(h, r), ip, f)
  BY DEF Covered
<1>1. r \notin Asks(ip, f) /\ r \notin Pages(ip) /\ f \in URI
  BY DEF Asks, Pages, Objects
<1>2. Hits(Append(h, r), Asks(ip, f)) = Hits(h, Asks(ip, f))
  BY <1>1, HitsAppend
<1>3. Hits(Append(h, r), Pages(ip)) = Hits(h, Pages(ip))
  BY <1>1, HitsAppend
<1>4. Given(Append(h, r), ip, f) = Given(h, ip, f)
  BY <1>1, GivenAppend
<1> QED
  BY <1>2, <1>3, <1>4 DEF Covered, Strays

\* A request of the user that does not convict it: an object is taken from the
\* list, or charged; a page replaces the list by its own.
LEMMA PathCovered ==
    ASSUME HInv, "dyn2" \in activemodules,
           NEW ip \in IP, NEW t \in 2 .. MaxTime, NEW f \in URI, NEW ud \in UserData,
           ip \in DOMAIN users => Covered(handled, ip, users[ip]),
           Path(ip, t, f, ud, FALSE)
    PROVE  Covered(Append(handled, Line(ip, t, f)), ip, ud)
<1> DEFINE rd == UserRecord(ip, t, f)
           vd == Viewed(ip, t, f)
           r == Line(ip, t, f)
           h == Append(handled, r)
<1> SUFFICES ASSUME NEW x \in Objects
             PROVE  Cardinality(Hits(h, Asks(ip, x))) + ud.current_list[x]
                        <= Strays(h, ip, ud) + Given(h, ip, x)
  BY DEF Covered
<1> DEFINE asked == Cardinality(Hits(handled, Asks(ip, x)))
           pages == Cardinality(Hits(handled, Pages(ip)))
           given == Given(handled, ip, x)
           listed == main_embed[f][x]
           new == ip \notin DOMAIN users
<1>1. TypeOK /\ handled \in Seq(Request)
  BY DEF HInv, IInv, TypeOK
<1>2. r \in Request /\ r.uri = f /\ r \in Of(ip)
  BY LineOf, FRADEAssumption DEF Line, Request
<1>3. x \in URI /\ ~ isMainRequest(x) /\ Viewable(x)
  BY DEF Objects, Viewable
<1>4. /\ rd \in UserData /\ vd \in UserData
      /\ vd.seqLength = rd.seqLength + 1 /\ vd.current_list = main_embed[f]
  BY <1>1, ViewedFields
<1>5. /\ asked \in Nat /\ pages \in Nat /\ given \in Nat /\ listed \in Nat
      /\ rd.seqLength \in Nat /\ rd.current_list[x] \in Nat
  <2>1. asked \in Nat /\ pages \in Nat /\ given \in Nat
    BY <1>1, <1>2, <1>3, HitsAppend, GivenAppend
  <2>2. listed \in Nat
    BY <1>3, FRADEAssumption DEF Bag
  <2>3. rd.seqLength \in Nat /\ rd.current_list[x] \in Nat
    BY <1>3, <1>4 DEF UserData, Bag
  <2> QED
    BY <2>1, <2>2, <2>3
<1>6. Cardinality(Hits(h, Asks(ip, x))) = IF f = x THEN asked + 1 ELSE asked
  <2>1. r \in Asks(ip, x) <=> f = x
    BY <1>2 DEF Asks
  <2> QED
    BY <1>1, <1>2, <2>1, HitsAppend
<1>7. Cardinality(Hits(h, Pages(ip))) = IF isMainRequest(f) THEN pages + 1 ELSE pages
  <2>1. r \in Pages(ip) <=> isMainRequest(f)
    BY <1>2 DEF Pages
  <2> QED
    BY <1>1, <1>2, <2>1, HitsAppend
<1>8. /\ Viewable(f) \/ new => Given(h, ip, x) = given + listed
      /\ Given(h, ip, x) \in Nat /\ Given(h, ip, x) >= given
  <2>1. new => Hits(handled, Of(ip)) = {}
    BY DEF HInv
  <2>2. Given(h, ip, x) = IF Viewable(f) \/ Hits(handled, Of(ip)) = {}
                          THEN given + listed ELSE given
    BY <1>1, <1>2, <1>3, GivenAppend
  <2> HIDE DEF given, listed, h, new
  <2> QED
    BY <1>5, <2>1, <2>2
<1>9. asked + rd.current_list[x]
          <= rd.seqLength - 1 - pages + given + (IF new THEN listed ELSE 0)
  <2>1. CASE ~ new
    <3>1. rd = users[ip]
      BY <2>1 DEF UserRecord
    <3>2. asked + rd.current_list[x] <= rd.seqLength - 1 - pages + given
      BY <2>1, <3>1 DEF Covered, Strays
    <3> HIDE DEF rd, asked, pages, given, listed, new
    <3> QED
      BY <1>5, <2>1, <3>2
  <2>2. CASE new
    <3>1. Hits(handled, Asks(ip, x)) = {} /\ Hits(handled, Pages(ip)) = {}
      BY <2>2 DEF HInv, Hits, Asks, Pages
    <3>2. asked = 0 /\ pages = 0
      BY <3>1, FS_EmptySet
    <3>3. rd.seqLength = 1 /\ rd.current_list[x] = listed
      BY <2>2 DEF UserRecord, NewUser
    <3> HIDE DEF rd, asked, pages, given, listed, new
    <3> QED
      BY <1>5, <2>2, <3>2, <3>3
  <2> QED
    BY <2>1, <2>2
<1>10. Strays(h, ip, ud) = ud.seqLength - 1 - Cardinality(Hits(h, Pages(ip)))
  BY DEF Strays
<1>11. asked <= rd.seqLength - 1 - pages + given
  <2>1. CASE ~ new
    <3> HIDE DEF rd, asked, pages, given, listed, new
    <3> QED
      BY <1>5, <1>9, <2>1
  <2>2. CASE new
    <3>1. rd.current_list[x] = listed
      BY <2>2 DEF UserRecord, NewUser
    <3> HIDE DEF rd, asked, pages, given, listed, new
    <3> QED
      BY <1>5, <1>9, <2>2, <3>1
  <2> QED
    BY <2>1, <2>2
<1> HIDE DEF rd, vd, asked, pages, given, listed, new, h, r
<1>12. CASE Plain(ip, t, f, ud, FALSE)
  <2>1. ud = rd /\ ~ Viewable(f) /\ ~ isMainRequest(f)
    BY <1>12 DEF Plain, Viewable, rd
  <2>2. f # x
    BY <1>3, <2>1
  <2> QED
    BY <1>5, <1>6, <1>7, <1>8, <1>9, <1>10, <2>1, <2>2
<1>13. CASE Taken(ip, t, f, ud, FALSE)
  <2>1. /\ Viewable(f) /\ ~ isMainRequest(f) /\ ud.seqLength = rd.seqLength
        /\ ud.current_list = [rd.current_list EXCEPT ![f] = @ - 1]
        /\ rd.current_list \in [URI -> Nat] /\ rd.current_list[f] > 0
    BY <1>4, <1>13 DEF Taken, TakeAllowed, UserData, Bag, rd
  <2>2. ud.current_list[x] = IF f = x THEN rd.current_list[x] - 1 ELSE rd.current_list[x]
    BY <1>3, <2>1
  <2> QED
    BY <1>5, <1>6, <1>7, <1>8, <1>9, <1>10, <2>1, <2>2
<1>14. ASSUME View(ip, t, f), ud.seqLength = vd.seqLength, ud.current_list = vd.current_list
       PROVE  Cardinality(Hits(h, Asks(ip, x))) + ud.current_list[x]
                  <= Strays(h, ip, ud) + Given(h, ip, x)
  <2>1. Viewable(f) /\ ud.seqLength = rd.seqLength + 1 /\ ud.current_list[x] = listed
    BY <1>4, <1>14 DEF View, Viewable, listed
  <2>2. f = x => ~ isMainRequest(f)
    BY <1>3
  <2> QED
    BY <1>5, <1>6, <1>7, <1>8, <1>10, <1>11, <2>1, <2>2
<1>15. CASE PageRemembered(ip, t, f, ud, FALSE)
  BY <1>4, <1>14, <1>15 DEF PageRemembered, UserData, vd
<1>16. CASE NotJudged(ip, t, f, ud, FALSE)
  BY <1>14, <1>16 DEF NotJudged, vd
<1>17. CASE Judged(ip, t, f, ud, FALSE)
  BY <1>4, <1>14, <1>17 DEF Judged, Walked, UserData, vd
<1> QED
  BY <1>12, <1>13, <1>15, <1>16, <1>17 DEF Path, TripEnds

PaidInv ==
    /\ HInv
    /\ "dyn2" \in activemodules =>
          \A ip \in DOMAIN users \ blacklist : Covered(handled, ip, users[ip])

LEMMA PaidInductive == PaidInv /\ [Next]_vars => PaidInv'
<1> SUFFICES ASSUME PaidInv, [Next]_vars PROVE PaidInv'
  OBVIOUS
<1>1. HInv /\ HInv'
  BY HistoryInductive DEF PaidInv
<1> SUFFICES ASSUME "dyn2" \in activemodules
             PROVE  \A ip \in DOMAIN users' \ blacklist' : Covered(handled, ip, users[ip])'
  BY <1>1 DEF PaidInv
<1>2. /\ handled \in Seq(Request) /\ handled' \in Seq(Request)
      /\ DOMAIN users \subseteq IP /\ \A ip \in DOMAIN users : users[ip] \in UserData
      /\ DOMAIN users' \subseteq IP /\ \A ip \in DOMAIN users' : users'[ip] \in UserData
  BY <1>1 DEF HInv, IInv, TypeOK, Request, UserData
<1>3. \A ip \in DOMAIN users \ blacklist : users[ip] \in Covering[ip][handled]
  BY <1>2 DEF PaidInv, Covering
<1>4. ASSUME NEW h \in Seq(Request), NEW r \in Request, NEW ip \in IP, r \notin Of(ip)
      PROVE  Covering[ip][h] \subseteq Covering[ip][Append(h, r)]
  BY <1>4, StillCovered DEF Covering
<1>5. ASSUME NEW ip \in IP \ blacklist, NEW t \in 2 .. MaxTime, NEW f \in URI,
             NEW ud \in UserData, Path(ip, t, f, ud, FALSE)
      PROVE  ud \in Covering[ip][Append(handled, Line(ip, t, f))]
  <2>1. Covered(Append(handled, Line(ip, t, f)), ip, ud)
    BY <1>1, <1>5, PathCovered DEF PaidInv
  <2>2. Append(handled, Line(ip, t, f)) \in Seq(Request)
    <3>1. Line(ip, t, f) \in Request
      BY FRADEAssumption DEF Line, Request
    <3> QED
      BY <1>2, <3>1
  <2> QED
    BY <2>1, <2>2 DEF Covering
<1>6. \A ip \in DOMAIN users' \ blacklist' : users'[ip] \in Covering[ip][handled']
  BY <1>1, <1>3, <1>4, <1>5, UserInductive
<1>7. \A ip \in DOMAIN users' \ blacklist' : Covered(handled', ip, users'[ip])
  BY <1>2, <1>6 DEF Covering
<1> QED
  BY <1>7 DEF Covered, Objects, Hits, Asks, Pages, Strays, Given, Lists, ListedBy, Weight, Of,
              Viewable, HasQuery, isMainRequest

\* However a user interleaves pages and objects, and whatever its first request
\* is, it has had every embedded object at most as often as the pages it asked
\* for list it, but for those that were charged to it as page views.
THEOREM ObjectsPaid == Spec => []EmbeddedPaid
<1>1. Init => PaidInv
  BY HistoryInitially DEF Init, PaidInv
<1>2. PaidInv => EmbeddedPaid
  <2> SUFFICES ASSUME PaidInv, "dyn2" \in activemodules,
                      NEW ip \in DOMAIN users \ blacklist, NEW f \in Objects
               PROVE  Cardinality({k \in Requests(ip) : handled[k].uri = f})
                        <= users[ip].seqLength - 1 - Cardinality(MainIndices(ip))
                           + Total(ListedBy(f),
                                   {k \in Requests(ip) :
                                       \/ Viewable(handled[k].uri)
                                       \/ \A j \in Requests(ip) : k <= j})
    BY DEF EmbeddedPaid, PaidFor, Objects, ListedBy
  <2>1. handled \in Seq(Request) /\ users[ip] \in UserData /\ f \in URI
    BY DEF PaidInv, HInv, IInv, TypeOK, Objects
  <2>2. Requests(ip) = Hits(handled, Of(ip))
    BY <2>1, RequestsHit
  <2>3. {k \in Requests(ip) : handled[k].uri = f} = Hits(handled, Asks(ip, f))
    BY <2>1, <2>2 DEF Hits, Asks
  <2>4. MainIndices(ip) = Hits(handled, Pages(ip))
    BY <2>1, <2>2 DEF Hits, Pages, MainIndices
  <2>5. {k \in Requests(ip) : \/ Viewable(handled[k].uri)
                              \/ \A j \in Requests(ip) : k <= j} = Lists(handled, ip)
    BY <2>2 DEF Lists
  <2>6. Total(ListedBy(f), Lists(handled, ip)) = Given(handled, ip, f)
    BY DEF Total, Weight, Given
  <2> DEFINE asked == Cardinality(Hits(handled, Asks(ip, f)))
             given == Given(handled, ip, f)
             strays == users[ip].seqLength - 1 - Cardinality(Hits(handled, Pages(ip)))
  <2>7. asked + users[ip].current_list[f] <= strays + given
    BY DEF PaidInv, Covered, Strays
  <2>8. asked \in Nat /\ given \in Nat /\ strays \in Int /\ users[ip].current_list[f] \in Nat
    <3>1. \A R : Cardinality(Hits(handled, R)) \in Nat
      <4>1. \A R : Hits(handled, R) \in SUBSET (1 .. Len(handled)) /\ Len(handled) \in Nat
        BY <2>1 DEF Hits
      <4> QED
        BY <4>1, PartOfInterval
    <3>2. given \in Nat
      <4>1. Lists(handled, ip) \in SUBSET (DOMAIN handled)
        BY DEF Lists, Hits
      <4> QED
        BY <2>1, <4>1, EmbedType, WeightType DEF Given
    <3> QED
      BY <2>1, <3>1, <3>2 DEF UserData, Bag
  <2> HIDE DEF asked, given, strays
  <2>9. asked <= strays + given
    BY <2>7, <2>8
  <2> QED
    BY <2>3, <2>4, <2>5, <2>6, <2>9 DEF asked, given, strays
<1> QED
  BY <1>1, <1>2, PaidInductive, PTL DEF Spec

-----------------------------------------------------------------------------
(***************************************************************************)
(* What convicts.                                                          *)
(***************************************************************************)
InWin(ip, s, w) ==
    {r \in Request : /\ r.ip = ip /\ r.time \in s .. (s + w - 1)
                     /\ r.time # 1 /\ Viewable(r.uri)}

\* The cost of the lines of ip in a window.
Spent(h, ip, s, w) == Weight(h, proc_time, Within(h, ip, s, w))

LEMMA WithinHits ==
    ASSUME NEW h \in Seq(Request), NEW ip, NEW s, NEW w
    PROVE  Within(h, ip, s, w) = Hits(h, InWin(ip, s, w)) /\ Within(h, ip, s, w) \subseteq DOMAIN h
BY DEF Within, Hits, InWin

\* One more line: no window loses a line or cost, and the cost of a line in the
\* window is added.
LEMMA SpentAppend ==
    ASSUME NEW h \in Seq(Request), NEW r \in Request, NEW ip, NEW s, NEW w
    PROVE  LET g == Append(h, r)
           IN  /\ Spent(h, ip, s, w) \in Nat /\ Spent(g, ip, s, w) \in Nat
               /\ Spent(h, ip, s, w) <= Spent(g, ip, s, w)
               /\ r \in InWin(ip, s, w) =>
                     /\ Spent(g, ip, s, w) = Spent(h, ip, s, w) + proc_time[r.uri]
                     /\ Len(h) + 1 \in Within(g, ip, s, w)
               /\ Within(h, ip, s, w) \subseteq Within(g, ip, s, w)
               /\ \A k \in DOMAIN h : k \in DOMAIN g /\ g[k] = h[k]
<1> DEFINE g == Append(h, r)
           n == Len(h) + 1
           old == Within(h, ip, s, w)
           new == Within(g, ip, s, w)
<1>1. g \in Seq(Request) /\ \A k \in DOMAIN h : k \in DOMAIN g /\ g[k] = h[k]
  OBVIOUS
<1>2. old = Hits(h, InWin(ip, s, w)) /\ new = Hits(g, InWin(ip, s, w)) /\ old \in SUBSET (DOMAIN h)
  <2> HIDE DEF g
  <2> QED
    BY <1>1, WithinHits
<1>3. new = IF r \in InWin(ip, s, w) THEN old \cup {n} ELSE old
  BY <1>2, HitsAppend
<1>4. proc_time \in [URI -> Nat] /\ proc_time[r.uri] \in Nat
  BY FRADEAssumption, LineFields
<1>5. /\ Weight(h, proc_time, old) \in Nat
      /\ Weight(g, proc_time, old) = Weight(h, proc_time, old)
      /\ Weight(g, proc_time, old \cup {n}) = Weight(h, proc_time, old) + proc_time[r.uri]
  <2>1. old \in SUBSET (DOMAIN h)
    BY <1>2
  <2> HIDE DEF old
  <2> QED
    BY <1>4, <2>1, WeightAppend, ZenonT(30)
<1> HIDE DEF g, n, old, new
<1>6. Spent(h, ip, s, w) = Weight(h, proc_time, old) /\ Spent(g, ip, s, w) = Weight(g, proc_time, new)
  BY DEF Spent, old, new
<1>7. /\ r \in InWin(ip, s, w) => n \in new
      /\ old \subseteq new
  BY <1>3
<1>8. /\ Spent(h, ip, s, w) \in Nat /\ Spent(g, ip, s, w) \in Nat
      /\ Spent(h, ip, s, w) <= Spent(g, ip, s, w)
      /\ r \in InWin(ip, s, w) => Spent(g, ip, s, w) = Spent(h, ip, s, w) + proc_time[r.uri]
  BY <1>3, <1>4, <1>5, <1>6
<1> QED
  BY <1>1, <1>7, <1>8 DEF g, n, old, new

\* A cost c of a window that starts at s is that of lines in the window, one of
\* them counted twice, and there is a line at s.
Backed(h, ip, s, w, c) ==
    /\ \E j \in DOMAIN h : h[j].ip = ip /\ h[j].time = s
    /\ \E k \in Within(h, ip, s, w) : c <= Spent(h, ip, s, w) + proc_time[h[k].uri]

Costed(h, ip, ud) ==
    \A i \in Win : IF ud.times[i] = 0 THEN ud.procs[i] = 0
                   ELSE Backed(h, ip, ud.times[i], windows[i], ud.procs[i])

\* The same of a record the line is not yet charged to: a new one has the cost
\* of the line already, but the line is not in the history.
Ready(h, ip, t, f, ud) ==
    \A i \in Win :
        IF ud.times[i] = 0 THEN ud.procs[i] = 0
        ELSE \/ Backed(h, ip, ud.times[i], windows[i], ud.procs[i])
             \/ Viewable(f) /\ ud.times[i] = t /\ ud.procs[i] = proc_time[f]

Costing == [ip \in IP |-> [h \in Seq(Request) |-> {ud \in UserData : Costed(h, ip, ud)}]]

LEMMA StillBacked ==
    ASSUME NEW h \in Seq(Request), NEW r \in Request, NEW ip, NEW s, NEW w, NEW c \in Nat,
           Backed(h, ip, s, w, c)
    PROVE  Backed(Append(h, r), ip, s, w, c)
<1>1. PICK k \in Within(h, ip, s, w) : c <= Spent(h, ip, s, w) + proc_time[h[k].uri]
  BY DEF Backed
<1>2. k \in DOMAIN h /\ h[k] \in Request
  BY DEF Within
<1>3. proc_time[h[k].uri] \in Nat
  BY <1>2, LineFields
<1> DEFINE g == Append(h, r)
<1>4. /\ k \in Within(g, ip, s, w) /\ g[k] = h[k]
      /\ Spent(h, ip, s, w) \in Nat /\ Spent(g, ip, s, w) \in Nat
      /\ Spent(h, ip, s, w) <= Spent(g, ip, s, w)
      /\ \A j \in DOMAIN h : j \in DOMAIN g /\ g[j] = h[j]
  BY <1>2, SpentAppend
<1> HIDE DEF g
<1>5. c <= Spent(g, ip, s, w) + proc_time[g[k].uri]
  BY <1>1, <1>3, <1>4
<1> QED
  BY <1>4, <1>5 DEF Backed, g

LEMMA StillCosted ==
    ASSUME NEW h \in Seq(Request), NEW r \in Request, NEW ip, NEW ud \in UserData,
           Costed(h, ip, ud)
    PROVE  Costed(Append(h, r), ip, ud)
<1>1. \A i \in Win : ud.procs[i] \in Nat
  BY DEF UserData
<1> QED
  BY <1>1, StillBacked DEF Costed

\* A line in a window backs a cost that is its own, twice.
LEMMA LineBacks ==
    ASSUME NEW h \in Seq(Request), NEW ip \in IP, NEW t \in 2 .. MaxTime, NEW f \in URI,
           Viewable(f), NEW w \in Nat \ {0}
    PROVE  Backed(Append(h, Line(ip, t, f)), ip, t, w, proc_time[f] + proc_time[f])
<1> DEFINE r == Line(ip, t, f)
           g == Append(h, r)
           n == Len(h) + 1
<1>1. r \in Request /\ r.ip = ip /\ r.time = t /\ r.uri = f /\ t # 1
  BY FRADEAssumption DEF Line, Request
<1>2. r \in InWin(ip, t, w)
  <2>1. t \in t .. (t + w - 1)
    BY FRADEAssumption
  <2> QED
    BY <1>1, <2>1 DEF InWin
<1>3. proc_time[f] \in Nat
  BY FRADEAssumption
<1>4. n \in DOMAIN g /\ g[n] = r
  OBVIOUS
<1> HIDE DEF r
<1>5. /\ Spent(h, ip, t, w) \in Nat
      /\ Spent(g, ip, t, w) = Spent(h, ip, t, w) + proc_time[f]
      /\ n \in Within(g, ip, t, w)
  BY <1>1, <1>2, SpentAppend
<1> HIDE DEF g, n
<1>6. proc_time[f] + proc_time[f] <= Spent(g, ip, t, w) + proc_time[g[n].uri]
  BY <1>1, <1>3, <1>4, <1>5
<1> QED
  BY <1>1, <1>4, <1>5, <1>6 DEF Backed, g, r

\* A smaller cost is backed as well.
LEMMA LessBacked ==
    ASSUME NEW h \in Seq(Request), NEW ip, NEW s, NEW w, NEW c \in Nat, NEW d \in Nat, d <= c,
           Backed(h, ip, s, w, c)
    PROVE  Backed(h, ip, s, w, d)
<1>1. PICK k \in Within(h, ip, s, w) : c <= Spent(h, ip, s, w) + proc_time[h[k].uri]
  BY DEF Backed
<1>2. h[k] \in Request /\ Within(h, ip, s, w) \in SUBSET (DOMAIN h)
  BY DEF Within
<1>3. proc_time[h[k].uri] \in Nat /\ Spent(h, ip, s, w) \in Nat
  <2>1. proc_time[h[k].uri] \in Nat
    BY <1>2, LineFields
  <2>2. proc_time \in [URI -> Nat]
    BY FRADEAssumption
  <2> QED
    BY <1>2, <2>1, <2>2, WeightType DEF Spent
<1>4. d <= Spent(h, ip, s, w) + proc_time[h[k].uri]
  BY <1>1, <1>3
<1> QED
  BY <1>4 DEF Backed

LEMMA RecordReady ==
    ASSUME NEW ip \in IP, NEW t \in 2 .. MaxTime, NEW f \in URI,
           ip \in DOMAIN users => Costed(handled, ip, users[ip])
    PROVE  Ready(handled, ip, t, f, UserRecord(ip, t, f))
<1>1. CASE ip \in DOMAIN users
  BY <1>1 DEF UserRecord, Costed, Ready
<1>2. CASE ip \notin DOMAIN users
  BY <1>2 DEF UserRecord, NewUser, Ready, Viewable
<1> QED
  BY <1>1, <1>2

\* When the line is in the history, the record is justified as it is.
LEMMA ReadyStays ==
    ASSUME NEW h \in Seq(Request), NEW ip \in IP, NEW t \in 2 .. MaxTime, NEW f \in URI,
           NEW ud \in UserData, Ready(h, ip, t, f, ud)
    PROVE  Costed(Append(h, Line(ip, t, f)), ip, ud)
<1> DEFINE r == Line(ip, t, f)
<1>1. r \in Request
  BY FRADEAssumption DEF Line, Request
<1> SUFFICES ASSUME NEW i \in Win, ud.times[i] # 0
             PROVE  Backed(Append(h, r), ip, ud.times[i], windows[i], ud.procs[i])
  BY DEF Costed, Ready
<1> HIDE DEF r
<1>2. ud.procs[i] \in Nat /\ windows[i] \in Nat \ {0} /\ proc_time[f] \in Nat
  BY FRADEAssumption DEF UserData, Win
<1>3. CASE Backed(h, ip, ud.times[i], windows[i], ud.procs[i])
  BY <1>1, <1>2, <1>3, StillBacked
<1>4. CASE Viewable(f) /\ ud.times[i] = t /\ ud.procs[i] = proc_time[f]
  <2>1. Backed(Append(h, r), ip, t, windows[i], proc_time[f] + proc_time[f])
    BY <1>2, <1>4, LineBacks DEF r
  <2>2. proc_time[f] + proc_time[f] \in Nat /\ proc_time[f] <= proc_time[f] + proc_time[f]
    BY <1>2
  <2>3. Append(h, r) \in Seq(Request)
    BY <1>1
  <2> QED
    BY <1>2, <1>4, <2>1, <2>2, <2>3, LessBacked
<1> QED
  BY <1>3, <1>4 DEF Ready

\* What a window in progress comes to with the line is backed.
LEMMA ChargeBacked ==
    ASSUME NEW h \in Seq(Request), NEW ip \in IP, NEW t \in 2 .. MaxTime, NEW f \in URI,
           NEW ud \in UserData, Ready(h, ip, t, f, ud), Viewable(f),
           NEW i \in Win, ~ Fresh(ud, t, i)
    PROVE  Backed(Append(h, Line(ip, t, f)), ip, ud.times[i], windows[i],
                  ud.procs[i] + proc_time[f])
<1> DEFINE r == Line(ip, t, f)
           g == Append(h, r)
           s == ud.times[i]
           w == windows[i]
<1>1. r \in Request /\ r.ip = ip /\ r.time = t /\ r.uri = f /\ t # 1 /\ t \in 1 .. MaxTime
  BY FRADEAssumption DEF Line, Request
<1>2. s # 0 /\ t \in s .. (s + w - 1)
  BY <1>1, InProgress
<1>3. r \in InWin(ip, s, w)
  BY <1>1, <1>2 DEF InWin
<1>4. ud.procs[i] \in Nat /\ w \in Nat \ {0} /\ proc_time[f] \in Nat
  BY FRADEAssumption DEF UserData, Win
<1> HIDE DEF r
<1>5. CASE Backed(h, ip, s, w, ud.procs[i])
  <2>1. PICK j \in DOMAIN h : h[j].ip = ip /\ h[j].time = s
    BY <1>5 DEF Backed
  <2>2. PICK k \in Within(h, ip, s, w) : ud.procs[i] <= Spent(h, ip, s, w) + proc_time[h[k].uri]
    BY <1>5 DEF Backed
  <2>3. h[k] \in Request /\ k \in DOMAIN h
    BY DEF Within
  <2>4. proc_time[h[k].uri] \in Nat
    BY <2>3, LineFields
  <2>5. /\ Spent(h, ip, s, w) \in Nat
        /\ Spent(g, ip, s, w) = Spent(h, ip, s, w) + proc_time[f]
        /\ k \in Within(g, ip, s, w) /\ g[k] = h[k]
        /\ j \in DOMAIN g /\ g[j] = h[j]
    BY <1>1, <1>3, <2>3, SpentAppend
  <2> HIDE DEF g, s, w
  <2>6. ud.procs[i] + proc_time[f] <= Spent(g, ip, s, w) + proc_time[g[k].uri]
    <3> DEFINE old == Spent(h, ip, s, w)
               dear == proc_time[h[k].uri]
               more == proc_time[f]
               cost == ud.procs[i]
    <3>1. old \in Nat /\ dear \in Nat /\ more \in Nat /\ cost \in Nat /\ cost <= old + dear
      BY <1>4, <2>2, <2>4, <2>5
    <3>2. Spent(g, ip, s, w) = old + more /\ proc_time[g[k].uri] = dear
      BY <2>5
    <3> HIDE DEF old, dear, more, cost
    <3>3. cost + more <= (old + more) + dear
      BY <3>1
    <3> QED
      BY <3>2, <3>3 DEF more, cost
  <2>7. \E n \in DOMAIN g : g[n].ip = ip /\ g[n].time = s
    BY <2>1, <2>5
  <2>8. \E n \in Within(g, ip, s, w) :
            ud.procs[i] + proc_time[f] <= Spent(g, ip, s, w) + proc_time[g[n].uri]
    BY <2>5, <2>6
  <2>9. Backed(g, ip, s, w, ud.procs[i] + proc_time[f])
    BY <2>7, <2>8 DEF Backed
  <2> QED
    BY <2>9 DEF g, r, s, w
<1>6. CASE ud.times[i] = t /\ ud.procs[i] = proc_time[f]
  <2>1. Backed(g, ip, t, w, proc_time[f] + proc_time[f])
    BY <1>4, LineBacks DEF r
  <2> QED
    BY <1>6, <2>1 DEF r
<1> QED
  BY <1>2, <1>5, <1>6 DEF Ready

\* Charging the line keeps the costs justified.
LEMMA ChargeCosted ==
    ASSUME NEW h \in Seq(Request), NEW ip \in IP, NEW t \in 2 .. MaxTime, NEW f \in URI,
           NEW ud \in UserData, Ready(h, ip, t, f, ud), Viewable(f)
    PROVE  Costed(Append(h, Line(ip, t, f)), ip, Charged(ud, t, f))
<1> DEFINE g == Append(h, Line(ip, t, f))
           e == EnterPage(ud, f)
           c == Charged(ud, t, f)
<1>1. Line(ip, t, f) \in Request /\ t \in 1 .. MaxTime /\ t # 0
  BY FRADEAssumption DEF Line, Request
<1>2. e \in UserData /\ e.procs = ud.procs /\ e.times = ud.times
  BY EnterPageType DEF EnterPage, UserData
<1>3. Ready(h, ip, t, f, e)
  BY <1>2 DEF Ready
<1> HIDE DEF e
<1>4. /\ c.procs = [i \in Win |-> IF ~ Reached(e, t, f, i) THEN e.procs[i]
                                   ELSE IF Fresh(e, t, i) THEN proc_time[f]
                                        ELSE e.procs[i] + proc_time[f]]
      /\ c.times = [i \in Win |-> IF Reached(e, t, f, i) /\ Fresh(e, t, i)
                                   THEN t ELSE e.times[i]]
  BY <1>2 DEF Charged, dynamics1and3, UserData, e
<1> SUFFICES ASSUME NEW i \in Win
             PROVE  IF c.times[i] = 0 THEN c.procs[i] = 0
                    ELSE Backed(g, ip, c.times[i], windows[i], c.procs[i])
  BY DEF Costed
<1> HIDE DEF c
<1>5. CASE ~ Reached(e, t, f, i)
  <2>1. c.times[i] = e.times[i] /\ c.procs[i] = e.procs[i]
    BY <1>4, <1>5
  <2>2. Costed(g, ip, e)
    BY <1>2, <1>3, ReadyStays
  <2> HIDE DEF g
  <2> QED
    BY <2>1, <2>2 DEF Costed
<1>6. CASE Reached(e, t, f, i) /\ Fresh(e, t, i)
  <2>1. c.times[i] = t /\ c.procs[i] = proc_time[f]
    BY <1>4, <1>6
  <2>2. windows[i] \in Nat \ {0} /\ proc_time[f] \in Nat
    BY FRADEAssumption DEF Win
  <2>3. Backed(g, ip, t, windows[i], proc_time[f] + proc_time[f])
    BY <2>2, LineBacks
  <2>4. g \in Seq(Request)
    BY <1>1
  <2>5. proc_time[f] + proc_time[f] \in Nat /\ proc_time[f] <= proc_time[f] + proc_time[f]
    BY <2>2
  <2> HIDE DEF g
  <2>6. Backed(g, ip, t, windows[i], proc_time[f])
    BY <2>2, <2>3, <2>4, <2>5, LessBacked
  <2> QED
    BY <1>1, <2>1, <2>6
<1>7. CASE Reached(e, t, f, i) /\ ~ Fresh(e, t, i)
  <2>1. c.times[i] = e.times[i] /\ c.procs[i] = e.procs[i] + proc_time[f]
    BY <1>4, <1>7
  <2>2. e.times[i] # 0
    BY <1>1, <1>2, <1>7, InProgress
  <2>3. Backed(g, ip, e.times[i], windows[i], e.procs[i] + proc_time[f])
    BY <1>2, <1>3, <1>7, ChargeBacked
  <2> QED
    BY <2>1, <2>2, <2>3
<1> QED
  BY <1>5, <1>6, <1>7

\* Evidence, for any history and any one record: what the log shows, and the walk.
OnLog(h, ip) ==
    \/ \E k \in DOMAIN h :
          /\ h[k].ip = ip
          /\ h[k].time = 1 \/ ("dec" \in activemodules /\ h[k].uri \in dummy_links)
    \/ /\ "dyn1" \in activemodules
       /\ \E i \in Win, j \in DOMAIN h :
             /\ h[j].ip = ip
             /\ Cardinality(Within(h, ip, h[j].time, windows[i])) + 1 > dyn1Threshes[i]
    \/ /\ "dyn3" \in activemodules
       /\ \E i \in Win, j \in DOMAIN h :
             /\ h[j].ip = ip
             /\ \E k \in Within(h, ip, h[j].time, windows[i]) :
                   Spent(h, ip, h[j].time, windows[i]) + proc_time[h[k].uri] > dyn3Threshes[i]

OnWalk(ud) ==
    "sem" \in activemodules /\ \E l \in DOMAIN SeqThreshCost : ud.seqCost >= SeqThreshCost[l]

Shows(ip) == OnLog(handled, ip) \/ (ip \in DOMAIN users /\ OnWalk(users[ip]))

LEMMA EvidenceIs == \A ip : Evidence(ip) <=> Shows(ip)
<1> TAKE ip
<1>1. \A s, w : InWindow(ip, s, w) = Within(handled, ip, s, w)
  BY DEF InWindow, Within
<1>2. \A s, w : CostOf(InWindow(ip, s, w)) = Spent(handled, ip, s, w)
  BY <1>1 DEF CostOf, Total, Spent, Weight
<1>3. \A s : s \in Times(ip) <=> \E j \in DOMAIN handled : handled[j].ip = ip /\ handled[j].time = s
  BY DEF Times
<1>4. (\E i \in Win, s \in Times(ip) :
          Cardinality(InWindow(ip, s, windows[i])) + 1 > dyn1Threshes[i])
      <=> \E i \in Win, j \in DOMAIN handled :
             /\ handled[j].ip = ip
             /\ Cardinality(Within(handled, ip, handled[j].time, windows[i])) + 1 > dyn1Threshes[i]
  BY <1>1, <1>3
<1>5. (\E i \in Win, s \in Times(ip) :
          \E k \in InWindow(ip, s, windows[i]) :
             CostOf(InWindow(ip, s, windows[i])) + proc_time[handled[k].uri] > dyn3Threshes[i])
      <=> \E i \in Win, j \in DOMAIN handled :
             /\ handled[j].ip = ip
             /\ \E k \in Within(handled, ip, handled[j].time, windows[i]) :
                   Spent(handled, ip, handled[j].time, windows[i]) + proc_time[handled[k].uri]
                       > dyn3Threshes[i]
  BY <1>1, <1>2, <1>3
<1> QED
  BY <1>4, <1>5 DEF Evidence, Shows, OnLog, OnWalk

\* What the log has shown it still shows when it grows.
LEMMA OnLogGrows ==
    ASSUME NEW h \in Seq(Request), NEW r \in Request, NEW ip, OnLog(h, ip)
    PROVE  OnLog(Append(h, r), ip)
<1> DEFINE g == Append(h, r)
<1>1. \A k \in DOMAIN h : k \in DOMAIN g /\ g[k] = h[k] /\ h[k] \in Request
  OBVIOUS
<1>2. \A i \in Win : dyn1Threshes[i] \in Nat /\ dyn3Threshes[i] \in Nat
  BY FRADEAssumption
<1>3. \A s, w : /\ Cardinality(Within(h, ip, s, w)) \in Nat
                /\ Cardinality(Within(g, ip, s, w)) \in Nat
                /\ Cardinality(Within(h, ip, s, w)) <= Cardinality(Within(g, ip, s, w))
  BY WithinGrows
<1>4. \A s, w : /\ Spent(h, ip, s, w) \in Nat /\ Spent(g, ip, s, w) \in Nat
                /\ Spent(h, ip, s, w) <= Spent(g, ip, s, w)
                /\ Within(h, ip, s, w) \subseteq Within(g, ip, s, w)
  BY SpentAppend
<1>5. \A s, w : Within(h, ip, s, w) \subseteq DOMAIN h
  BY DEF Within
<1> HIDE DEF g
<1>6. CASE \E k \in DOMAIN h :
              /\ h[k].ip = ip
              /\ h[k].time = 1 \/ ("dec" \in activemodules /\ h[k].uri \in dummy_links)
  BY <1>1, <1>6 DEF OnLog, g
<1>7. CASE /\ "dyn1" \in activemodules
           /\ \E i \in Win, j \in DOMAIN h :
                 /\ h[j].ip = ip
                 /\ Cardinality(Within(h, ip, h[j].time, windows[i])) + 1 > dyn1Threshes[i]
  <2>1. PICK i \in Win, j \in DOMAIN h :
            /\ h[j].ip = ip
            /\ Cardinality(Within(h, ip, h[j].time, windows[i])) + 1 > dyn1Threshes[i]
    BY <1>7
  <2>2. j \in DOMAIN g /\ g[j] = h[j]
    BY <1>1
  <2>3. Cardinality(Within(g, ip, h[j].time, windows[i])) + 1 > dyn1Threshes[i]
    BY <1>2, <1>3, <2>1
  <2> QED
    BY <1>7, <2>1, <2>2, <2>3 DEF OnLog, g
<1>8. CASE /\ "dyn3" \in activemodules
           /\ \E i \in Win, j \in DOMAIN h :
                 /\ h[j].ip = ip
                 /\ \E k \in Within(h, ip, h[j].time, windows[i]) :
                       Spent(h, ip, h[j].time, windows[i]) + proc_time[h[k].uri]
                           > dyn3Threshes[i]
  <2>1. PICK i \in Win, j \in DOMAIN h :
            /\ h[j].ip = ip
            /\ \E k \in Within(h, ip, h[j].time, windows[i]) :
                  Spent(h, ip, h[j].time, windows[i]) + proc_time[h[k].uri] > dyn3Threshes[i]
    BY <1>8
  <2> DEFINE s == h[j].time
             w == windows[i]
  <2>2. PICK k \in Within(h, ip, s, w) :
            Spent(h, ip, s, w) + proc_time[h[k].uri] > dyn3Threshes[i]
    BY <2>1
  <2>3. j \in DOMAIN g /\ g[j] = h[j] /\ g[k] = h[k] /\ k \in Within(g, ip, s, w) /\ h[k] \in Request
    BY <1>1, <1>4, <1>5
  <2>4. proc_time[h[k].uri] \in Nat
    BY <2>3, LineFields
  <2> HIDE DEF s, w
  <2>5. Spent(g, ip, s, w) + proc_time[g[k].uri] > dyn3Threshes[i]
    BY <1>2, <1>4, <2>2, <2>3, <2>4
  <2> QED
    BY <1>8, <2>1, <2>3, <2>5 DEF OnLog, g, s, w
<1> QED
  BY <1>6, <1>7, <1>8 DEF OnLog

\* A window that trips is evidence, once the line is in the log.
LEMMA TripShows ==
    ASSUME NEW h \in Seq(Request), NEW ip \in IP, NEW t \in 2 .. MaxTime, NEW f \in URI,
           NEW ud \in UserData, Ready(h, ip, t, f, ud), CountedIn(h, ip, ud), Viewable(f),
           Tripped(EnterPage(ud, f), t, f)
    PROVE  OnLog(Append(h, Line(ip, t, f)), ip)
<1> DEFINE r == Line(ip, t, f)
           g == Append(h, r)
           e == EnterPage(ud, f)
<1>1. r \in Request /\ r.ip = ip /\ r.time = t /\ r.uri = f /\ t # 1 /\ t \in 1 .. MaxTime
  BY FRADEAssumption DEF Line, Request
<1>2. e \in UserData /\ e.procs = ud.procs /\ e.times = ud.times /\ e.counts = ud.counts
  BY EnterPageType DEF EnterPage, UserData
<1>3. Ready(h, ip, t, f, e) /\ CountedIn(h, ip, e)
  BY <1>2 DEF Ready, CountedIn
<1> HIDE DEF e, r
<1>4. PICK i \in Win : Trips(e, t, f, i)
  BY DEF Tripped, e
<1> DEFINE s == e.times[i]
           w == windows[i]
<1>5. ~ Fresh(e, t, i)
  BY <1>4 DEF Trips
<1>6. s # 0 /\ t \in s .. (s + w - 1)
  BY <1>1, <1>2, <1>5, InProgress
<1>7. Backed(g, ip, s, w, e.procs[i] + proc_time[f])
  BY <1>2, <1>3, <1>5, ChargeBacked DEF r
<1>8. /\ e.procs[i] \in Nat /\ e.counts[i] \in Nat /\ proc_time[f] \in Nat
      /\ dyn1Threshes[i] \in Nat /\ dyn3Threshes[i] \in Nat
  BY <1>2, FRADEAssumption DEF UserData
<1>9. PICK j \in DOMAIN g : g[j].ip = ip /\ g[j].time = s
  BY <1>7 DEF Backed
<1>10. CASE "dyn1" \in activemodules /\ e.counts[i] + 1 > dyn1Threshes[i]
  <2>1. e.counts[i] <= 1 + Cardinality(Within(h, ip, s, w))
    BY <1>3, <1>6 DEF CountedIn
  <2>2. /\ Cardinality(Within(h, ip, s, w)) \in Nat
        /\ Cardinality(Within(g, ip, s, w)) = Cardinality(Within(h, ip, s, w)) + 1
    BY <1>1, <1>6, WithinGrows
  <2> HIDE DEF g, s, w
  <2>3. Cardinality(Within(g, ip, s, w)) + 1 > dyn1Threshes[i]
    BY <1>8, <1>10, <2>1, <2>2
  <2> QED
    BY <1>9, <1>10, <2>3 DEF OnLog, g, w, r
<1>11. CASE "dyn3" \in activemodules /\ e.procs[i] + proc_time[f] > dyn3Threshes[i]
  <2>1. PICK k \in Within(g, ip, s, w) :
            e.procs[i] + proc_time[f] <= Spent(g, ip, s, w) + proc_time[g[k].uri]
    BY <1>7 DEF Backed
  <2>2. g \in Seq(Request) /\ Within(g, ip, s, w) \in SUBSET (DOMAIN g)
    BY <1>1 DEF Within
  <2> HIDE DEF g
  <2>3. g[k] \in Request /\ Spent(g, ip, s, w) \in Nat
    <3>1. Weight(g, proc_time, Within(g, ip, s, w)) \in Nat
      BY <2>2, WeightType, FRADEAssumption
    <3>2. k \in DOMAIN g
      BY <2>2
    <3> QED
      BY <2>2, <3>1, <3>2 DEF Spent
  <2>4. proc_time[g[k].uri] \in Nat
    BY <2>3, LineFields
  <2> HIDE DEF s, w
  <2>5. Spent(g, ip, s, w) + proc_time[g[k].uri] > dyn3Threshes[i]
    BY <1>8, <1>11, <2>1, <2>3, <2>4
  <2> QED
    BY <1>9, <1>11, <2>5 DEF OnLog, g, w, r
<1> QED
  BY <1>4, <1>10, <1>11 DEF Trips

\* So is whatever else convicts.
LEMMA PathShows ==
    ASSUME HInv, NEW ip \in IP, NEW t \in 2 .. MaxTime, NEW f \in URI, NEW ud \in UserData,
           Ready(handled, ip, t, f, UserRecord(ip, t, f)),
           CountedIn(handled, ip, UserRecord(ip, t, f)),
           Path(ip, t, f, ud, TRUE)
    PROVE  OnLog(Append(handled, Line(ip, t, f)), ip) \/ OnWalk(ud)
<1> DEFINE r == Line(ip, t, f)
           g == Append(handled, r)
           rd == UserRecord(ip, t, f)
           vd == Viewed(ip, t, f)
<1>1. TypeOK /\ handled \in Seq(Request)
  BY DEF HInv, IInv, TypeOK
<1>2. r \in Request /\ r.ip = ip /\ r.time = t /\ r.uri = f
  BY FRADEAssumption DEF Line, Request
<1>3. rd \in UserData /\ vd \in UserData /\ vd.seqLength = rd.seqLength + 1
  BY <1>1, ViewedFields
<1>4. ASSUME Trip(ip, t, f), Viewable(f)
      PROVE  OnLog(g, ip)
  BY <1>1, <1>3, <1>4, TripShows DEF Trip
<1>5. CASE Plain(ip, t, f, ud, TRUE)
  <2>1. "dec" \in activemodules /\ f \in dummy_links
    BY <1>5 DEF Plain
  <2>2. Len(handled) + 1 \in DOMAIN g /\ g[Len(handled) + 1] = r
    BY <1>1
  <2> QED
    BY <1>2, <2>1, <2>2 DEF OnLog
<1>6. CASE TripEnds(ip, t, f, ud, TRUE)
  BY <1>4, <1>6 DEF TripEnds, Viewable
<1>7. CASE PageRemembered(ip, t, f, ud, TRUE)
  BY <1>4, <1>7 DEF PageRemembered, View, Viewable
<1>8. CASE NotJudged(ip, t, f, ud, TRUE)
  BY <1>4, <1>8 DEF NotJudged, View, Viewable
<1>9. CASE Judged(ip, t, f, ud, TRUE)
  <2>1. Viewable(f) /\ (Trip(ip, t, f) \/ Unlikely(ud)) /\ "sem" \in activemodules
    BY <1>9 DEF Judged, View, Viewable
  <2>2. ASSUME Unlikely(ud)
        PROVE  OnWalk(ud)
    <3>1. ud.seqLength = vd.seqLength
      BY <1>3, <1>9 DEF Judged, Walked, UserData
    <3>2. ud.seqLength \in Nat /\ ud.seqLength >= 2
      BY <1>3, <3>1 DEF UserData
    <3>3. LookupIndex(ud.seqLength) \in DOMAIN SeqThreshCost
      BY <3>2, ThresholdExists
    <3> QED
      BY <2>1, <2>2, <3>3 DEF OnWalk, Unlikely
  <2> QED
    BY <1>4, <2>1, <2>2
<1> QED
  BY <1>5, <1>6, <1>7, <1>8, <1>9 DEF Path, Taken

\* The cost of a sequence never falls.
LEMMA CostRises ==
    ASSUME TypeOK, NEW ip \in IP, NEW t \in 2 .. MaxTime, NEW f \in URI, NEW ud \in UserData,
           NEW convict, Path(ip, t, f, ud, convict)
    PROVE  UserRecord(ip, t, f).seqCost <= ud.seqCost
<1> DEFINE rd == UserRecord(ip, t, f)
           vd == Viewed(ip, t, f)
<1>1. rd \in UserData /\ vd \in UserData /\ vd.seqCost = rd.seqCost
  BY ViewedFields
<1>2. rd.seqCost \in Nat
  BY <1>1 DEF UserData
<1> HIDE DEF rd, vd
<1>3. CASE Plain(ip, t, f, ud, convict)
  BY <1>2, <1>3 DEF Plain, rd
<1>4. CASE Taken(ip, t, f, ud, convict)
  <2>1. ud = TakeAllowed(rd, t, f)
    BY <1>4 DEF Taken, rd
  <2>2. ud.seqCost = rd.seqCost
    BY <1>1, <2>1 DEF TakeAllowed, UserData
  <2> QED
    BY <1>2, <2>2 DEF rd
<1>5. CASE \/ TripEnds(ip, t, f, ud, convict) \/ PageRemembered(ip, t, f, ud, convict)
           \/ NotJudged(ip, t, f, ud, convict)
  <2>1. ud.seqCost = vd.seqCost
    BY <1>1, <1>5 DEF TripEnds, PageRemembered, NotJudged, UserData, vd
  <2> QED
    BY <1>1, <1>2, <2>1 DEF rd
<1>6. CASE Judged(ip, t, f, ud, convict)
  <2>1. PICK o \in getTransitionProb2(vd.endNode, vd.prevFile, f) : ud = Walked(vd, o)
    BY <1>6 DEF Judged, vd
  <2>2. vd.endNode \in Nodes \cup {NULL} /\ vd.prevFile \in URI \cup {NULL}
    BY <1>1 DEF UserData
  <2>3. o.cost \in Nat
    BY <2>1, <2>2, WalkType DEF OutcomeType
  <2>4. ud.seqCost = vd.seqCost + o.cost
    BY <1>1, <2>1 DEF Walked, UserData
  <2> QED
    BY <1>1, <1>2, <2>3, <2>4 DEF rd
<1> QED
  BY <1>3, <1>4, <1>5, <1>6 DEF Path

\* A request that does not convict keeps the costs justified.
LEMMA PathCosted ==
    ASSUME HInv, NEW ip \in IP, NEW t \in 2 .. MaxTime, NEW f \in URI, NEW ud \in UserData,
           ip \in DOMAIN users => Costed(handled, ip, users[ip]),
           Path(ip, t, f, ud, FALSE)
    PROVE  Costed(Append(handled, Line(ip, t, f)), ip, ud)
<1> DEFINE rd == UserRecord(ip, t, f)
           vd == Viewed(ip, t, f)
           g == Append(handled, Line(ip, t, f))
<1>1. TypeOK /\ handled \in Seq(Request)
  BY DEF HInv, IInv, TypeOK
<1>2. rd \in UserData /\ vd \in UserData
  BY <1>1, ViewedFields
<1>3. Ready(handled, ip, t, f, rd)
  BY RecordReady
<1>4. Costed(g, ip, rd)
  BY <1>1, <1>2, <1>3, ReadyStays
<1>5. Viewable(f) => Costed(g, ip, vd)
  BY <1>1, <1>2, <1>3, ChargeCosted DEF Viewed
<1> HIDE DEF rd, vd, g
<1>6. ASSUME NEW wd, Costed(g, ip, wd), ud.procs = wd.procs, ud.times = wd.times
      PROVE  Costed(g, ip, ud)
  BY <1>6 DEF Costed
<1>7. CASE Plain(ip, t, f, ud, FALSE)
  BY <1>4, <1>7 DEF Plain, rd, g
<1>8. CASE Taken(ip, t, f, ud, FALSE)
  <2>1. ud = TakeAllowed(rd, t, f)
    BY <1>8 DEF Taken, rd
  <2>2. ud.procs = rd.procs /\ ud.times = rd.times
    BY <1>2, <2>1 DEF TakeAllowed, UserData
  <2> QED
    BY <1>4, <1>6, <2>2 DEF g
<1>9. CASE PageRemembered(ip, t, f, ud, FALSE)
  <2>1. ud.procs = vd.procs /\ ud.times = vd.times /\ Viewable(f)
    BY <1>2, <1>9 DEF PageRemembered, View, Viewable, UserData, vd
  <2> QED
    BY <1>5, <1>6, <2>1 DEF g
<1>10. CASE NotJudged(ip, t, f, ud, FALSE)
  BY <1>5, <1>10 DEF NotJudged, View, Viewable, vd, g
<1>11. CASE Judged(ip, t, f, ud, FALSE)
  <2>1. ud.procs = vd.procs /\ ud.times = vd.times /\ Viewable(f)
    BY <1>2, <1>11 DEF Judged, Walked, View, Viewable, UserData, vd
  <2> QED
    BY <1>5, <1>6, <2>1 DEF g
<1> QED
  BY <1>7, <1>8, <1>9, <1>10, <1>11 DEF Path, TripEnds

ConvInv ==
    /\ HInv
    /\ CountsJustified
    /\ \A ip \in DOMAIN users \ blacklist : Costed(handled, ip, users[ip])
    /\ ConvictionJustified

\* The costs of the users at large stay justified.
LEMMA CostsInductive ==
    ASSUME ConvInv, [Next]_vars
    PROVE  (\A ip \in DOMAIN users \ blacklist : Costed(handled, ip, users[ip]))'
<1>1. HInv /\ HInv'
  BY HistoryInductive DEF ConvInv
<1>2. /\ handled \in Seq(Request) /\ handled' \in Seq(Request)
      /\ DOMAIN users \subseteq IP /\ \A ip \in DOMAIN users : users[ip] \in UserData
      /\ DOMAIN users' \subseteq IP /\ \A ip \in DOMAIN users' : users'[ip] \in UserData
  BY <1>1 DEF HInv, IInv, TypeOK, Request, UserData
<1>3. \A ip \in DOMAIN users \ blacklist : users[ip] \in Costing[ip][handled]
  BY <1>2 DEF ConvInv, Costing
<1>4. ASSUME NEW h \in Seq(Request), NEW r \in Request, NEW ip \in IP, r \notin Of(ip)
      PROVE  Costing[ip][h] \subseteq Costing[ip][Append(h, r)]
  BY StillCosted DEF Costing
<1>5. ASSUME NEW ip \in IP \ blacklist, NEW t \in 2 .. MaxTime, NEW f \in URI,
             NEW ud \in UserData, Path(ip, t, f, ud, FALSE)
      PROVE  ud \in Costing[ip][Append(handled, Line(ip, t, f))]
  <2>1. Costed(Append(handled, Line(ip, t, f)), ip, ud)
    BY <1>1, <1>5, PathCosted DEF ConvInv
  <2>2. Append(handled, Line(ip, t, f)) \in Seq(Request)
    <3>1. Line(ip, t, f) \in Request
      BY FRADEAssumption DEF Line, Request
    <3> QED
      BY <1>2, <3>1
  <2> QED
    BY <2>1, <2>2 DEF Costing
<1>6. \A ip \in DOMAIN users' \ blacklist' : users'[ip] \in Costing[ip][handled']
  BY <1>1, <1>3, <1>4, <1>5, UserInductive
<1>7. \A ip \in DOMAIN users' \ blacklist' : Costed(handled', ip, users'[ip])
  BY <1>2, <1>6 DEF Costing
<1> QED
  BY <1>7 DEF Costed, Backed, Spent, Weight, Within, Viewable, HasQuery, isMainRequest

LEMMA CountedRecord ==
    ASSUME ConvInv, NEW ip \in IP, NEW t \in 2 .. MaxTime, NEW f \in URI
    PROVE  CountedIn(handled, ip, UserRecord(ip, t, f))
<1>1. t \in 1 .. MaxTime /\ handled \in Seq(Request)
  BY FRADEAssumption DEF ConvInv, HInv, IInv, TypeOK
<1>2. CASE ip \in DOMAIN users
  BY <1>2, CountsPerRecord DEF ConvInv, UserRecord
<1>3. CASE ip \notin DOMAIN users
  BY <1>1, <1>3, NewUserCounted DEF UserRecord
<1> QED
  BY <1>2, <1>3

\* Old evidence stays, and a conviction brings its own.
LEMMA StepJustified ==
    ASSUME ConvInv, Next
    PROVE  \A x \in blacklist' :
              \/ OnLog(handled', x)
              \/ x \in DOMAIN users' /\ OnWalk(users'[x])
<1>1. /\ HInv /\ TypeOK /\ handled \in Seq(Request) /\ DOMAIN users \subseteq IP
      /\ blacklist \subseteq IP
  BY DEF ConvInv, HInv, IInv, TypeOK
<1>2. \A x \in blacklist : OnLog(handled, x) \/ (x \in DOMAIN users /\ OnWalk(users[x]))
  BY EvidenceIs DEF ConvInv, ConvictionJustified, Shows
<1>3. PICK ip \in IP, f \in URI :
          \/ /\ Line(ip, 1, f) \in Request
             /\ handled' = Append(handled, Line(ip, 1, f))
             /\ users' = users /\ blacklistIP(ip)
          \/ \E t \in 2 .. MaxTime, ud \in UserData, convict \in BOOLEAN :
                /\ Line(ip, t, f) \in Request
                /\ Timely(t)
                /\ handled' = Append(handled, Line(ip, t, f))
                /\ Path(ip, t, f, ud, convict)
                /\ Conclude(ip, ud, convict)
  BY <1>1, Lines DEF HInv
<1>4. CASE /\ Line(ip, 1, f) \in Request
           /\ handled' = Append(handled, Line(ip, 1, f))
           /\ users' = users /\ blacklistIP(ip)
  <2>1. blacklist' = blacklist \cup {ip}
    BY <1>4 DEF blacklistIP
  <2>2. OnLog(handled', ip)
    <3>1. Len(handled) + 1 \in DOMAIN handled' /\ handled'[Len(handled) + 1] = Line(ip, 1, f)
      BY <1>1, <1>4
    <3>2. Line(ip, 1, f).ip = ip /\ Line(ip, 1, f).time = 1
      BY DEF Line
    <3> QED
      BY <3>1, <3>2 DEF OnLog
  <2>3. \A x \in blacklist : OnLog(handled, x) => OnLog(handled', x)
    BY <1>1, <1>4, OnLogGrows
  <2> QED
    BY <1>2, <1>4, <2>1, <2>2, <2>3
<1>5. ASSUME NEW t \in 2 .. MaxTime, NEW ud \in UserData, NEW convict \in BOOLEAN,
             Line(ip, t, f) \in Request,
             handled' = Append(handled, Line(ip, t, f)),
             Path(ip, t, f, ud, convict), Conclude(ip, ud, convict)
      PROVE  \A x \in blacklist' : \/ OnLog(handled', x)
                                   \/ x \in DOMAIN users' /\ OnWalk(users'[x])
  <2>1. /\ DOMAIN users' = DOMAIN users \cup {ip}
        /\ \A x \in DOMAIN users' : users'[x] = IF x = ip THEN ud ELSE users[x]
    BY <1>5 DEF Conclude
  <2>2. blacklist' = IF convict THEN blacklist \cup {ip} ELSE blacklist
    BY <1>5 DEF Conclude, blacklistIP
  <2>3. \A x \in blacklist : OnLog(handled, x) => OnLog(handled', x)
    BY <1>1, <1>5, OnLogGrows
  <2>4. ASSUME ip \in DOMAIN users, OnWalk(users[ip])
        PROVE  OnWalk(ud)
    <3>1. users[ip].seqCost <= ud.seqCost
      BY <1>1, <1>5, <2>4, CostRises DEF UserRecord
    <3>2. /\ users[ip].seqCost \in Nat /\ ud.seqCost \in Nat
          /\ \A l \in DOMAIN SeqThreshCost : SeqThreshCost[l] \in Nat
      <4>1. users[ip] \in UserData
        BY <1>1, <2>4 DEF TypeOK
      <4> QED
        BY <4>1, Costs DEF UserData
    <3> QED
      BY <2>4, <3>1, <3>2 DEF OnWalk
  <2>5. \A x \in blacklist : OnLog(handled', x) \/ (x \in DOMAIN users' /\ OnWalk(users'[x]))
    BY <1>2, <2>1, <2>3, <2>4
  <2>6. ASSUME convict, ip \notin blacklist
        PROVE  OnLog(handled', ip) \/ (ip \in DOMAIN users' /\ OnWalk(users'[ip]))
    <3>1. Ready(handled, ip, t, f, UserRecord(ip, t, f))
      BY <2>6, RecordReady DEF ConvInv
    <3>2. CountedIn(handled, ip, UserRecord(ip, t, f))
      BY CountedRecord
    <3>3. Path(ip, t, f, ud, TRUE)
      BY <1>5, <2>6
    <3> QED
      BY <1>1, <1>5, <2>1, <3>1, <3>2, <3>3, PathShows
  <2> QED
    BY <2>2, <2>5, <2>6
<1> QED
  BY <1>3, <1>4, <1>5

LEMMA ConvInductive == ConvInv /\ [Next]_vars => ConvInv'
<1> SUFFICES ASSUME ConvInv, [Next]_vars PROVE ConvInv'
  OBVIOUS
<1>1. HInv'
  BY HistoryInductive DEF ConvInv
<1>2. CountsJustified'
  BY CountsInductive DEF ConvInv, HInv, CInv
<1>3. (\A ip \in DOMAIN users \ blacklist : Costed(handled, ip, users[ip]))'
  BY CostsInductive
<1>4. \A x \in blacklist' : OnLog(handled', x) \/ (x \in DOMAIN users' /\ OnWalk(users'[x]))
  <2>1. CASE Next
    BY <2>1, StepJustified
  <2>2. CASE UNCHANGED vars
    BY <2>2, EvidenceIs DEF ConvInv, ConvictionJustified, Shows, vars
  <2> QED
    BY <2>1, <2>2
<1>5. ConvictionJustified'
  <2>1. (\A ip : Evidence(ip) <=> Shows(ip))'
    BY EvidenceIs, PTL
  <2>2. \A x \in blacklist' : Shows(x)'
    BY <1>4 DEF Shows, OnLog, OnWalk, Within, Spent, Weight, Viewable, HasQuery, isMainRequest
  <2> QED
    BY <2>1, <2>2 DEF ConvictionJustified
<1> QED
  BY <1>1, <1>2, <1>3, <1>5 DEF ConvInv

\* Nobody is convicted without evidence in the log: whatever the order of lines,
\* windows and modules, an address on the blacklist has a line of the proxy, a
\* dummy link, a window with too many requests or too much cost, its first one
\* weighing double, or a walk that reached a threshold.
THEOREM Justified == Spec => []ConvictionJustified
<1>1. Init => ConvInv
  BY HistoryInitially DEF Init, ConvInv, CountsJustified, ConvictionJustified
<1>2. ConvInv => ConvictionJustified
  BY DEF ConvInv
<1> QED
  BY <1>1, <1>2, ConvInductive, PTL DEF Spec

-----------------------------------------------------------------------------
(***************************************************************************)
(* The rate of a user at large, when the log is in order.                  *)
(***************************************************************************)
PagesFrom(ip, a) == {r \in Pages(ip) : r.time >= a}

PagesIn(ip, a, b) == {r \in Pages(ip) : r.time >= a /\ r.time <= b}

LEMMA HitsFinite ==
    ASSUME NEW h \in Seq(Request), NEW R
    PROVE  IsFiniteSet(Hits(h, R)) /\ Cardinality(Hits(h, R)) \in Nat
<1>1. Hits(h, R) \in SUBSET (1 .. Len(h)) /\ Len(h) \in Nat
  BY DEF Hits
<1> QED
  BY <1>1, PartOfInterval

\* Lines that are all among others, or among others and one more.
LEMMA FewerHits ==
    ASSUME NEW h \in Seq(Request), NEW R, NEW Q,
           \A k \in Hits(h, R) : h[k] \in Q
    PROVE  Cardinality(Hits(h, R)) <= Cardinality(Hits(h, Q))
<1>1. Hits(h, R) \subseteq Hits(h, Q)
  BY DEF Hits
<1> QED
  BY <1>1, HitsFinite, FS_Subset

LEMMA HitsOfTwo ==
    ASSUME NEW h \in Seq(Request), NEW R, NEW P, NEW Q,
           \A k \in Hits(h, R) : h[k] \in P \/ h[k] \in Q
    PROVE  Cardinality(Hits(h, R)) <= Cardinality(Hits(h, P)) + Cardinality(Hits(h, Q))
<1> DEFINE p == Hits(h, P)
           q == Hits(h, Q)
<1>1. IsFiniteSet(p) /\ IsFiniteSet(q) /\ Cardinality(p) \in Nat /\ Cardinality(q) \in Nat
  BY HitsFinite
<1>2. /\ IsFiniteSet(p \cup q)
      /\ Cardinality(p \cup q) = Cardinality(p) + Cardinality(q) - Cardinality(p \cap q)
  BY <1>1, FS_Union
<1>3. Cardinality(p \cap q) \in Nat
  BY <1>1, FS_Intersection, FS_CardinalityType
<1>4. Hits(h, R) \subseteq p \cup q
  BY DEF Hits
<1>5. Cardinality(Hits(h, R)) <= Cardinality(p \cup q) /\ Cardinality(Hits(h, R)) \in Nat
  BY <1>2, <1>4, HitsFinite, FS_Subset
<1> HIDE DEF p, q
<1>6. Cardinality(Hits(h, R)) <= Cardinality(p) + Cardinality(q)
  BY <1>1, <1>2, <1>3, <1>5
<1> QED
  BY <1>6 DEF p, q

LEMMA LineTimes ==
    ASSUME NEW h \in Seq(Request)
    PROVE  \A k \in DOMAIN h : h[k] \in Request /\ h[k].time \in Nat \ {0}
<1>1. \A k \in DOMAIN h : h[k] \in Request
  OBVIOUS
<1> QED
  BY <1>1, LineFields

LEMMA NoHits ==
    ASSUME NEW h \in Seq(Request), NEW R, Hits(h, R) = {}
    PROVE  Cardinality(Hits(h, R)) = 0
BY FS_EmptySet

\* A window that starts at s with the count c: no page is later than it, the
\* pages since s are counted, and those of a window's length before s are as
\* few as the threshold; so that any interval of its length holds at most twice
\* as many.
Paced(h, ip, i, s, c) ==
    /\ s = 0 => Hits(h, Pages(ip)) = {}
    /\ s # 0 =>
          /\ \A k \in Hits(h, Pages(ip)) : h[k].time <= s + windows[i] - 1
          /\ Cardinality(Hits(h, PagesFrom(ip, s))) <= c
          /\ c <= dyn1Threshes[i]
          /\ \A a \in Nat :
                a + windows[i] - 1 >= s =>
                    Cardinality(Hits(h, PagesIn(ip, a, s - 1))) <= dyn1Threshes[i]
    /\ \A a \in Nat :
          Cardinality(Hits(h, PagesIn(ip, a, a + windows[i] - 1))) <= 2 * dyn1Threshes[i]

\* The hypotheses of what follows.
RateHypothesis ==
    /\ Disorder = 0
    /\ \A i \in Win : dyn1Threshes[i] > 0

LEMMA WinType ==
    ASSUME RateHypothesis, NEW i \in Win
    PROVE  windows[i] \in Nat \ {0} /\ dyn1Threshes[i] \in Nat \ {0}
BY FRADEAssumption DEF RateHypothesis, Win

\* A window is started anew at t.
LEMMA PacedAnew ==
    ASSUME RateHypothesis, NEW h \in Seq(Request), NEW r \in Request, NEW ip, r \in Of(ip),
           NEW i \in Win, NEW s \in Nat, NEW c \in Nat, Paced(h, ip, i, s, c),
           s = 0 \/ r.time - s >= windows[i]
    PROVE  Paced(Append(h, r), ip, i, r.time, 1)
<1> DEFINE g == Append(h, r)
           n == Len(h) + 1
           w == windows[i]
           T == dyn1Threshes[i]
           t == r.time
<1>1. w \in Nat \ {0} /\ T \in Nat \ {0}
  BY WinType
<1>2. t \in Nat /\ t # 0 /\ \A k \in DOMAIN h : h[k] \in Request /\ h[k].time \in Nat
  <2>1. t \in Nat /\ t # 0
    BY LineFields
  <2> QED
    BY <2>1, LineTimes
<1>3. g \in Seq(Request) /\ Len(h) \in Nat /\ g[n] = r
  OBVIOUS
<1> HIDE DEF g, w, T, t
<1>4. \A k \in Hits(h, Pages(ip)) : h[k].time < t
  <2>1. CASE s = 0
    BY <2>1 DEF Paced
  <2>2. CASE s # 0 /\ t - s >= w
    <3>1. \A k \in Hits(h, Pages(ip)) : h[k].time <= s + w - 1 /\ k \in DOMAIN h
      BY <2>2 DEF Paced, Hits, w
    <3> QED
      BY <1>1, <1>2, <2>2, <3>1
  <2> QED
    BY <2>1, <2>2 DEF t, w
<1>5. ASSUME NEW a \in Nat, a + w - 1 >= t
      PROVE  Cardinality(Hits(h, PagesIn(ip, a, t - 1))) <= T
  <2>1. CASE s = 0
    <3>1. Hits(h, PagesIn(ip, a, t - 1)) = {}
      BY <2>1 DEF Paced, Hits, PagesIn
    <3> QED
      BY <1>1, <3>1, NoHits
  <2>2. CASE s # 0 /\ t - s >= w
    <3>1. \A k \in Hits(h, PagesIn(ip, a, t - 1)) : h[k] \in PagesFrom(ip, s)
      <4>1. a >= s
        BY <1>1, <1>2, <1>5, <2>2
      <4>2. \A k \in Hits(h, PagesIn(ip, a, t - 1)) :
                h[k] \in Pages(ip) /\ h[k].time >= a /\ h[k].time \in Nat
        BY <1>2 DEF Hits, PagesIn
      <4> QED
        BY <4>1, <4>2 DEF PagesFrom
    <3>2. Cardinality(Hits(h, PagesIn(ip, a, t - 1))) <= Cardinality(Hits(h, PagesFrom(ip, s)))
      BY <3>1, FewerHits
    <3>3. Cardinality(Hits(h, PagesFrom(ip, s))) <= c /\ c <= T
      BY <2>2 DEF Paced, T
    <3>4. /\ Cardinality(Hits(h, PagesIn(ip, a, t - 1))) \in Nat
          /\ Cardinality(Hits(h, PagesFrom(ip, s))) \in Nat
      BY HitsFinite
    <3> QED
      BY <1>1, <3>2, <3>3, <3>4
  <2> QED
    BY <2>1, <2>2 DEF t, w
<1>6. \A k \in Hits(g, Pages(ip)) : g[k].time <= t + w - 1
  <2>1. Hits(g, Pages(ip)) \subseteq Hits(h, Pages(ip)) \cup {n}
        /\ \A k \in Hits(h, Pages(ip)) : g[k] = h[k] /\ k \in DOMAIN h
    BY HitsAppend DEF g, Hits
  <2>2. ASSUME NEW k \in Hits(h, Pages(ip))
        PROVE  g[k].time <= t + w - 1
    BY <1>1, <1>2, <1>4, <2>1
  <2>3. g[n].time <= t + w - 1
    BY <1>1, <1>2, <1>3 DEF t
  <2> QED
    BY <2>1, <2>2, <2>3
<1>7. Cardinality(Hits(g, PagesFrom(ip, t))) <= 1
  <2>1. Hits(h, PagesFrom(ip, t)) = {}
    <3>1. \A k \in DOMAIN h : h[k] \in Pages(ip) => ~ (h[k].time >= t)
      BY <1>2, <1>4 DEF Hits
    <3> QED
      BY <3>1 DEF Hits, PagesFrom
  <2>2. Cardinality(Hits(h, PagesFrom(ip, t))) = 0
    BY <2>1, NoHits
  <2> QED
    BY <2>2, HitsAppend DEF g
<1>8. ASSUME NEW a \in Nat, a + w - 1 >= t
      PROVE  Cardinality(Hits(g, PagesIn(ip, a, t - 1))) <= T
  <2>1. r \notin PagesIn(ip, a, t - 1)
    BY <1>2 DEF PagesIn, t
  <2>2. Hits(g, PagesIn(ip, a, t - 1)) = Hits(h, PagesIn(ip, a, t - 1))
    BY <2>1, HitsAppend DEF g
  <2> QED
    BY <1>5, <1>8, <2>2
<1>9. ASSUME NEW a \in Nat
      PROVE  Cardinality(Hits(g, PagesIn(ip, a, a + w - 1))) <= 2 * T
  <2> DEFINE Q == PagesIn(ip, a, a + w - 1)
  <2>1. CASE r \notin Q
    <3>1. Hits(g, Q) = Hits(h, Q)
      BY <2>1, HitsAppend DEF g
    <3> QED
      BY <3>1 DEF Paced, w, T
  <2>2. CASE r \in Q
    <3>1. a + w - 1 >= t
      BY <1>1, <1>2, <2>2 DEF PagesIn, t
    <3>2. \A k \in Hits(h, Q) : h[k] \in PagesIn(ip, a, t - 1)
      <4>1. \A k \in Hits(h, Q) : /\ k \in Hits(h, Pages(ip)) /\ k \in DOMAIN h
                                  /\ h[k] \in Pages(ip) /\ h[k].time >= a
        BY DEF Hits, PagesIn
      <4>2. \A k \in Hits(h, Q) : h[k].time <= t - 1
        BY <1>2, <1>4, <4>1
      <4> QED
        BY <4>1, <4>2 DEF PagesIn
    <3>3. Cardinality(Hits(h, Q)) <= Cardinality(Hits(h, PagesIn(ip, a, t - 1)))
      BY <3>2, FewerHits
    <3>4. Cardinality(Hits(g, Q)) = Cardinality(Hits(h, Q)) + 1
      BY <2>2, HitsAppend DEF g
    <3>5. Cardinality(Hits(h, Q)) \in Nat /\ Cardinality(Hits(h, PagesIn(ip, a, t - 1))) \in Nat
      BY HitsFinite
    <3>6. Cardinality(Hits(h, PagesIn(ip, a, t - 1))) <= T
      BY <1>5, <3>1
    <3> HIDE DEF Q
    <3>7. Cardinality(Hits(g, Q)) <= 2 * T
      BY <1>1, <3>3, <3>4, <3>5, <3>6
    <3> QED
      BY <3>7 DEF Q
  <2> QED
    BY <2>1, <2>2
<1>10. 1 <= T
  BY <1>1
<1> QED
  BY <1>2, <1>6, <1>7, <1>8, <1>9, <1>10 DEF Paced, g, w, T, t

\* A window in progress counts one more.
LEMMA PacedOn ==
    ASSUME RateHypothesis, NEW h \in Seq(Request), NEW r \in Request, NEW ip, r \in Of(ip),
           NEW i \in Win, NEW s \in Nat \ {0}, NEW c \in Nat, Paced(h, ip, i, s, c),
           r.time >= s, r.time - s < windows[i], c + 1 <= dyn1Threshes[i]
    PROVE  Paced(Append(h, r), ip, i, s, c + 1)
<1> DEFINE g == Append(h, r)
           n == Len(h) + 1
           w == windows[i]
           T == dyn1Threshes[i]
           t == r.time
<1>1. w \in Nat \ {0} /\ T \in Nat \ {0}
  BY WinType
<1>2. t \in Nat /\ t # 0 /\ \A k \in DOMAIN h : h[k] \in Request /\ h[k].time \in Nat
  <2>1. t \in Nat /\ t # 0
    BY LineFields
  <2> QED
    BY <2>1, LineTimes
<1>3. g \in Seq(Request) /\ Len(h) \in Nat /\ g[n] = r /\ \A k \in DOMAIN g : g[k].time \in Nat
  <2>1. g \in Seq(Request) /\ Len(h) \in Nat /\ g[n] = r
    OBVIOUS
  <2> HIDE DEF g
  <2>2. \A k \in DOMAIN g : g[k] \in Request
    BY <2>1
  <2> QED
    BY <2>1, <2>2, LineFields
<1> HIDE DEF g, w, T, t
<1>4. \A k \in Hits(g, Pages(ip)) : g[k].time <= s + w - 1
  <2>1. Hits(g, Pages(ip)) \subseteq Hits(h, Pages(ip)) \cup {n}
        /\ \A k \in Hits(h, Pages(ip)) : g[k] = h[k] /\ k \in DOMAIN h
    BY HitsAppend DEF g, Hits
  <2>2. \A k \in Hits(h, Pages(ip)) : h[k].time <= s + w - 1
    BY DEF Paced, w
  <2>3. g[n].time <= s + w - 1
    BY <1>1, <1>2, <1>3 DEF t, w
  <2> QED
    BY <2>1, <2>2, <2>3
<1>5. Cardinality(Hits(g, PagesFrom(ip, s))) <= c + 1
  <2>1. Cardinality(Hits(h, PagesFrom(ip, s))) <= c
    BY DEF Paced
  <2>2. /\ Cardinality(Hits(h, PagesFrom(ip, s))) \in Nat
        /\ Cardinality(Hits(g, PagesFrom(ip, s))) <= Cardinality(Hits(h, PagesFrom(ip, s))) + 1
        /\ Cardinality(Hits(g, PagesFrom(ip, s))) \in Nat
    BY HitsAppend DEF g
  <2> QED
    BY <2>1, <2>2
<1>6. ASSUME NEW a \in Nat, a + w - 1 >= s
      PROVE  Cardinality(Hits(g, PagesIn(ip, a, s - 1))) <= T
  <2>1. r \notin PagesIn(ip, a, s - 1)
    BY <1>2 DEF PagesIn, t
  <2>2. Hits(g, PagesIn(ip, a, s - 1)) = Hits(h, PagesIn(ip, a, s - 1))
    BY <2>1, HitsAppend DEF g
  <2> QED
    BY <1>6, <2>2 DEF Paced, w, T
<1>7. ASSUME NEW a \in Nat
      PROVE  Cardinality(Hits(g, PagesIn(ip, a, a + w - 1))) <= 2 * T
  <2> DEFINE Q == PagesIn(ip, a, a + w - 1)
  <2>1. CASE r \notin Q
    <3>1. Hits(g, Q) = Hits(h, Q)
      BY <2>1, HitsAppend DEF g
    <3> QED
      BY <3>1 DEF Paced, w, T
  <2>2. CASE r \in Q
    <3>1. a + w - 1 >= s
      BY <1>1, <1>2, <2>2 DEF PagesIn, t
    <3>2. \A k \in Hits(g, Q) : g[k] \in PagesIn(ip, a, s - 1) \/ g[k] \in PagesFrom(ip, s)
      <4>1. \A k \in Hits(g, Q) : g[k] \in Pages(ip) /\ g[k].time >= a /\ g[k].time \in Nat
        BY <1>3 DEF Hits, PagesIn
      <4> QED
        BY <4>1 DEF PagesIn, PagesFrom
    <3>3. Cardinality(Hits(g, Q)) <= Cardinality(Hits(g, PagesIn(ip, a, s - 1)))
                                      + Cardinality(Hits(g, PagesFrom(ip, s)))
      BY <1>3, <3>2, HitsOfTwo
    <3>4. /\ Cardinality(Hits(g, Q)) \in Nat
          /\ Cardinality(Hits(g, PagesIn(ip, a, s - 1))) \in Nat
          /\ Cardinality(Hits(g, PagesFrom(ip, s))) \in Nat
      BY <1>3, HitsFinite
    <3>5. Cardinality(Hits(g, PagesIn(ip, a, s - 1))) <= T
      BY <1>6, <3>1
    <3>6. c + 1 <= T
      BY DEF T
    <3> HIDE DEF Q
    <3>7. Cardinality(Hits(g, Q)) <= 2 * T
      BY <1>1, <1>5, <3>3, <3>4, <3>5, <3>6
    <3> QED
      BY <3>7 DEF Q
  <2> QED
    BY <2>1, <2>2
<1> QED
  BY <1>4, <1>5, <1>6, <1>7 DEF Paced, g, w, T


\* A line that is none of the user's pages leaves its windows as they are.
LEMMA StillPaced ==
    ASSUME NEW h \in Seq(Request), NEW r \in Request, NEW ip, r \notin Pages(ip),
           NEW i, NEW s, NEW c, Paced(h, ip, i, s, c)
    PROVE  Paced(Append(h, r), ip, i, s, c)
<1>1. ASSUME NEW R, R \subseteq Pages(ip)
      PROVE  Hits(Append(h, r), R) = Hits(h, R)
  <2>1. r \notin R
    BY <1>1
  <2> QED
    BY <2>1, HitsAppend
<1>2. \A a, b : PagesFrom(ip, a) \subseteq Pages(ip) /\ PagesIn(ip, a, b) \subseteq Pages(ip)
  BY DEF PagesFrom, PagesIn
<1>3. \A k \in Hits(h, Pages(ip)) : Append(h, r)[k] = h[k]
  BY HitsAppend
<1>4. Hits(Append(h, r), Pages(ip)) = Hits(h, Pages(ip))
  BY <1>1
<1>5. \A a : Hits(Append(h, r), PagesFrom(ip, a)) = Hits(h, PagesFrom(ip, a))
  BY <1>1, <1>2
<1>6. \A a, b : Hits(Append(h, r), PagesIn(ip, a, b)) = Hits(h, PagesIn(ip, a, b))
  BY <1>1, <1>2
<1> QED
  BY <1>3, <1>4, <1>5, <1>6 DEF Paced

\* Every window of a record is paced, and started at the time of some line.
Steady(h, ip, ud) ==
    \A i \in Win :
        /\ Paced(h, ip, i, ud.times[i], ud.counts[i])
        /\ ud.times[i] # 0 => \E k \in DOMAIN h : h[k].time = ud.times[i]

Steadied == [ip \in IP |-> [h \in Seq(Request) |-> {ud \in UserData : Steady(h, ip, ud)}]]

LEMMA StillSteady ==
    ASSUME NEW h \in Seq(Request), NEW r \in Request, NEW ip, r \notin Pages(ip),
           NEW ud, Steady(h, ip, ud)
    PROVE  Steady(Append(h, r), ip, ud)
<1>1. \A k \in DOMAIN h : k \in DOMAIN Append(h, r) /\ Append(h, r)[k] = h[k]
  OBVIOUS
<1> SUFFICES ASSUME NEW i \in Win
             PROVE  /\ Paced(Append(h, r), ip, i, ud.times[i], ud.counts[i])
                    /\ ud.times[i] # 0 =>
                          \E k \in DOMAIN Append(h, r) : Append(h, r)[k].time = ud.times[i]
  BY DEF Steady
<1>2. Paced(h, ip, i, ud.times[i], ud.counts[i])
  BY DEF Steady
<1>3. Paced(Append(h, r), ip, i, ud.times[i], ud.counts[i])
  BY <1>2, StillPaced
<1> QED
  BY <1>1, <1>3 DEF Steady

\* The record a line is charged to: a new one has its window already, in which
\* no page lies yet.
LEMMA RecordSteady ==
    ASSUME RateHypothesis, HInv, NEW ip \in IP, NEW t \in 2 .. MaxTime, NEW f \in URI,
           Timely(t), ip \in DOMAIN users => Steady(handled, ip, users[ip])
    PROVE  LET rd == UserRecord(ip, t, f)
           IN  \A i \in Win : /\ Paced(handled, ip, i, rd.times[i], rd.counts[i])
                              /\ rd.times[i] <= t
<1> SUFFICES ASSUME NEW i \in Win
             PROVE  LET rd == UserRecord(ip, t, f)
                    IN  Paced(handled, ip, i, rd.times[i], rd.counts[i]) /\ rd.times[i] <= t
  OBVIOUS
<1>1. handled \in Seq(Request)
  BY DEF HInv, IInv, TypeOK
<1>2. windows[i] \in Nat \ {0} /\ dyn1Threshes[i] \in Nat \ {0} /\ t \in Nat \ {0}
  BY WinType, FRADEAssumption
<1>3. CASE ip \in DOMAIN users
  <2>1. UserRecord(ip, t, f) = users[ip] /\ users[ip] \in UserData
    BY <1>3 DEF UserRecord, HInv, IInv, TypeOK
  <2>2. users[ip].times[i] \in Nat
    BY <2>1, FRADEAssumption DEF UserData
  <2>3. \A k \in DOMAIN handled : handled[k].time <= t
    <3>1. \A k \in DOMAIN handled : handled[k].time <= t + 0
      BY DEF Timely, RateHypothesis
    <3> QED
      BY <1>2, <3>1
  <2> QED
    BY <1>2, <1>3, <2>1, <2>2, <2>3 DEF Steady
<1>4. CASE ip \notin DOMAIN users
  <2>1. \A R : R \subseteq Pages(ip) => Hits(handled, R) = {}
    BY <1>4 DEF HInv, Hits, Pages
  <2>2. \A a, b : PagesFrom(ip, a) \subseteq Pages(ip) /\ PagesIn(ip, a, b) \subseteq Pages(ip)
    BY DEF PagesFrom, PagesIn
  <2>3. Hits(handled, Pages(ip)) = {}
    BY <2>1
  <2>4. \A a : Cardinality(Hits(handled, PagesFrom(ip, a))) = 0
    BY <2>1, <2>2, FS_EmptySet
  <2>5. \A a, b : Cardinality(Hits(handled, PagesIn(ip, a, b))) = 0
    BY <2>1, <2>2, FS_EmptySet
  <2>6. \/ UserRecord(ip, t, f).times[i] = 0
        \/ UserRecord(ip, t, f).times[i] = t /\ UserRecord(ip, t, f).counts[i] = 1
    BY <1>4 DEF UserRecord, NewUser
  <2>7. 0 <= 1 /\ 1 <= dyn1Threshes[i] /\ 0 <= dyn1Threshes[i] /\ 0 <= 2 * dyn1Threshes[i]
        /\ 0 <= t /\ t <= t
    BY <1>2
  <2> HIDE DEF UserRecord
  <2> QED
    BY <2>3, <2>4, <2>5, <2>6, <2>7 DEF Paced
<1> QED
  BY <1>3, <1>4

\* A page view that trips no window.
LEMMA ViewSteady ==
    ASSUME RateHypothesis, HInv, "dyn1" \in activemodules,
           NEW ip \in IP, NEW t \in 2 .. MaxTime, NEW f \in URI, Timely(t),
           ip \in DOMAIN users => Steady(handled, ip, users[ip]), ~ Trip(ip, t, f)
    PROVE  Steady(Append(handled, Line(ip, t, f)), ip, Viewed(ip, t, f))
<1> DEFINE rd == UserRecord(ip, t, f)
           ed == EnterPage(rd, f)
           vd == Viewed(ip, t, f)
           r == Line(ip, t, f)
           g == Append(handled, r)
<1>1. TypeOK /\ handled \in Seq(Request)
  BY DEF HInv, IInv, TypeOK
<1>2. r \in Request /\ r \in Of(ip) /\ r.time = t
  BY LineOf, FRADEAssumption DEF Line, Request
<1>3. rd \in UserData
  BY <1>1, ViewedFields
<1>4. \A i \in Win : Paced(handled, ip, i, rd.times[i], rd.counts[i]) /\ rd.times[i] <= t
  BY RecordSteady
<1>5. \A k \in DOMAIN handled : k \in DOMAIN g /\ g[k] = handled[k]
  BY <1>1, <1>2
<1>6. Len(handled) + 1 \in DOMAIN g /\ g[Len(handled) + 1] = r
  BY <1>1, <1>2
<1>7. vd = dynamics1and3(ed, t, f)
  BY DEF Viewed, Charged
<1> HIDE DEF rd
<1>8. ed \in UserData /\ ed.times = rd.times /\ ed.counts = rd.counts
  BY <1>3, EnterPageType DEF EnterPage, UserData
<1>9. \A i \in Win : ~ Trips(ed, t, f, i)
  BY DEF Trip, Tripped, rd
<1> HIDE DEF ed, vd
<1> SUFFICES ASSUME NEW i \in Win
             PROVE  /\ Paced(g, ip, i, vd.times[i], vd.counts[i])
                    /\ vd.times[i] # 0 => \E k \in DOMAIN g : g[k].time = vd.times[i]
  BY DEF Steady, vd
<1> DEFINE s == rd.times[i]
           c == rd.counts[i]
<1>10. s \in Nat /\ c \in Nat /\ s <= t /\ t \in Nat /\ windows[i] \in Nat \ {0}
       /\ dyn1Threshes[i] \in Nat \ {0}
  BY <1>3, <1>4, WinType, FRADEAssumption DEF UserData
<1>11. /\ vd.times[i] = IF Fresh(ed, t, i) THEN t ELSE s
       /\ vd.counts[i] = IF Fresh(ed, t, i) THEN 1 ELSE c + 1
  <2>1. Reached(ed, t, f, i)
    BY <1>9 DEF Reached
  <2> QED
    BY <1>7, <1>8, <2>1 DEF dynamics1and3, UserData
<1>12. Fresh(ed, t, i) <=> s = 0 \/ t - s >= windows[i]
  BY <1>8, <1>10 DEF Fresh, Elapsed
<1>13. s # 0 => s = t \/ \E k \in DOMAIN handled : handled[k].time = s
  <2>1. CASE ip \in DOMAIN users
    BY <2>1 DEF Steady, UserRecord, rd
  <2>2. CASE ip \notin DOMAIN users
    BY <2>2 DEF UserRecord, NewUser, rd
  <2> QED
    BY <2>1, <2>2
<1> HIDE DEF r, s, c, g
<1>14. CASE Fresh(ed, t, i)
  <2>1. Paced(handled, ip, i, s, c) /\ (s = 0 \/ r.time - s >= windows[i])
    BY <1>2, <1>4, <1>12, <1>14 DEF s, c
  <2>2. Paced(g, ip, i, t, 1)
    BY <1>1, <1>2, <1>10, <2>1, PacedAnew DEF g
  <2> QED
    BY <1>2, <1>6, <1>11, <1>14, <2>2
<1>15. CASE ~ Fresh(ed, t, i)
  <2>1. Paced(handled, ip, i, s, c) /\ s # 0 /\ r.time >= s /\ r.time - s < windows[i]
    BY <1>2, <1>4, <1>10, <1>12, <1>15 DEF s, c
  <2>2. c + 1 <= dyn1Threshes[i]
    <3>1. ~ (ed.counts[i] + 1 > dyn1Threshes[i])
      BY <1>9, <1>15 DEF Trips
    <3> QED
      BY <1>8, <1>10, <3>1 DEF c
  <2>3. Paced(g, ip, i, s, c + 1)
    BY <1>1, <1>2, <1>10, <2>1, <2>2, PacedOn DEF g
  <2>4. \E k \in DOMAIN g : g[k].time = s
    BY <1>2, <1>5, <1>6, <1>13, <2>1
  <2> QED
    BY <1>11, <1>15, <2>3, <2>4
<1> QED
  BY <1>14, <1>15

LEMMA PathSteady ==
    ASSUME RateHypothesis, HInv, "dyn1" \in activemodules,
           NEW ip \in IP, NEW t \in 2 .. MaxTime, NEW f \in URI, NEW ud \in UserData,
           Timely(t), ip \in DOMAIN users => Steady(handled, ip, users[ip]),
           Path(ip, t, f, ud, FALSE)
    PROVE  Steady(Append(handled, Line(ip, t, f)), ip, ud)
<1> DEFINE rd == UserRecord(ip, t, f)
           vd == Viewed(ip, t, f)
           r == Line(ip, t, f)
<1>1. TypeOK /\ handled \in Seq(Request)
  BY DEF HInv, IInv, TypeOK
<1>2. r \in Request /\ r.uri = f
  BY FRADEAssumption DEF Line, Request
<1>3. rd \in UserData /\ vd \in UserData
  BY <1>1, ViewedFields
<1>4. ASSUME ~ isMainRequest(f), ud.times = rd.times, ud.counts = rd.counts
      PROVE  Steady(Append(handled, r), ip, ud)
  <2>1. r \notin Pages(ip)
    BY <1>2, <1>4 DEF Pages
  <2>2. \A i \in Win : Paced(handled, ip, i, ud.times[i], ud.counts[i])
    BY <1>4, RecordSteady
  <2>3. \A i \in Win : ud.times[i] # 0 => \E k \in DOMAIN handled : handled[k].time = ud.times[i]
    <3>1. CASE ip \in DOMAIN users
      BY <1>4, <3>1 DEF Steady, UserRecord
    <3>2. CASE ip \notin DOMAIN users
      BY <1>4, <3>2 DEF UserRecord, NewUser
    <3> QED
      BY <3>1, <3>2
  <2>4. Steady(handled, ip, ud)
    BY <2>2, <2>3 DEF Steady
  <2> HIDE DEF r
  <2> QED
    BY <1>1, <1>2, <2>1, <2>4, StillSteady
<1>5. ASSUME ~ Trip(ip, t, f), ud.times = vd.times, ud.counts = vd.counts
      PROVE  Steady(Append(handled, r), ip, ud)
  BY <1>5, ViewSteady DEF Steady
<1> HIDE DEF rd, vd, r
<1>6. CASE Plain(ip, t, f, ud, FALSE)
  BY <1>4, <1>6 DEF Plain, Viewable, rd, r
<1>7. CASE Taken(ip, t, f, ud, FALSE)
  BY <1>3, <1>4, <1>7 DEF Taken, TakeAllowed, UserData, rd, r
<1>8. CASE PageRemembered(ip, t, f, ud, FALSE)
  BY <1>3, <1>5, <1>8 DEF PageRemembered, UserData, vd, r
<1>9. CASE NotJudged(ip, t, f, ud, FALSE)
  BY <1>5, <1>9 DEF NotJudged, vd, r
<1>10. CASE Judged(ip, t, f, ud, FALSE)
  BY <1>3, <1>5, <1>10 DEF Judged, Walked, UserData, vd, r
<1> QED
  BY <1>6, <1>7, <1>8, <1>9, <1>10 DEF Path, TripEnds, r

RateInv ==
    /\ HInv
    /\ "dyn1" \in activemodules =>
          \A ip \in DOMAIN users \ blacklist : Steady(handled, ip, users[ip])

LEMMA RateInductive == RateHypothesis /\ RateInv /\ [Next]_vars => RateInv'
<1> SUFFICES ASSUME RateHypothesis, RateInv, [Next]_vars PROVE RateInv'
  OBVIOUS
<1>1. HInv /\ HInv'
  BY HistoryInductive DEF RateInv
<1> SUFFICES ASSUME "dyn1" \in activemodules
             PROVE  \A ip \in DOMAIN users' \ blacklist' : Steady(handled, ip, users[ip])'
  BY <1>1 DEF RateInv
<1>2. /\ handled \in Seq(Request) /\ handled' \in Seq(Request)
      /\ DOMAIN users \subseteq IP /\ \A ip \in DOMAIN users : users[ip] \in UserData
      /\ DOMAIN users' \subseteq IP /\ \A ip \in DOMAIN users' : users'[ip] \in UserData
  BY <1>1 DEF HInv, IInv, TypeOK, Request, UserData
<1>3. \A ip \in DOMAIN users \ blacklist : users[ip] \in Steadied[ip][handled]
  BY <1>2 DEF RateInv, Steadied
<1>4. ASSUME NEW h \in Seq(Request), NEW r \in Request, NEW ip \in IP, r \notin Of(ip)
      PROVE  Steadied[ip][h] \subseteq Steadied[ip][Append(h, r)]
  <2>1. r \notin Pages(ip)
    BY <1>4 DEF Pages
  <2> QED
    BY <2>1, StillSteady DEF Steadied
<1>5. ASSUME NEW ip \in IP \ blacklist, NEW t \in 2 .. MaxTime, NEW f \in URI,
             NEW ud \in UserData, Timely(t), Path(ip, t, f, ud, FALSE)
      PROVE  ud \in Steadied[ip][Append(handled, Line(ip, t, f))]
  <2>1. Steady(Append(handled, Line(ip, t, f)), ip, ud)
    BY <1>1, <1>5, PathSteady DEF RateInv
  <2>2. Append(handled, Line(ip, t, f)) \in Seq(Request)
    <3>1. Line(ip, t, f) \in Request
      BY FRADEAssumption DEF Line, Request
    <3> QED
      BY <1>2, <3>1
  <2> QED
    BY <2>1, <2>2 DEF Steadied
<1>6. \A ip \in DOMAIN users' \ blacklist' : users'[ip] \in Steadied[ip][handled']
  BY <1>1, <1>3, <1>4, <1>5, UserInductive
<1>7. \A ip \in DOMAIN users' \ blacklist' : Steady(handled', ip, users'[ip])
  BY <1>2, <1>6 DEF Steadied
<1> QED
  BY <1>7 DEF Steady, Paced, Hits, Pages, PagesFrom, PagesIn, Of, isMainRequest

\* When the log is in order and no threshold is zero, a user that is not
\* blacklisted has asked for at most twice a window's threshold of pages in any
\* interval of the window's length that starts at one of its requests.  With a
\* log that is not in order it has not (the run FRADE_disorder).
THEOREM RateKept == RateHypothesis => (Spec => []RateBounded)
<1> SUFFICES ASSUME RateHypothesis PROVE Spec => []RateBounded
  OBVIOUS
<1>1. Init => RateInv
  BY HistoryInitially DEF Init, RateInv
<1>2. RateInv => RateBounded
  <2> SUFFICES ASSUME RateInv, "dyn1" \in activemodules,
                      NEW ip \in IP \ blacklist, NEW i \in Win, NEW s \in Times(ip)
               PROVE  Cardinality({k \in MainIndices(ip) :
                                      handled[k].time \in s .. (s + windows[i] - 1)})
                          <= 2 * dyn1Threshes[i]
    BY DEF RateBounded
  <2> DEFINE R == PagesIn(ip, s, s + windows[i] - 1)
  <2>1. handled \in Seq(Request) /\ \A k \in DOMAIN handled : handled[k].time \in Nat
    BY LineTimes DEF RateInv, HInv, IInv, TypeOK
  <2>2. windows[i] \in Nat \ {0} /\ dyn1Threshes[i] \in Nat \ {0}
    BY WinType
  <2>3. s \in Nat
    BY <2>1 DEF Times
  <2>4. MainIndices(ip) = Hits(handled, Pages(ip))
    <3>1. Requests(ip) = Hits(handled, Of(ip))
      BY <2>1, RequestsHit
    <3> QED
      BY <2>1, <3>1 DEF Hits, Pages, MainIndices
  <2>5. {k \in MainIndices(ip) : handled[k].time \in s .. (s + windows[i] - 1)} = Hits(handled, R)
    <3>1. \A k \in DOMAIN handled : handled[k].time \in s .. (s + windows[i] - 1)
              <=> handled[k].time >= s /\ handled[k].time <= s + windows[i] - 1
      BY <2>1, <2>2, <2>3
    <3> QED
      BY <2>4, <3>1 DEF Hits, PagesIn
  <2>6. CASE ip \in DOMAIN users
    <3>1. Paced(handled, ip, i, users[ip].times[i], users[ip].counts[i])
      BY <2>6 DEF RateInv, Steady
    <3> QED
      BY <2>3, <2>5, <3>1 DEF Paced
  <2>7. CASE ip \notin DOMAIN users
    <3>1. Hits(handled, R) = {}
      BY <2>7 DEF RateInv, HInv, Hits, PagesIn, Pages
    <3>2. Cardinality(Hits(handled, R)) = 0
      BY <3>1, FS_EmptySet
    <3>3. 0 <= 2 * dyn1Threshes[i]
      BY <2>2
    <3> QED
      BY <2>5, <3>2, <3>3
  <2> QED
    BY <2>6, <2>7
<1>3. RateInv /\ [Next]_vars => RateInv'
  BY RateInductive
<1> QED
  BY <1>1, <1>2, <1>3, PTL DEF Spec

-----------------------------------------------------------------------------
(***************************************************************************)
(* The versions of the engine.  Their steps are reduced, like those of     *)
(* FRADE, to what becomes of the record of one user.                       *)
(*                                                                         *)
(* The paths through the versions' beAFRADE.                               *)
(***************************************************************************)
\* What a version takes for a page; the record it works on, and the record and
\* the verdict once it is charged for a page.
Page(ip, f) == IF build = "load" THEN load_sampled(ip, f) ELSE tb_isMainRequest(f)

Record(ip, t, f) == IF Known(ip) THEN users[ip] ELSE tb_NewUser(t, f, Page(ip, f))

Watched(ip, t, f) == Charged(Record(ip, t, f), t, f)

Over(ip, t, f) == Tripped(EnterPage(Record(ip, t, f), f), t, f)

Dummy(ip, t, f, ud, convict) ==
    "dec" \in activemodules /\ f \in dummy_links /\ ud = Record(ip, t, f) /\ convict

Passed(ip, t, f, ud, convict) ==
    /\ ~ Page(ip, f) /\ ("dyn2" \notin activemodules \/ HasQuery(f))
    /\ ud = Record(ip, t, f) /\ ~ convict

Erased(ip, t, f, ud, convict) ==
    /\ ~ Page(ip, f) /\ "dyn2" \in activemodules /\ ~ HasQuery(f)
    /\ Record(ip, t, f).current_list[f] > 0
    /\ ud = [Record(ip, t, f) EXCEPT !.current_list[f] = @ - 1] /\ ~ convict

Missed(ip, t, f, ud, convict) ==
    /\ ~ Page(ip, f) /\ "dyn2" \in activemodules /\ ~ HasQuery(f)
    /\ Record(ip, t, f).current_list[f] = 0
    /\ ud = Record(ip, t, f) /\ convict

Exceeded(ip, t, f, ud, convict) ==
    Page(ip, f) /\ Over(ip, t, f) /\ ud = Watched(ip, t, f) /\ convict

Remembered(ip, t, f, ud, convict) ==
    /\ Page(ip, f) /\ ~ Over(ip, t, f) /\ Watched(ip, t, f).prevFile = NULL
    /\ ud = [Watched(ip, t, f) EXCEPT !.prevFile = f] /\ ~ convict

\* A walk is not judged when the module is off or the process has crashed.
Unwalked(ip, t, f, ud, convict) ==
    /\ Page(ip, f) /\ ~ Over(ip, t, f) /\ Watched(ip, t, f).prevFile # NULL
    /\ \/ "sem" \notin activemodules
       \/ Ranks(f) = {} /\ f \in DOMAIN Group
    /\ ud = Watched(ip, t, f) /\ ~ convict

WalksOf(endNode, prevFile, f) ==
    IF build = "tb" THEN tb_getTransitionProb2(endNode, prevFile, f)
    ELSE load_getTransitionProb2(endNode, prevFile, f)

Weighed(ip, t, f, ud, convict) ==
    /\ Page(ip, f) /\ ~ Over(ip, t, f) /\ Watched(ip, t, f).prevFile # NULL
    /\ "sem" \in activemodules
    /\ \E o \in WalksOf(Record(ip, t, f).endNode, Record(ip, t, f).prevFile, f) :
          ~ o.crash /\ ud = Walked(Watched(ip, t, f), o)
    /\ convict <=> Unlikely(ud)

EnginePath(ip, t, f, ud, convict) ==
    \/ Dummy(ip, t, f, ud, convict)
    \/ Passed(ip, t, f, ud, convict)
    \/ Erased(ip, t, f, ud, convict)
    \/ Missed(ip, t, f, ud, convict)
    \/ Exceeded(ip, t, f, ud, convict)
    \/ Remembered(ip, t, f, ud, convict)
    \/ Unwalked(ip, t, f, ud, convict)
    \/ Weighed(ip, t, f, ud, convict)

\* sem.cpp: a new user; an object; the first page; a walk.
Longer(ip) == [users[ip] EXCEPT !.seqLength = @ + 1]

SemPath(ip, t, f, ud, convict) ==
    \/ ~ Known(ip) /\ ud = tb_NewUser(t, f, tb_isMainRequest(f)) /\ ~ convict
    \/ Known(ip) /\ ~ tb_isMainRequest(f) /\ ud = users[ip] /\ ~ convict
    \/ /\ Known(ip) /\ tb_isMainRequest(f) /\ Longer(ip).prevFile = NULL
       /\ ud = [Longer(ip) EXCEPT !.prevFile = f] /\ ~ convict
    \/ /\ Known(ip) /\ tb_isMainRequest(f) /\ Longer(ip).prevFile # NULL
       /\ ud = Walked(Longer(ip),
                      sem_getTransitionProb(Longer(ip).endNode, Longer(ip).prevFile, f))
       /\ convict <=> sem_Unlikely(ud)

\* The request ends with this record of the user.
Ends(ip, ud, convict) ==
    /\ DOMAIN users' = DOMAIN users \cup {ip}
    /\ \A x \in DOMAIN users' : users'[x] = IF x = ip THEN ud ELSE users[x]
    /\ blacklist' = IF convict THEN blacklist \cup {ip} ELSE blacklist

LEMMA ConcludeEnds ==
    ASSUME NEW ip, NEW ud, NEW convict \in BOOLEAN, Conclude(ip, ud, convict)
    PROVE  Ends(ip, ud, convict)
BY DEF Conclude, Ends, blacklistIP

-----------------------------------------------------------------------------
(***************************************************************************)
(* Types.                                                                  *)
(***************************************************************************)
\* sem.cpp saves nodes of its own graph.
SemData ==
    [seqLength : Nat \ {0}, seqCost : Nat,
     prevFile : URI \cup {NULL}, endNode : URI \cup {NULL},
     counts : [Win -> Nat], procs : [Win -> Nat], times : [Win -> 0 .. MaxTime],
     embedcounts : [Win -> {0, 1}], embedtimes : [Win -> 0 .. MaxTime],
     current_main : URI \cup {NULL}, current_list : Bag]

Records == IF build = "sem" THEN SemData ELSE UserData

LEMMA tb_NewUserType ==
    ASSUME NEW t \in 1 .. MaxTime, NEW f \in URI, NEW page \in BOOLEAN
    PROVE  tb_NewUser(t, f, page) \in UserData \cap SemData
<1>1. /\ main_embed[f] \in Bag /\ proc_time[f] \in Nat /\ t \in 0 .. MaxTime
      /\ 0 \in 0 .. MaxTime
  BY FRADEAssumption
<1>2. \A n \in Nat : [i \in Win |-> IF page THEN n ELSE 0] \in [Win -> Nat]
  OBVIOUS
<1>3. [i \in Win |-> IF page THEN t ELSE 0] \in [Win -> 0 .. MaxTime]
  BY <1>1
<1>4. /\ [i \in Win |-> IF page THEN 0 ELSE 1] \in [Win -> {0, 1}]
      /\ [i \in Win |-> IF page THEN 0 ELSE t] \in [Win -> 0 .. MaxTime]
  BY <1>1
<1> QED
  BY <1>1, <1>2, <1>3, <1>4 DEF tb_NewUser, UserData, SemData

\* The walks of FRADE_tb.cpp and FRADE_load_bl.cpp.
LEMMA StepFacts ==
    ASSUME NEW start, NEW f \in URI, NEW e \in Nodes \cup {NULL}, NEW p \in URI \cup {NULL},
           NEW o \in {tb_Transition(start, f, e, p), load_Transition(start, f, e, p)}
    PROVE  /\ o \in OutcomeType /\ ~ o.crash
           /\ o.prevFile = NULL => p = NULL
           /\ f \notin Nodes => o.cost = NoFileCost
<1>1. /\ f # NULL /\ NoFileCost \in Nat /\ HitBothCost \in Nat /\ HitOneCost \in Nat
  BY SemanticsAssumption, BuildsAssumption
<1>2. tb_Missing(start, f) \in Nat /\ load_Missing(start, f) \in Nat
  BY <1>1 DEF tb_Missing, load_Missing
<1>3. CASE << start, f >> \in DOMAIN EdgeCost
  <2>1. f \in Nodes /\ EdgeCost[<< start, f >>] \in Nat
    BY <1>3, SemanticsAssumption
  <2>2. o = Outcome(EdgeCost[<< start, f >>], f, f)
    BY <1>3 DEF tb_Transition, load_Transition
  <2>3. o \in OutcomeType
    BY <2>1, <2>2, OutcomeIsTyped
  <2> QED
    BY <1>1, <2>1, <2>2, <2>3 DEF Outcome
<1>4. CASE << start, f >> \notin DOMAIN EdgeCost
  <2>1. PICK c \in Nat, n \in Nodes \cup {NULL} :
            o = Outcome(c, n, p) /\ (f \notin Nodes => c = NoFileCost)
    BY <1>1, <1>2, <1>4 DEF tb_Transition, load_Transition
  <2>2. o \in OutcomeType
    BY <2>1, OutcomeIsTyped
  <2> QED
    BY <2>1, <2>2 DEF Outcome
<1> QED
  BY <1>3, <1>4

LEMMA WalksFacts ==
    ASSUME NEW e \in Nodes \cup {NULL}, NEW p \in URI \cup {NULL}, NEW f \in URI,
           NEW o \in WalksOf(e, p, f)
    PROVE  /\ o \in OutcomeType
           /\ o.crash => Ranks(f) = {} /\ f \in DOMAIN Group
           /\ ~ o.crash /\ o.prevFile = NULL => p = NULL
           /\ Ranks(f) = {} /\ f \notin Nodes \cup DOMAIN Group => o.cost = NoFileCost
<1>1. f # NULL /\ NULL \notin URI /\ NoFileCost \in Nat
  BY SemanticsAssumption
<1>2. ASSUME NEW q \in tb_FirstFile(f)
      PROVE  /\ q \in OutcomeType
             /\ q.crash => Ranks(f) = {} /\ f \in DOMAIN Group
             /\ ~ q.crash => q.prevFile # NULL
             /\ Ranks(f) = {} /\ f \notin Nodes \cup DOMAIN Group => q.cost = NoFileCost
  <2>1. CASE Ranks(f) # {}
    <3>1. PICK n \in ClosestNode(f) : q = Outcome(0, n, n)
      BY <1>2, <2>1 DEF tb_FirstFile
    <3>2. n \in URI \cap Nodes
      BY <3>1, ClosestNodeType
    <3>3. q \in OutcomeType
      BY <3>1, <3>2, OutcomeIsTyped
    <3> QED
      BY <1>1, <2>1, <3>1, <3>2, <3>3 DEF Outcome
  <2>2. CASE Ranks(f) = {} /\ f \in DOMAIN Group
    <3>1. q = Crash \/ \E n \in Nodes : q = tb_Transition(n, f, NULL, f)
      BY <1>2, <2>2 DEF tb_FirstFile
    <3>2. Crash \in OutcomeType /\ Crash.crash
      BY DEF Crash, OutcomeType
    <3> QED
      BY <1>1, <2>2, <3>1, <3>2, StepFacts
  <2>3. CASE Ranks(f) = {} /\ f \notin DOMAIN Group
    <3>1. q = Outcome(NoFileCost, NULL, f)
      BY <1>2, <2>3 DEF tb_FirstFile
    <3>2. q \in OutcomeType
      BY <1>1, <3>1, OutcomeIsTyped
    <3> QED
      BY <1>1, <3>1, <3>2 DEF Outcome
  <2> QED
    BY <2>1, <2>2, <2>3
<1>3. CASE e # NULL
  BY <1>3, StepFacts DEF WalksOf, tb_getTransitionProb2, load_getTransitionProb2
<1>4. CASE e = NULL /\ build = "tb"
  BY <1>2, <1>4 DEF WalksOf, tb_getTransitionProb2
<1>5. CASE e = NULL /\ build # "tb" /\ Ranks(f) = {} /\ f \in DOMAIN Group
  <2>1. o = Crash \/ \E n \in Nodes : o = load_Transition(n, f, NULL, f)
    BY <1>5 DEF WalksOf, load_getTransitionProb2
  <2>2. Crash \in OutcomeType /\ Crash.crash
    BY DEF Crash, OutcomeType
  <2> QED
    BY <1>1, <1>5, <2>1, <2>2, StepFacts
<1>6. CASE e = NULL /\ build # "tb" /\ ~ (Ranks(f) = {} /\ f \in DOMAIN Group)
  <2>1. o \in tb_FirstFile(f)
    BY <1>6 DEF WalksOf, load_getTransitionProb2
  <2> QED
    BY <1>2, <2>1
<1> QED
  BY <1>3, <1>4, <1>5, <1>6

\* A walk of sem.cpp: only an edge of its own graph is cheaper than NO_FILE_PROB.
LEMMA SemFacts ==
    ASSUME NEW e, NEW p, NEW f \in URI
    PROVE  LET o == sem_getTransitionProb(e, p, f)
           IN  /\ o.cost \in Nat /\ o.endNode \in URI \cup {NULL} /\ o.prevFile = f /\ ~ o.crash
               /\ f \notin sem_Nodes => o.cost = NoFileCost
<1> DEFINE start == IF e # NULL THEN e ELSE p
<1>1. CASE << start, f >> \in DOMAIN sem_EdgeCost
  <2>1. f \in sem_Nodes /\ sem_EdgeCost[<< start, f >>] \in Nat
    BY <1>1, BuildsAssumption
  <2> QED
    BY <1>1, <2>1 DEF sem_getTransitionProb, Outcome
<1>2. CASE << start, f >> \notin DOMAIN sem_EdgeCost
  BY <1>2, SemanticsAssumption DEF sem_getTransitionProb, Outcome
<1> QED
  BY <1>1, <1>2


-----------------------------------------------------------------------------
(***************************************************************************)
(* One step of a version.                                                  *)
(***************************************************************************)
\* Every line is the web server's, and an address without a record has none.
BInv ==
    /\ handled \in Seq(Request) /\ \A k \in DOMAIN handled : handled[k].time # 1
    /\ DOMAIN users \subseteq IP
    /\ \A ip \in DOMAIN users : users[ip] \in Records
    /\ \A ip \in IP \ DOMAIN users : Hits(handled, Of(ip)) = {}

\* The record a request is judged on, and what charging a page leaves of it.
LEMMA RecordFields ==
    ASSUME BInv, build \in {"tb", "load"},
           NEW ip \in IP, NEW t \in 2 .. MaxTime, NEW f \in URI
    PROVE  LET rd == Record(ip, t, f)
               vd == Watched(ip, t, f)
           IN  /\ rd \in UserData /\ vd \in UserData
               /\ vd.seqLength = rd.seqLength + 1 /\ vd.seqCost = rd.seqCost
               /\ vd.prevFile = rd.prevFile /\ vd.endNode = rd.endNode
               /\ vd.current_list = main_embed[f]
<1> DEFINE rd == Record(ip, t, f)
           ed == EnterPage(rd, f)
<1>1. t \in 1 .. MaxTime
  BY FRADEAssumption
<1>2. rd \in UserData
  <2>1. CASE Known(ip)
    BY <2>1 DEF BInv, Records, Record, Known
  <2>2. CASE ~ Known(ip)
    <3>1. Page(ip, f) \in BOOLEAN
      <4>1. load_sampled(ip, f) \in BOOLEAN
        BY DEF load_sampled
      <4>2. tb_isMainRequest(f) \in BOOLEAN
        BY DEF tb_isMainRequest
      <4> QED
        BY <4>1, <4>2 DEF Page
    <3> QED
      BY <1>1, <2>2, <3>1, tb_NewUserType DEF Record
  <2> QED
    BY <2>1, <2>2
<1> HIDE DEF rd
<1>3. Charged(rd, t, f) \in UserData
  BY <1>1, <1>2, ChargedType
<1>4. /\ ed \in UserData
      /\ ed.seqLength = rd.seqLength + 1 /\ ed.seqCost = rd.seqCost
      /\ ed.prevFile = rd.prevFile /\ ed.endNode = rd.endNode
      /\ ed.current_list = main_embed[f]
  BY <1>2, EnterPageType DEF EnterPage, UserData
<1> HIDE DEF ed
<1>5. Charged(rd, t, f) = dynamics1and3(ed, t, f)
  BY DEF Charged, ed
<1>6. /\ Charged(rd, t, f).seqLength = ed.seqLength /\ Charged(rd, t, f).seqCost = ed.seqCost
      /\ Charged(rd, t, f).prevFile = ed.prevFile /\ Charged(rd, t, f).endNode = ed.endNode
      /\ Charged(rd, t, f).current_list = ed.current_list
  BY <1>4, <1>5 DEF dynamics1and3, UserData
<1> QED
  BY <1>2, <1>3, <1>4, <1>6 DEF Watched, rd

\* The walk, for both versions that have one.
LEMMA WeighPaths ==
    ASSUME BInv, build \in {"tb", "load"},
           NEW ip \in IP, NEW t \in 2 .. MaxTime, NEW f \in URI,
           Page(ip, f), ~ Over(ip, t, f), Watched(ip, t, f).prevFile # NULL,
           "sem" \in activemodules,
           tb_semantics(ip, Watched(ip, t, f),
                        WalksOf(Record(ip, t, f).endNode, Record(ip, t, f).prevFile, f))
    PROVE  \E ud \in UserData, convict \in BOOLEAN :
              Ends(ip, ud, convict) /\ EnginePath(ip, t, f, ud, convict)
<1> DEFINE vd == Watched(ip, t, f)
           rd == Record(ip, t, f)
<1>1. /\ rd \in UserData /\ vd \in UserData
      /\ rd.endNode \in Nodes \cup {NULL} /\ rd.prevFile \in URI \cup {NULL}
  BY RecordFields DEF UserData
<1> HIDE DEF vd, rd
<1>2. PICK o \in WalksOf(rd.endNode, rd.prevFile, f) :
          IF o.crash THEN Conclude(ip, vd, FALSE)
          ELSE Conclude(ip, Walked(vd, o), Unlikely(Walked(vd, o)))
  BY DEF tb_semantics, vd, rd
<1>3. o \in OutcomeType /\ (o.crash => Ranks(f) = {} /\ f \in DOMAIN Group)
  BY <1>1, <1>2, WalksFacts
<1>4. CASE o.crash
  <2>1. Unwalked(ip, t, f, vd, FALSE)
    BY <1>3, <1>4 DEF Unwalked, vd
  <2> QED
    BY <1>1, <1>2, <1>4, <2>1, ConcludeEnds DEF EnginePath
<1>5. CASE ~ o.crash
  <2> DEFINE ud == Walked(vd, o)
             convict == Unlikely(ud)
  <2>1. ud \in UserData /\ convict \in BOOLEAN
    BY <1>1, <1>3, WalkedType DEF Unlikely
  <2>2. Weighed(ip, t, f, ud, convict)
    BY <1>2, <1>5 DEF Weighed, vd, rd
  <2> QED
    BY <1>2, <1>5, <2>1, <2>2, ConcludeEnds DEF EnginePath
<1> QED
  BY <1>4, <1>5

\* FRADE_tb.cpp and FRADE_load_bl.cpp.
LEMMA EnginePaths ==
    ASSUME BInv, NEW ip \in IP, NEW t \in 2 .. MaxTime, NEW f \in URI,
           (build = "tb" /\ tb_beAFRADE(ip, t, f)) \/ (build = "load" /\ load_beAFRADE(ip, t, f))
    PROVE  /\ Receive(ip, t, f)
           /\ \E ud \in UserData, convict \in BOOLEAN :
                 Ends(ip, ud, convict) /\ EnginePath(ip, t, f, ud, convict)
<1> DEFINE vd == Watched(ip, t, f)
           rd == Record(ip, t, f)
<1>1. Receive(ip, t, f) /\ build \in {"tb", "load"}
  BY DEF tb_beAFRADE, load_beAFRADE
<1>2. /\ rd \in UserData /\ vd \in UserData
      /\ vd.prevFile = rd.prevFile /\ vd.endNode = rd.endNode
      /\ rd.current_list \in [URI -> Nat] /\ rd.current_list[f] \in Nat
  BY <1>1, RecordFields DEF UserData, Bag
<1>3. /\ build = "tb" => rd = tb_UserRecord(ip, t, f)
      /\ build = "load" => rd = load_UserRecord(ip, t, f)
  BY DEF Record, Page, tb_UserRecord, load_UserRecord, load_NewUser
<1>4. vd = tb_dynamics1and3(rd, t, f)
  BY DEF Watched, Charged, tb_dynamics1and3
<1>5. Over(ip, t, f) = Tripped(EnterPage(rd, f), t, f)
  BY DEF Over
<1> HIDE DEF vd, rd
<1>6. ASSUME "dec" \in activemodules, f \in dummy_links, Conclude(ip, rd, TRUE)
      PROVE  \E ud \in UserData, convict \in BOOLEAN :
                Ends(ip, ud, convict) /\ EnginePath(ip, t, f, ud, convict)
  BY <1>2, <1>6, ConcludeEnds DEF EnginePath, Dummy, rd
<1>7. ASSUME ~ Page(ip, f),
             IF "dyn2" \in activemodules /\ ~ HasQuery(f)
               THEN Conclude(ip, tb_dynamics2(rd, f).ud, ~ tb_dynamics2(rd, f).ok)
               ELSE Conclude(ip, rd, FALSE)
      PROVE  \E ud \in UserData, convict \in BOOLEAN :
                Ends(ip, ud, convict) /\ EnginePath(ip, t, f, ud, convict)
  <2>1. CASE ~ ("dyn2" \in activemodules /\ ~ HasQuery(f))
    <3>1. Passed(ip, t, f, rd, FALSE)
      BY <1>7, <2>1 DEF Passed, rd
    <3> QED
      BY <1>2, <1>7, <2>1, <3>1, ConcludeEnds DEF EnginePath
  <2>2. CASE "dyn2" \in activemodules /\ ~ HasQuery(f) /\ rd.current_list[f] > 0
    <3> DEFINE ud == [rd EXCEPT !.current_list[f] = @ - 1]
    <3>1. ud \in UserData
      <4>1. rd.current_list[f] - 1 \in Nat
        BY <1>2, <2>2
      <4>2. [rd.current_list EXCEPT ![f] = @ - 1] \in Bag
        BY <1>2, <4>1 DEF Bag
      <4> QED
        BY <1>2, <4>2 DEF UserData
    <3>2. Conclude(ip, ud, FALSE)
      BY <1>7, <2>2 DEF tb_dynamics2
    <3>3. Erased(ip, t, f, ud, FALSE)
      BY <1>7, <2>2 DEF Erased, rd
    <3> QED
      BY <3>1, <3>2, <3>3, ConcludeEnds DEF EnginePath
  <2>3. CASE "dyn2" \in activemodules /\ ~ HasQuery(f) /\ rd.current_list[f] = 0
    <3>1. Conclude(ip, rd, TRUE)
      <4>1. ~ (rd.current_list[f] > 0)
        BY <2>3
      <4> QED
        BY <1>7, <2>3, <4>1 DEF tb_dynamics2
    <3>2. Missed(ip, t, f, rd, TRUE)
      BY <1>7, <2>3 DEF Missed, rd
    <3> QED
      BY <1>2, <3>1, <3>2, ConcludeEnds DEF EnginePath
  <2>4. rd.current_list[f] > 0 \/ rd.current_list[f] = 0
    BY <1>2
  <2> QED
    BY <2>1, <2>2, <2>3, <2>4
<1>8. ASSUME Page(ip, f), Over(ip, t, f), Conclude(ip, vd, TRUE)
      PROVE  \E ud \in UserData, convict \in BOOLEAN :
                Ends(ip, ud, convict) /\ EnginePath(ip, t, f, ud, convict)
  BY <1>2, <1>8, ConcludeEnds DEF EnginePath, Exceeded, vd
<1>9. ASSUME Page(ip, f), ~ Over(ip, t, f), vd.prevFile = NULL,
             Conclude(ip, [vd EXCEPT !.prevFile = f], FALSE)
      PROVE  \E ud \in UserData, convict \in BOOLEAN :
                Ends(ip, ud, convict) /\ EnginePath(ip, t, f, ud, convict)
  <2>1. [vd EXCEPT !.prevFile = f] \in UserData
    BY <1>2, FirstPageType
  <2> QED
    BY <1>9, <2>1, ConcludeEnds DEF EnginePath, Remembered, vd
<1>10. ASSUME Page(ip, f), ~ Over(ip, t, f), vd.prevFile # NULL, "sem" \notin activemodules,
              Conclude(ip, vd, FALSE)
      PROVE  \E ud \in UserData, convict \in BOOLEAN :
                Ends(ip, ud, convict) /\ EnginePath(ip, t, f, ud, convict)
  BY <1>2, <1>10, ConcludeEnds DEF EnginePath, Unwalked, vd
<1>11. ASSUME Page(ip, f), ~ Over(ip, t, f), vd.prevFile # NULL, "sem" \in activemodules,
              tb_semantics(ip, vd, WalksOf(rd.endNode, rd.prevFile, f))
      PROVE  \E ud \in UserData, convict \in BOOLEAN :
                Ends(ip, ud, convict) /\ EnginePath(ip, t, f, ud, convict)
  BY <1>1, <1>11, WeighPaths DEF vd, rd
<1>12. CASE build = "tb" /\ tb_beAFRADE(ip, t, f)
  <2>1. Page(ip, f) <=> tb_isMainRequest(f)
    BY <1>12 DEF Page
  <2>2. CASE tb_deception(ip, f, rd)
    BY <1>1, <1>6, <2>2 DEF tb_deception
  <2>3. CASE ~ Page(ip, f) /\ tb_ObjectOf(ip, t, f, rd)
    BY <1>1, <1>7, <2>3 DEF tb_ObjectOf
  <2>4. CASE Page(ip, f) /\ tb_PageOf(ip, t, f, rd, tb_getTransitionProb2(rd.endNode, rd.prevFile, f))
    <3>1. WalksOf(rd.endNode, rd.prevFile, f) = tb_getTransitionProb2(rd.endNode, rd.prevFile, f)
      BY <1>12 DEF WalksOf
    <3> QED
      BY <1>1, <1>4, <1>5, <1>8, <1>9, <1>10, <1>11, <2>4, <3>1 DEF tb_PageOf
  <2> QED
    BY <1>3, <1>12, <2>1, <2>2, <2>3, <2>4 DEF tb_beAFRADE
<1>13. CASE build = "load" /\ load_beAFRADE(ip, t, f)
  <2>1. Page(ip, f) <=> load_sampled(ip, f)
    BY <1>13 DEF Page
  <2>2. CASE load_deception(ip, f, rd)
    BY <1>1, <1>6, <2>2 DEF tb_deception, load_deception
  <2>3. CASE ~ Page(ip, f) /\ load_ObjectOf(ip, t, f, rd)
    <3>1. IF "dyn2" \in activemodules /\ ~ HasQuery(f)
            THEN Conclude(ip, tb_dynamics2(rd, f).ud, ~ tb_dynamics2(rd, f).ok)
            ELSE Conclude(ip, rd, FALSE)
      BY <2>3 DEF load_ObjectOf, load_dynamics2
    <3> QED
      BY <1>1, <1>7, <2>3, <3>1
  <2>4. CASE Page(ip, f) /\ load_PageOf(ip, t, f, rd)
    <3>1. WalksOf(rd.endNode, rd.prevFile, f) = load_getTransitionProb2(rd.endNode, rd.prevFile, f)
      BY <1>13 DEF WalksOf
    <3> QED
      <4>1. IF Over(ip, t, f) THEN Conclude(ip, vd, TRUE)
            ELSE IF vd.prevFile = NULL THEN Conclude(ip, [vd EXCEPT !.prevFile = f], FALSE)
            ELSE IF "sem" \notin activemodules THEN Conclude(ip, vd, FALSE)
            ELSE tb_semantics(ip, vd, WalksOf(rd.endNode, rd.prevFile, f))
        BY <1>4, <1>5, <2>4, <3>1 DEF load_PageOf, load_dynamics1and3, load_semantics
      <4> QED
        BY <1>1, <1>8, <1>9, <1>10, <1>11, <2>4, <4>1
  <2> QED
    BY <1>3, <1>13, <2>1, <2>2, <2>3, <2>4 DEF load_beAFRADE
<1> QED
  BY <1>12, <1>13


\* sem.cpp writes the pipe again for a user it knows; the record ends the same.
LEMMA SemPaths ==
    ASSUME BInv, build = "sem", NEW ip \in IP, NEW t \in 2 .. MaxTime, NEW f \in URI,
           sem_beAFRADE(ip, t, f)
    PROVE  /\ Receive(ip, t, f)
           /\ \E ud \in SemData, convict \in BOOLEAN :
                 Ends(ip, ud, convict) /\ SemPath(ip, t, f, ud, convict)
<1> DEFINE ud == Longer(ip)
<1>1. Receive(ip, t, f)
  BY DEF sem_beAFRADE
<1>2. t \in 1 .. MaxTime /\ tb_isMainRequest(f) \in BOOLEAN
  BY FRADEAssumption DEF tb_isMainRequest
<1>3. ASSUME Known(ip)
      PROVE  /\ ip \in DOMAIN users /\ users[ip] \in SemData /\ ud \in SemData
  <2>1. ip \in DOMAIN users /\ users[ip] \in SemData
    BY <1>3 DEF BInv, Records, Known
  <2>2. users[ip].seqLength + 1 \in Nat \ {0}
    BY <2>1 DEF SemData
  <2> QED
    BY <2>1, <2>2 DEF SemData, Longer
<1>4. CASE ~ Known(ip)
  <2> DEFINE nd == tb_NewUser(t, f, tb_isMainRequest(f))
  <2>1. nd \in SemData /\ Conclude(ip, nd, FALSE)
    BY <1>2, <1>4, tb_NewUserType DEF sem_beAFRADE
  <2>2. SemPath(ip, t, f, nd, FALSE)
    BY <1>4 DEF SemPath
  <2> HIDE DEF nd
  <2> QED
    BY <1>1, <2>1, <2>2, ConcludeEnds
<1>5. CASE Known(ip) /\ ~ tb_isMainRequest(f)
  <2>1. users' = users /\ blacklist' = blacklist
    BY <1>5 DEF sem_beAFRADE
  <2>2. Ends(ip, users[ip], FALSE)
    BY <1>3, <1>5, <2>1 DEF Ends
  <2>3. SemPath(ip, t, f, users[ip], FALSE)
    BY <1>5 DEF SemPath
  <2> QED
    BY <1>1, <1>3, <1>5, <2>2, <2>3
<1>6. CASE Known(ip) /\ tb_isMainRequest(f) /\ ud.prevFile = NULL
  <2>1. Conclude(ip, [ud EXCEPT !.prevFile = f], FALSE)
    BY <1>6 DEF sem_beAFRADE, Longer
  <2>2. [ud EXCEPT !.prevFile = f] \in SemData
    BY <1>3, <1>6 DEF SemData
  <2>3. SemPath(ip, t, f, [ud EXCEPT !.prevFile = f], FALSE)
    BY <1>6 DEF SemPath
  <2> QED
    BY <1>1, <2>1, <2>2, <2>3, ConcludeEnds
<1>7. CASE Known(ip) /\ tb_isMainRequest(f) /\ ud.prevFile # NULL
  <2> DEFINE o == sem_getTransitionProb(ud.endNode, ud.prevFile, f)
             wd == Walked(ud, o)
             convict == sem_Unlikely(wd)
  <2>1. sem_semantics(ip, ud, f)
    BY <1>7 DEF sem_beAFRADE, Longer
  <2>2. /\ users' = [users EXCEPT ![ip] = wd]
        /\ blacklist' = IF convict THEN blacklist \cup {ip} ELSE blacklist
    BY <2>1 DEF sem_semantics, sem_blacklistIP
  <2>3. o.cost \in Nat /\ o.endNode \in URI \cup {NULL} /\ o.prevFile = f
    BY SemFacts
  <2>4. SemPath(ip, t, f, wd, convict)
    BY <1>7 DEF SemPath
  <2>5. convict \in BOOLEAN
    BY DEF sem_Unlikely
  <2> HIDE DEF ud, o, convict
  <2>6. wd \in SemData
    <3>1. ud \in SemData /\ ud.seqCost + o.cost \in Nat
      BY <1>3, <1>7, <2>3 DEF SemData
    <3> QED
      BY <2>3, <3>1 DEF SemData, Walked
  <2> HIDE DEF wd
  <2>7. Ends(ip, wd, convict)
    BY <1>3, <1>7, <2>2 DEF Ends
  <2> QED
    BY <1>1, <2>4, <2>5, <2>6, <2>7
<1> QED
  BY <1>4, <1>5, <1>6, <1>7

\* What a version does with a line.
BPath(ip, t, f, ud, convict) ==
    IF build = "sem" THEN SemPath(ip, t, f, ud, convict) ELSE EnginePath(ip, t, f, ud, convict)

LEMMA BuildLines ==
    ASSUME BInv, build \in {"tb", "load", "sem"}, BuildsNext
    PROVE  \E ip \in IP, t \in 2 .. MaxTime, f \in URI, ud \in Records, convict \in BOOLEAN :
              /\ Line(ip, t, f) \in Request
              /\ handled' = Append(handled, Line(ip, t, f))
              /\ BPath(ip, t, f, ud, convict)
              /\ Ends(ip, ud, convict)
<1>1. PICK ip \in IP, f \in URI, t \in 2 .. MaxTime :
          \/ build = "tb" /\ tb_beAFRADE(ip, t, f)
          \/ build = "load" /\ load_beAFRADE(ip, t, f)
          \/ build = "sem" /\ sem_beAFRADE(ip, t, f)
  BY DEF BuildsNext
<1>2. /\ Receive(ip, t, f)
      /\ \E ud \in Records, convict \in BOOLEAN :
            Ends(ip, ud, convict) /\ BPath(ip, t, f, ud, convict)
  <2>1. CASE build = "sem"
    BY <1>1, <2>1, SemPaths DEF Records, BPath
  <2>2. CASE build # "sem"
    BY <1>1, <2>2, EnginePaths DEF Records, BPath
  <2> QED
    BY <2>1, <2>2
<1>3. Line(ip, t, f) \in Request
  BY FRADEAssumption DEF Line, Request
<1>4. handled' = Append(handled, Line(ip, t, f))
  BY <1>2 DEF Receive, Line
<1> QED
  BY <1>2, <1>3, <1>4

-----------------------------------------------------------------------------
(***************************************************************************)
(* An invariant of the users at large of a version, proved for one record, *)
(* as for FRADE.cpp.                                                       *)
(***************************************************************************)
BHist == build \in {"tb", "load", "sem"} => BInv

LEMMA BuildHistory == BHist /\ [BuildsNext]_buildVars => BHist'
<1> SUFFICES ASSUME BHist, [BuildsNext]_buildVars, build' \in {"tb", "load", "sem"} PROVE BInv'
  BY DEF BHist
<1>1. build' = build /\ BInv
  BY DEF BHist, BuildsNext, buildVars
<1>2. CASE UNCHANGED buildVars
  BY <1>1, <1>2 DEF BInv, Records, buildVars, vars
<1>3. CASE BuildsNext
  <2>1. PICK ip \in IP, t \in 2 .. MaxTime, f \in URI, ud \in Records, convict \in BOOLEAN :
            /\ Line(ip, t, f) \in Request
            /\ handled' = Append(handled, Line(ip, t, f))
            /\ Ends(ip, ud, convict)
    BY <1>1, <1>3, BuildLines
  <2>2. handled \in Seq(Request) /\ t # 1 /\ t \in 1 .. MaxTime
    BY <1>1, FRADEAssumption DEF BInv
  <2>3. /\ handled' \in Seq(Request)
        /\ \A k \in DOMAIN handled' : handled'[k].time # 1
    <3>1. Line(ip, t, f).time = t
      BY DEF Line
    <3>2. \A k \in DOMAIN handled : handled[k].time # 1
      BY <1>1 DEF BInv
    <3>3. /\ DOMAIN handled' = DOMAIN handled \cup {Len(handled) + 1}
          /\ \A k \in DOMAIN handled : handled'[k] = handled[k]
          /\ handled'[Len(handled) + 1] = Line(ip, t, f)
          /\ handled' \in Seq(Request)
      BY <2>1, <2>2
    <3> QED
      BY <2>2, <3>1, <3>2, <3>3
  <2>4. Records' = Records
    BY <1>1 DEF Records
  <2>5. DOMAIN users' \subseteq IP /\ \A x \in DOMAIN users' : users'[x] \in Records
    BY <1>1, <2>1 DEF BInv, Ends
  <2>6. ASSUME NEW x \in IP \ DOMAIN users'
        PROVE  Hits(handled', Of(x)) = {}
    <3>1. x \in IP \ DOMAIN users /\ x # ip
      BY <2>1, <2>6 DEF Ends
    <3>2. Line(ip, t, f) \notin Of(x)
      BY <2>2, <3>1, LineOf
    <3> QED
      BY <1>1, <2>1, <2>2, <3>1, <3>2, HitsAppend DEF BInv
  <2> QED
    BY <2>3, <2>4, <2>5, <2>6 DEF BInv
<1> QED
  BY <1>2, <1>3

LEMMA BuildInitially == BuildsInit => BHist
BY DEF BuildsInit, Init, BHist, BInv, Hits

LEMMA BuildUserInductive ==
    ASSUME BHist, [BuildsNext]_buildVars, build \in {"tb", "load", "sem"}, NEW Good,
           \A ip \in DOMAIN users \ blacklist : users[ip] \in Good[ip][handled],
           \A h \in Seq(Request), r \in Request, ip \in IP :
               r \notin Of(ip) => Good[ip][h] \subseteq Good[ip][Append(h, r)],
           \A ip \in IP \ blacklist, t \in 2 .. MaxTime, f \in URI, ud \in Records :
               BPath(ip, t, f, ud, FALSE) => ud \in Good[ip][Append(handled, Line(ip, t, f))]
    PROVE  \A ip \in DOMAIN users' \ blacklist' : users'[ip] \in Good[ip][handled']
<1>1. BInv /\ handled \in Seq(Request) /\ DOMAIN users \subseteq IP
  BY DEF BHist, BInv
<1>2. CASE UNCHANGED buildVars
  BY <1>2 DEF vars, buildVars
<1>3. CASE BuildsNext
  <2>1. PICK ip \in IP, t \in 2 .. MaxTime, f \in URI, ud \in Records, convict \in BOOLEAN :
            /\ Line(ip, t, f) \in Request
            /\ handled' = Append(handled, Line(ip, t, f))
            /\ BPath(ip, t, f, ud, convict)
            /\ Ends(ip, ud, convict)
    BY <1>1, <1>3, BuildLines
  <2>2. /\ blacklist \subseteq blacklist' /\ (convict => ip \in blacklist')
        /\ t \in 1 .. MaxTime
    BY <2>1, FRADEAssumption DEF Ends
  <2>3. ASSUME NEW x \in DOMAIN users \ blacklist, x # ip
        PROVE  users[x] \in Good[x][handled']
    <3>1. Line(ip, t, f) \notin Of(x) /\ x \in IP
      BY <1>1, <2>2, <2>3, LineOf
    <3>2. Good[x][handled] \subseteq Good[x][handled']
      BY <1>1, <2>1, <3>1
    <3> QED
      BY <2>3, <3>2
  <2>4. ASSUME ip \notin blacklist'
        PROVE  ud \in Good[ip][handled']
    <3>1. convict = FALSE
      BY <2>2, <2>4
    <3>2. BPath(ip, t, f, ud, FALSE)
      BY <2>1, <3>1
    <3> QED
      BY <2>1, <2>2, <2>4, <3>2
  <2> QED
    BY <2>1, <2>2, <2>3, <2>4 DEF Ends
<1> QED
  BY <1>2, <1>3


-----------------------------------------------------------------------------
(***************************************************************************)
(* The pages that are in none of the graphs.                               *)
(***************************************************************************)
StrayPages(ip) ==
    {r \in Of(ip) : /\ tb_isMainRequest(r.uri)
                    /\ r.uri \notin Nodes \cup sem_Nodes \cup DOMAIN Group
                    /\ Ranks(r.uri) = {}}

\* StraysBounded for any history and any one record: before the first page there
\* is nothing to pay for, afterwards all strays but one are in the cost.
Owes(h, ip, ud) ==
    LET strays == Cardinality(Hits(h, StrayPages(ip)))
    IN  /\ ud.prevFile = NULL => strays = 0
        /\ (strays - 1) * NoFileCost <= ud.seqCost
        /\ strays <= 1 \/ \E l \in DOMAIN SeqThreshCost : ud.seqCost < SeqThreshCost[l]

Owing == [ip \in IP |-> [h \in Seq(Request) |-> {ud \in Records : Owes(h, ip, ud)}]]

LEMMA StillOwes ==
    ASSUME NEW h \in Seq(Request), NEW r \in Request, NEW ip, r \notin StrayPages(ip),
           NEW ud, Owes(h, ip, ud)
    PROVE  Owes(Append(h, r), ip, ud)
BY HitsAppend DEF Owes

LEMMA SameOwes ==
    ASSUME NEW h, NEW ip, NEW ud, NEW vd, Owes(h, ip, ud),
           vd.prevFile = ud.prevFile, vd.seqCost = ud.seqCost
    PROVE  Owes(h, ip, vd)
BY DEF Owes

\* Without lines a record without cost owes nothing.
LEMMA OwesNothing ==
    ASSUME BInv, NEW ip \in IP, ~ Known(ip), NEW ud, ud.seqCost = 0
    PROVE  Owes(handled, ip, ud)
<1>1. Hits(handled, StrayPages(ip)) = {}
  BY DEF BInv, Known, Hits, StrayPages
<1>2. Cardinality(Hits(handled, StrayPages(ip))) = 0
  BY <1>1, FS_EmptySet
<1>3. (0 - 1) * NoFileCost <= 0
  BY SemanticsAssumption
<1> QED
  BY <1>2, <1>3 DEF Owes

\* A first page is free.
LEMMA FirstOwes ==
    ASSUME NEW h \in Seq(Request), NEW r \in Request, NEW ip, NEW ud,
           ud.prevFile # NULL, ud.seqCost \in Nat, Cardinality(Hits(h, StrayPages(ip))) = 0
    PROVE  Owes(Append(h, r), ip, ud)
<1> DEFINE more == Cardinality(Hits(Append(h, r), StrayPages(ip)))
<1>1. more \in {0, 1}
  BY HitsAppend
<1>2. (0 - 1) * NoFileCost <= ud.seqCost /\ (1 - 1) * NoFileCost <= ud.seqCost
  BY SemanticsAssumption
<1> HIDE DEF more
<1>3. (more - 1) * NoFileCost <= ud.seqCost /\ more <= 1
  BY <1>1, <1>2
<1> QED
  BY <1>3 DEF Owes, more

\* A walk that is charged NO_FILE_PROB for a stray, and is not convicted.
LEMMA WalkOwes ==
    ASSUME NEW h \in Seq(Request), NEW r \in Request, NEW ip, NEW vd, NEW o,
           Owes(h, ip, vd), vd.seqCost \in Nat, o.cost \in Nat,
           r \in StrayPages(ip) => o.cost = NoFileCost,
           NEW ud, ud.prevFile # NULL, ud.seqCost = vd.seqCost + o.cost,
           NEW n \in Nat, n >= 2, ~ (ud.seqCost >= SeqThreshCost[LookupIndex(n)])
    PROVE  Owes(Append(h, r), ip, ud)
<1> DEFINE g == Append(h, r)
           strays == Cardinality(Hits(h, StrayPages(ip)))
           more == Cardinality(Hits(g, StrayPages(ip)))
           owed == (strays - 1) * NoFileCost
           owes == (more - 1) * NoFileCost
<1>1. strays \in Nat /\ more = IF r \in StrayPages(ip) THEN strays + 1 ELSE strays
  BY HitsAppend
<1>2. owed <= vd.seqCost
  BY DEF Owes
<1>3. NoFileCost \in Nat
  BY SemanticsAssumption
<1> HIDE DEF strays, more
<1>4. owed \in Int
  BY <1>1, <1>3
<1>5. owes <= ud.seqCost
  <2>1. CASE r \in StrayPages(ip)
    BY <1>1, <1>2, <1>3, <2>1, OneMore
  <2>2. CASE r \notin StrayPages(ip)
    <3>1. owes = owed
      BY <1>1, <2>2
    <3> HIDE DEF owes, owed
    <3> QED
      BY <1>2, <1>4, <3>1
  <2> QED
    BY <2>1, <2>2
<1> HIDE DEF owes
<1>6. \E l \in DOMAIN SeqThreshCost : ud.seqCost < SeqThreshCost[l]
  <2>1. LookupIndex(n) \in DOMAIN SeqThreshCost
    BY ThresholdExists
  <2>2. SeqThreshCost[LookupIndex(n)] \in Nat /\ ud.seqCost \in Nat
    BY <2>1, SemanticsAssumption
  <2> QED
    BY <2>1, <2>2
<1> QED
  BY <1>5, <1>6 DEF Owes, owes, more, g

\* A line that does not convict leaves every stray but one paid.
LEMMA SemOwes ==
    ASSUME BInv, build = "sem", NEW ip \in IP, NEW t \in 2 .. MaxTime, NEW f \in URI,
           NEW ud \in SemData, ip \in DOMAIN users => Owes(handled, ip, users[ip]),
           SemPath(ip, t, f, ud, FALSE)
    PROVE  Owes(Append(handled, Line(ip, t, f)), ip, ud)
<1> DEFINE r == Line(ip, t, f)
           ld == Longer(ip)
           strays == Cardinality(Hits(handled, StrayPages(ip)))
<1>1. /\ handled \in Seq(Request) /\ r \in Request /\ r.uri = f /\ f # NULL
      /\ ud.seqCost \in Nat
  <2>1. r.uri = f /\ f \in URI
    BY DEF Line
  <2>2. r \in Request /\ handled \in Seq(Request)
    BY FRADEAssumption DEF BInv, Line, Request
  <2> QED
    BY <2>1, <2>2, Costs DEF SemData
<1>2. r \in StrayPages(ip) => tb_isMainRequest(f) /\ f \notin sem_Nodes
  BY <1>1 DEF StrayPages
<1> HIDE DEF r
<1>3. ASSUME Known(ip)
      PROVE  /\ ld.prevFile = users[ip].prevFile /\ ld.seqCost = users[ip].seqCost
             /\ ld.seqCost \in Nat /\ ld.seqLength \in Nat /\ ld.seqLength >= 2
             /\ Owes(handled, ip, users[ip]) /\ ld \in SemData
  <2>1. users[ip] \in SemData /\ Owes(handled, ip, users[ip])
    BY <1>3 DEF BInv, Records, Known
  <2>2. users[ip].seqLength + 1 \in Nat \ {0} /\ users[ip].seqLength + 1 >= 2
    BY <2>1 DEF SemData
  <2> QED
    BY <2>1, <2>2 DEF Longer, SemData
<1> HIDE DEF ld
<1>4. CASE ~ Known(ip) /\ ud = tb_NewUser(t, f, tb_isMainRequest(f))
  <2>1. /\ ud.seqCost = 0
        /\ ud.prevFile = IF tb_isMainRequest(f) THEN f ELSE NULL
    BY <1>4 DEF tb_NewUser
  <2>2. Owes(handled, ip, ud)
    BY <1>4, <2>1, OwesNothing
  <2>3. CASE tb_isMainRequest(f)
    <3>1. strays = 0
      <4>1. Hits(handled, StrayPages(ip)) = {}
        BY <1>4 DEF BInv, Known, Hits, StrayPages
      <4> QED
        BY <4>1, FS_EmptySet
    <3> QED
      BY <1>1, <2>1, <2>3, <3>1, FirstOwes DEF r
  <2>4. CASE ~ tb_isMainRequest(f)
    BY <1>1, <1>2, <2>2, <2>4, StillOwes DEF r
  <2> QED
    BY <2>3, <2>4
<1>5. CASE Known(ip) /\ ~ tb_isMainRequest(f) /\ ud = users[ip]
  BY <1>1, <1>2, <1>3, <1>5, StillOwes DEF r
<1>6. CASE Known(ip) /\ ld.prevFile = NULL /\ ud = [ld EXCEPT !.prevFile = f]
  <2>1. ud.prevFile = f
    BY <1>3, <1>6 DEF SemData
  <2>2. strays = 0
    BY <1>3, <1>6 DEF Owes
  <2> QED
    BY <1>1, <2>1, <2>2, FirstOwes DEF r
<1>7. CASE /\ Known(ip) /\ ld.prevFile # NULL
           /\ ud = Walked(ld, sem_getTransitionProb(ld.endNode, ld.prevFile, f))
           /\ ~ sem_Unlikely(ud)
  <2> DEFINE o == sem_getTransitionProb(ld.endNode, ld.prevFile, f)
  <2>1. o.cost \in Nat /\ o.prevFile = f /\ (f \notin sem_Nodes => o.cost = NoFileCost)
    BY SemFacts
  <2> HIDE DEF o
  <2>2. /\ ud.seqCost = ld.seqCost + o.cost /\ ud.prevFile = f
        /\ ud.seqLength = ld.seqLength
    BY <1>3, <1>7, <2>1 DEF Walked, SemData, o
  <2>3. Owes(handled, ip, ld)
    BY <1>3, <1>7, SameOwes
  <2>4. ~ (ud.seqCost >= SeqThreshCost[LookupIndex(ld.seqLength + 1)])
    BY <1>7, <2>2 DEF sem_Unlikely
  <2>5. ld.seqLength + 1 \in Nat /\ ld.seqLength + 1 >= 2
    BY <1>3, <1>7
  <2> QED
    BY <1>1, <1>2, <1>3, <1>7, <2>1, <2>2, <2>3, <2>4, <2>5, WalkOwes DEF r
<1> QED
  BY <1>4, <1>5, <1>6, <1>7 DEF SemPath, ld


LEMMA EngineOwes ==
    ASSUME BInv, build = "tb", "sem" \in activemodules,
           NEW ip \in IP, NEW t \in 2 .. MaxTime, NEW f \in URI,
           NEW ud \in UserData, ip \in DOMAIN users => Owes(handled, ip, users[ip]),
           EnginePath(ip, t, f, ud, FALSE)
    PROVE  Owes(Append(handled, Line(ip, t, f)), ip, ud)
<1> DEFINE r == Line(ip, t, f)
           rd == Record(ip, t, f)
           vd == Watched(ip, t, f)
           strays == Cardinality(Hits(handled, StrayPages(ip)))
<1>1. /\ handled \in Seq(Request) /\ r \in Request /\ r.uri = f /\ f # NULL /\ NULL \notin URI
      /\ ud.seqCost \in Nat
  <2>1. r.uri = f /\ f \in URI
    BY DEF Line
  <2>2. r \in Request /\ handled \in Seq(Request)
    BY FRADEAssumption DEF BInv, Line, Request
  <2> QED
    BY <2>1, <2>2, Costs DEF UserData
<1>2. r \in StrayPages(ip) =>
          tb_isMainRequest(f) /\ Ranks(f) = {} /\ f \notin Nodes \cup DOMAIN Group
  BY <1>1 DEF StrayPages
<1>3. Page(ip, f) <=> tb_isMainRequest(f)
  BY DEF Page
<1> HIDE DEF r
<1>4. /\ rd \in UserData /\ vd \in UserData
      /\ vd.seqLength = rd.seqLength + 1 /\ vd.seqCost = rd.seqCost
      /\ vd.prevFile = rd.prevFile /\ vd.endNode = rd.endNode
  BY RecordFields
<1>5. CASE Known(ip)
  <2>1. rd = users[ip]
    BY <1>5 DEF Record
  <2> HIDE DEF rd, vd
  <2>2. Owes(handled, ip, rd)
    BY <1>5, <2>1 DEF Known
  <2>3. Owes(handled, ip, vd)
    BY <1>4, <2>2, SameOwes
  <2>4. CASE Passed(ip, t, f, ud, FALSE)
    <3>1. ud = rd /\ ~ tb_isMainRequest(f)
      BY <1>3, <2>4 DEF Passed, rd
    <3> QED
      BY <1>1, <1>2, <2>2, <3>1, StillOwes DEF r
  <2>5. CASE Erased(ip, t, f, ud, FALSE)
    <3>1. /\ ~ tb_isMainRequest(f)
          /\ ud = [rd EXCEPT !.current_list[f] = @ - 1]
      BY <1>3, <2>5 DEF Erased, rd
    <3>2. ud.prevFile = rd.prevFile /\ ud.seqCost = rd.seqCost
      BY <1>4, <3>1 DEF UserData
    <3>3. Owes(handled, ip, ud)
      BY <2>2, <3>2, SameOwes
    <3> QED
      BY <1>1, <1>2, <3>1, <3>3, StillOwes DEF r
  <2>6. CASE Remembered(ip, t, f, ud, FALSE)
    <3>1. vd.prevFile = NULL /\ ud = [vd EXCEPT !.prevFile = f]
      BY <2>6 DEF Remembered, vd
    <3>2. ud.prevFile = f
      BY <1>4, <3>1 DEF UserData
    <3>3. strays = 0
      BY <2>3, <3>1 DEF Owes
    <3> QED
      BY <1>1, <3>2, <3>3, FirstOwes DEF r
  <2>7. CASE Unwalked(ip, t, f, ud, FALSE)
    <3>1. ud = vd /\ r \notin StrayPages(ip)
      BY <1>2, <2>7 DEF Unwalked, vd
    <3> QED
      BY <1>1, <2>3, <3>1, StillOwes DEF r
  <2>8. CASE Weighed(ip, t, f, ud, FALSE)
    <3>1. PICK o \in WalksOf(rd.endNode, rd.prevFile, f) :
              ~ o.crash /\ ud = Walked(vd, o)
      BY <2>8 DEF Weighed, vd, rd
    <3>2. vd.prevFile # NULL /\ ~ Unlikely(ud)
      BY <2>8 DEF Weighed, vd
    <3>3. rd.endNode \in Nodes \cup {NULL} /\ rd.prevFile \in URI \cup {NULL}
      BY <1>4 DEF UserData
    <3>4. /\ o \in OutcomeType
          /\ o.prevFile = NULL => rd.prevFile = NULL
          /\ Ranks(f) = {} /\ f \notin Nodes \cup DOMAIN Group => o.cost = NoFileCost
      BY <3>1, <3>3, WalksFacts
    <3>5. o.cost \in Nat /\ o.prevFile # NULL
      BY <1>4, <3>2, <3>4 DEF OutcomeType
    <3>6. /\ ud.seqCost = vd.seqCost + o.cost /\ ud.prevFile = o.prevFile
          /\ ud.seqLength = vd.seqLength
      BY <1>4, <3>1 DEF Walked, UserData
    <3>7. vd.seqCost \in Nat /\ ud.seqLength \in Nat /\ ud.seqLength >= 2
      BY <1>4, <3>6 DEF UserData
    <3>8. ~ (ud.seqCost >= SeqThreshCost[LookupIndex(ud.seqLength)])
      BY <3>2 DEF Unlikely
    <3>9. r \in StrayPages(ip) => o.cost = NoFileCost
      BY <1>2, <3>4
    <3> QED
      BY <1>1, <2>3, <3>5, <3>6, <3>7, <3>8, <3>9, WalkOwes DEF r
  <2> QED
    BY <2>4, <2>5, <2>6, <2>7, <2>8 DEF EnginePath, Dummy, Missed, Exceeded
<1>6. CASE ~ Known(ip)
  <2>1. rd = tb_NewUser(t, f, Page(ip, f))
    BY <1>6 DEF Record
  <2>2. rd.seqCost = 0 /\ rd.prevFile = IF tb_isMainRequest(f) THEN f ELSE NULL
    BY <1>3, <2>1 DEF tb_NewUser
  <2> HIDE DEF rd, vd
  <2>3. Hits(handled, StrayPages(ip)) = {}
    BY <1>6 DEF BInv, Known, Hits, StrayPages
  <2>4. strays = 0
    BY <2>3, FS_EmptySet
  <2>5. CASE ~ tb_isMainRequest(f)
    <3>1. ud.seqCost = 0
      <4>1. CASE Passed(ip, t, f, ud, FALSE)
        BY <2>2, <4>1 DEF Passed, rd
      <4>2. CASE Erased(ip, t, f, ud, FALSE)
        BY <1>4, <2>2, <4>2 DEF Erased, UserData, rd
      <4> QED
        BY <1>3, <2>5, <4>1, <4>2
           DEF EnginePath, Dummy, Missed, Exceeded, Remembered, Unwalked, Weighed
    <3>2. Owes(handled, ip, ud)
      BY <1>6, <3>1, OwesNothing
    <3> QED
      BY <1>1, <1>2, <2>5, <3>2, StillOwes DEF r
  <2>6. CASE tb_isMainRequest(f)
    <3>1. vd.prevFile = f
      BY <1>4, <2>2, <2>6
    <3>2. ud.prevFile # NULL
      <4>1. CASE Unwalked(ip, t, f, ud, FALSE)
        BY <1>1, <3>1, <4>1 DEF Unwalked, vd
      <4>2. CASE Weighed(ip, t, f, ud, FALSE)
        <5>1. PICK o \in WalksOf(rd.endNode, rd.prevFile, f) :
                  ~ o.crash /\ ud = Walked(vd, o)
          BY <4>2 DEF Weighed, vd, rd
        <5>2. rd.endNode \in Nodes \cup {NULL} /\ rd.prevFile \in URI \cup {NULL}
          BY <1>4 DEF UserData
        <5>3. o.prevFile # NULL
          BY <1>1, <1>4, <3>1, <5>1, <5>2, WalksFacts
        <5> QED
          BY <1>4, <5>1, <5>3 DEF Walked, UserData
      <4> QED
        BY <1>1, <1>3, <2>6, <3>1, <4>1, <4>2
           DEF EnginePath, Dummy, Passed, Erased, Missed, Exceeded, Remembered, vd
    <3> QED
      BY <1>1, <2>4, <3>2, FirstOwes DEF r
  <2> QED
    BY <2>5, <2>6
<1> QED
  BY <1>5, <1>6

OwesInv ==
    /\ BHist
    /\ build = "sem" \/ (build = "tb" /\ "sem" \in activemodules) =>
          \A ip \in DOMAIN users \ blacklist : Owes(handled, ip, users[ip])

LEMMA OwesInductive == OwesInv /\ [BuildsNext]_buildVars => OwesInv'
<1> SUFFICES ASSUME OwesInv, [BuildsNext]_buildVars PROVE OwesInv'
  OBVIOUS
<1>1. BHist /\ BHist'
  BY BuildHistory DEF OwesInv
<1>2. build' = build
  BY DEF BuildsNext, buildVars
<1> SUFFICES ASSUME build = "sem" \/ (build = "tb" /\ "sem" \in activemodules)
             PROVE  \A ip \in DOMAIN users' \ blacklist' : Owes(handled, ip, users[ip])'
  BY <1>1, <1>2 DEF OwesInv
<1>3. BInv /\ BInv' /\ Records' = Records
  BY <1>1, <1>2 DEF BHist, Records
<1>4. /\ handled \in Seq(Request) /\ handled' \in Seq(Request)
      /\ DOMAIN users \subseteq IP /\ \A ip \in DOMAIN users : users[ip] \in Records
      /\ DOMAIN users' \subseteq IP
  BY <1>3 DEF BInv
<1>5. \A ip \in DOMAIN users \ blacklist : users[ip] \in Owing[ip][handled]
  BY <1>4 DEF OwesInv, Owing
<1>6. ASSUME NEW h \in Seq(Request), NEW r \in Request, NEW ip \in IP, r \notin Of(ip)
      PROVE  Owing[ip][h] \subseteq Owing[ip][Append(h, r)]
  <2>1. r \notin StrayPages(ip) /\ Append(h, r) \in Seq(Request)
    BY <1>6 DEF StrayPages
  <2> QED
    BY <2>1, StillOwes DEF Owing
<1>7. ASSUME NEW ip \in IP \ blacklist, NEW t \in 2 .. MaxTime, NEW f \in URI,
             NEW ud \in Records, BPath(ip, t, f, ud, FALSE)
      PROVE  ud \in Owing[ip][Append(handled, Line(ip, t, f))]
  <2>1. ip \in DOMAIN users => Owes(handled, ip, users[ip])
    BY <1>7 DEF OwesInv
  <2>2. Owes(Append(handled, Line(ip, t, f)), ip, ud)
    BY <1>3, <1>7, <2>1, SemOwes, EngineOwes DEF BPath, Records
  <2>3. Append(handled, Line(ip, t, f)) \in Seq(Request)
    <3>1. Line(ip, t, f) \in Request
      BY FRADEAssumption DEF Line, Request
    <3> QED
      BY <1>4, <3>1
  <2> QED
    BY <2>2, <2>3 DEF Owing
<1> HIDE DEF Owing
<1>8. \A ip \in DOMAIN users' \ blacklist' : users'[ip] \in Owing[ip][handled']
  BY <1>1, <1>5, <1>6, <1>7, BuildUserInductive
<1>9. \A ip \in DOMAIN users' \ blacklist' : Owes(handled', ip, users'[ip])
  BY <1>4, <1>8 DEF Owing
<1> QED
  BY <1>9 DEF Owes, Hits, StrayPages, Of, tb_isMainRequest, Ranks, Name, Fallback

\* In the version of the test bed and in the semantics module alone nobody sees
\* more than one page that no graph knows without paying for it: the others are
\* in the cost of the sequence, and that is below some threshold.
THEOREM StraysPaid == BuildsSpec => []StraysBounded
<1>1. BuildsInit => OwesInv
  BY BuildInitially DEF BuildsInit, Init, OwesInv
<1>2. OwesInv => StraysBounded
  <2> SUFFICES ASSUME OwesInv, build = "sem" \/ (build = "tb" /\ "sem" \in activemodules),
                      NEW ip \in DOMAIN users \ blacklist
               PROVE  LET Stray(f) == /\ tb_isMainRequest(f)
                                      /\ f \notin Nodes \cup sem_Nodes \cup DOMAIN Group
                                      /\ Ranks(f) = {}
                          Seen == {k \in DOMAIN handled :
                                        handled[k].ip = ip /\ Stray(handled[k].uri)}
                      IN  \/ Cardinality(Seen) <= 1
                          \/ \E l \in DOMAIN SeqThreshCost :
                                (Cardinality(Seen) - 1) * NoFileCost < SeqThreshCost[l]
    BY DEF StraysBounded
  <2> DEFINE strays == Cardinality(Hits(handled, StrayPages(ip)))
             owed == (strays - 1) * NoFileCost
             ud == users[ip]
  <2>1. handled \in Seq(Request) /\ \A k \in DOMAIN handled : handled[k].time # 1
    BY DEF OwesInv, BHist, BInv
  <2>2. {k \in DOMAIN handled :
            /\ handled[k].ip = ip
            /\ /\ tb_isMainRequest(handled[k].uri)
               /\ handled[k].uri \notin Nodes \cup sem_Nodes \cup DOMAIN Group
               /\ Ranks(handled[k].uri) = {}} = Hits(handled, StrayPages(ip))
    <3>1. \A k \in DOMAIN handled : handled[k] \in Request
      BY <2>1
    <3> QED
      BY <2>1, <3>1 DEF Hits, StrayPages, Of
  <2>3. Owes(handled, ip, ud)
    BY DEF OwesInv
  <2>4. owed \in Int /\ ud.seqCost \in Nat
    <3>1. Hits(handled, StrayPages(ip)) \in SUBSET (1 .. Len(handled)) /\ Len(handled) \in Nat
      BY <2>1 DEF Hits
    <3>2. strays \in Nat
      BY <3>1, PartOfInterval
    <3>3. ud \in SemData \/ ud \in UserData
      BY DEF OwesInv, BHist, BInv, Records
    <3> QED
      BY <3>2, <3>3, Costs DEF UserData, SemData
  <2>5. \A l \in DOMAIN SeqThreshCost : SeqThreshCost[l] \in Int
    BY SemanticsAssumption
  <2> HIDE DEF owed, ud
  <2>6. /\ owed <= ud.seqCost
        /\ strays <= 1 \/ \E l \in DOMAIN SeqThreshCost : ud.seqCost < SeqThreshCost[l]
    BY <2>3 DEF Owes, owed
  <2>7. strays <= 1 \/ \E l \in DOMAIN SeqThreshCost : owed < SeqThreshCost[l]
    BY <2>4, <2>5, <2>6
  <2> QED
    BY <2>2, <2>7 DEF owed
<1> QED
  BY <1>1, <1>2, OwesInductive, PTL DEF BuildsSpec


-----------------------------------------------------------------------------
(***************************************************************************)
(* The objects the pages list, where one that is not listed convicts.      *)
(***************************************************************************)
Strict == {f \in URI \ main_reqs : ~ HasQuery(f)}

Listings(h, ip, f) == Weight(h, ListedBy(f), Hits(h, Of(ip)))

\* ObjectsListed, for any history and any one record: what the user may still
\* have counts with what it has had.
Listed(h, ip, ud) ==
    \A f \in Strict :
        Cardinality(Hits(h, Asks(ip, f))) + ud.current_list[f] <= Listings(h, ip, f)

ListsOf == [ip \in IP |-> [h \in Seq(Request) |-> {ud \in UserData : Listed(h, ip, ud)}]]

\* A line of the user adds its own list, and is an object asked for if it is f.
LEMMA ListingsAppend ==
    ASSUME NEW h \in Seq(Request), NEW r \in Request, NEW ip, NEW f \in URI
    PROVE  /\ Cardinality(Hits(h, Asks(ip, f))) \in Nat /\ Listings(h, ip, f) \in Nat
           /\ r \notin Of(ip) =>
                 /\ Cardinality(Hits(Append(h, r), Asks(ip, f))) = Cardinality(Hits(h, Asks(ip, f)))
                 /\ Listings(Append(h, r), ip, f) = Listings(h, ip, f)
           /\ r \in Of(ip) =>
                 /\ Cardinality(Hits(Append(h, r), Asks(ip, f))) =
                       IF r.uri = f THEN Cardinality(Hits(h, Asks(ip, f))) + 1
                       ELSE Cardinality(Hits(h, Asks(ip, f)))
                 /\ Listings(Append(h, r), ip, f) = Listings(h, ip, f) + main_embed[r.uri][f]
<1>1. r \in Asks(ip, f) <=> r \in Of(ip) /\ r.uri = f
  BY DEF Asks
<1>2. /\ Cardinality(Hits(h, Asks(ip, f))) \in Nat
      /\ Cardinality(Hits(Append(h, r), Asks(ip, f))) =
            IF r \in Asks(ip, f) THEN Cardinality(Hits(h, Asks(ip, f))) + 1
            ELSE Cardinality(Hits(h, Asks(ip, f)))
  BY HitsAppend
<1>3. Hits(Append(h, r), Of(ip)) =
          IF r \in Of(ip) THEN Hits(h, Of(ip)) \cup {Len(h) + 1} ELSE Hits(h, Of(ip))
  BY HitsAppend
<1> DEFINE K == Hits(h, Of(ip))
           g == ListedBy(f)
<1>4. K \in SUBSET (DOMAIN h) /\ g \in [URI -> Nat] /\ g[r.uri] = main_embed[r.uri][f]
  BY EmbedType DEF Hits, Request
<1> HIDE DEF K, g
<1>5. /\ Weight(h, g, K) \in Nat
      /\ Weight(Append(h, r), g, K) = Weight(h, g, K)
      /\ Weight(Append(h, r), g, K \cup {Len(h) + 1}) = Weight(h, g, K) + g[r.uri]
  BY <1>4, WeightAppend
<1> QED
  BY <1>1, <1>2, <1>3, <1>4, <1>5 DEF Listings, K, g

LEMMA StillListed ==
    ASSUME NEW h \in Seq(Request), NEW r \in Request, NEW ip, r \notin Of(ip),
           NEW ud, Listed(h, ip, ud)
    PROVE  Listed(Append(h, r), ip, ud)
BY ListingsAppend DEF Listed, Strict

\* A request that does not convict leaves a list, what was left of it or a new
\* one, that the pages of the user account for.
LEMMA PathListed ==
    ASSUME BInv, build \in {"tb", "load"}, "dyn2" \in activemodules,
           NEW ip \in IP, NEW t \in 2 .. MaxTime, NEW f \in URI,
           NEW ud \in UserData, ip \in DOMAIN users => Listed(handled, ip, users[ip]),
           EnginePath(ip, t, f, ud, FALSE)
    PROVE  Listed(Append(handled, Line(ip, t, f)), ip, ud)
<1> SUFFICES ASSUME NEW e \in Strict
             PROVE  Cardinality(Hits(Append(handled, Line(ip, t, f)), Asks(ip, e)))
                      + ud.current_list[e] <= Listings(Append(handled, Line(ip, t, f)), ip, e)
  BY DEF Listed
<1> DEFINE r == Line(ip, t, f)
           g == Append(handled, r)
           rd == Record(ip, t, f)
           vd == Watched(ip, t, f)
           was == Cardinality(Hits(handled, Asks(ip, e)))
           is == Cardinality(Hits(g, Asks(ip, e)))
           had == Listings(handled, ip, e)
           has == Listings(g, ip, e)
           gives == main_embed[f][e]
           left == rd.current_list[e]
           leaves == ud.current_list[e]
<1>1. handled \in Seq(Request) /\ r \in Request /\ r.uri = f /\ r \in Of(ip)
  BY FRADEAssumption DEF BInv, Line, Request, Of
<1>2. e \in URI /\ e \notin main_reqs /\ ~ HasQuery(e) /\ gives \in Nat /\ main_embed[f] \in Bag
  BY FRADEAssumption DEF Strict, Bag
<1> HIDE DEF r
<1>3. /\ was \in Nat /\ had \in Nat
      /\ is = IF f = e THEN was + 1 ELSE was
      /\ has = had + gives
  BY <1>1, <1>2, ListingsAppend
<1>4. rd \in UserData /\ vd \in UserData /\ vd.current_list = main_embed[f]
  BY RecordFields
<1>5. left \in Nat /\ leaves \in Nat
  BY <1>2, <1>4 DEF UserData, Bag
<1>6. Page(ip, f) => f # e
  BY <1>2 DEF Page, tb_isMainRequest, load_sampled, load_isMainRequest
<1>7. was <= had
  <2>1. CASE Known(ip)
    <3>1. was + left <= had
      BY <2>1 DEF Known, Record, Listed
    <3> HIDE DEF was, left, had
    <3> QED
      BY <1>3, <1>5, <3>1
  <2>2. CASE ~ Known(ip)
    <3>1. Hits(handled, Asks(ip, e)) = {}
      BY <2>2 DEF BInv, Known, Hits, Asks
    <3>2. was = 0
      BY <3>1, FS_EmptySet
    <3> QED
      BY <1>3, <3>2
  <2> QED
    BY <2>1, <2>2
<1>8. was + left <= has
  <2>1. CASE Known(ip)
    <3>1. was + left <= had
      BY <2>1 DEF Known, Record, Listed
    <3> HIDE DEF was, left, had, has, gives
    <3> QED
      BY <1>2, <1>3, <1>5, <3>1
  <2>2. CASE ~ Known(ip)
    <3>1. left = gives
      BY <2>2 DEF Record, tb_NewUser
    <3> HIDE DEF was, left, had, has, gives
    <3> QED
      BY <1>2, <1>3, <1>7, <3>1
  <2> QED
    BY <2>1, <2>2
<1>9. CASE Passed(ip, t, f, ud, FALSE)
  <2>1. leaves = left /\ f # e
    BY <1>2, <1>9 DEF Passed
  <2> HIDE DEF was, is, left, leaves, has, had, gives
  <2>2. is + leaves <= has
    BY <1>3, <1>8, <2>1
  <2> QED
    BY <2>2 DEF is, leaves, has, g, r
<1>10. CASE Erased(ip, t, f, ud, FALSE)
  <2>1. left > 0 \/ f # e
    BY <1>10 DEF Erased
  <2>2. leaves = IF f = e THEN left - 1 ELSE left
    <3>1. ud = [rd EXCEPT !.current_list[f] = @ - 1]
      BY <1>10 DEF Erased
    <3> HIDE DEF rd
    <3>2. ud.current_list = [rd.current_list EXCEPT ![f] = @ - 1] /\ rd.current_list \in [URI -> Nat]
      BY <1>4, <3>1 DEF UserData, Bag
    <3> QED
      BY <1>2, <3>2 DEF leaves, left
  <2> HIDE DEF was, is, left, leaves, has, had, gives
  <2>3. is + leaves <= has
    <3>1. CASE f = e
      <4>1. is = was + 1 /\ leaves = left - 1
        BY <1>3, <2>2, <3>1
      <4>2. is + leaves = was + left
        BY <1>3, <1>5, <4>1
      <4> QED
        BY <1>8, <4>2
    <3>2. CASE f # e
      BY <1>3, <1>8, <2>2, <3>2
    <3> QED
      BY <3>1, <3>2
  <2> QED
    BY <2>3 DEF is, leaves, has, g, r
<1>11. CASE Page(ip, f) /\ ud.current_list = main_embed[f]
  <2>1. leaves = gives /\ f # e
    BY <1>6, <1>11
  <2> HIDE DEF was, is, left, leaves, has, had, gives
  <2>2. is + leaves <= has
    BY <1>2, <1>3, <1>7, <2>1
  <2> QED
    BY <2>2 DEF is, leaves, has, g, r
<1> HIDE DEF vd
<1>12. CASE Remembered(ip, t, f, ud, FALSE)
  <2>1. Page(ip, f) /\ ud = [vd EXCEPT !.prevFile = f]
    BY <1>12 DEF Remembered, vd
  <2>2. ud.current_list = vd.current_list
    BY <1>4, <2>1 DEF UserData
  <2> QED
    BY <1>4, <1>11, <2>1, <2>2
<1>13. CASE Unwalked(ip, t, f, ud, FALSE)
  BY <1>4, <1>11, <1>13 DEF Unwalked, vd
<1>14. CASE Weighed(ip, t, f, ud, FALSE)
  <2>1. Page(ip, f) /\ \E o : ud = Walked(vd, o)
    BY <1>14 DEF Weighed, vd
  <2>2. ud.current_list = vd.current_list
    BY <1>4, <2>1 DEF Walked, UserData
  <2> QED
    BY <1>4, <1>11, <2>1, <2>2
<1> QED
  BY <1>9, <1>10, <1>12, <1>13, <1>14 DEF EnginePath, Dummy, Missed, Exceeded

ListedInv ==
    /\ BHist
    /\ build \in {"tb", "load"} /\ "dyn2" \in activemodules =>
          \A ip \in DOMAIN users \ blacklist : Listed(handled, ip, users[ip])

LEMMA ListedInductive == ListedInv /\ [BuildsNext]_buildVars => ListedInv'
<1> SUFFICES ASSUME ListedInv, [BuildsNext]_buildVars PROVE ListedInv'
  OBVIOUS
<1>1. BHist /\ BHist'
  BY BuildHistory DEF ListedInv
<1>2. build' = build
  BY DEF BuildsNext, buildVars
<1> SUFFICES ASSUME build \in {"tb", "load"}, "dyn2" \in activemodules
             PROVE  \A ip \in DOMAIN users' \ blacklist' : Listed(handled, ip, users[ip])'
  BY <1>1, <1>2 DEF ListedInv
<1>3. BInv /\ BInv' /\ Records = UserData
  BY <1>1, <1>2 DEF BHist, Records
<1>4. /\ handled \in Seq(Request) /\ handled' \in Seq(Request)
      /\ DOMAIN users \subseteq IP /\ \A ip \in DOMAIN users : users[ip] \in UserData
      /\ DOMAIN users' \subseteq IP
  BY <1>3 DEF BInv
<1>5. \A ip \in DOMAIN users \ blacklist : users[ip] \in ListsOf[ip][handled]
  BY <1>4 DEF ListedInv, ListsOf
<1>6. ASSUME NEW h \in Seq(Request), NEW r \in Request, NEW ip \in IP, r \notin Of(ip)
      PROVE  ListsOf[ip][h] \subseteq ListsOf[ip][Append(h, r)]
  <2>1. Append(h, r) \in Seq(Request)
    OBVIOUS
  <2> QED
    BY <1>6, <2>1, StillListed DEF ListsOf
<1>7. ASSUME NEW ip \in IP \ blacklist, NEW t \in 2 .. MaxTime, NEW f \in URI,
             NEW ud \in Records, BPath(ip, t, f, ud, FALSE)
      PROVE  ud \in ListsOf[ip][Append(handled, Line(ip, t, f))]
  <2>1. ip \in DOMAIN users => Listed(handled, ip, users[ip])
    BY <1>7 DEF ListedInv
  <2>2. Listed(Append(handled, Line(ip, t, f)), ip, ud)
    BY <1>3, <1>7, <2>1, PathListed DEF BPath
  <2>3. Append(handled, Line(ip, t, f)) \in Seq(Request)
    <3>1. Line(ip, t, f) \in Request
      BY FRADEAssumption DEF Line, Request
    <3> QED
      BY <1>4, <3>1
  <2> QED
    BY <1>3, <2>2, <2>3 DEF ListsOf
<1> HIDE DEF ListsOf
<1>8. \A ip \in DOMAIN users' \ blacklist' : users'[ip] \in ListsOf[ip][handled']
  BY <1>1, <1>5, <1>6, <1>7, BuildUserInductive
<1>9. \A ip \in DOMAIN users' \ blacklist' : Listed(handled', ip, users'[ip])
  BY <1>4, <1>8 DEF ListsOf
<1> QED
  BY <1>9 DEF Listed, Strict, Listings, ListedBy, Weight, Hits, Asks, Of, HasQuery

\* In the two versions whose dyn2 convicts at the first object that is not on
\* the page's list, nobody at large has had an object more often than the pages
\* it asked for list it, whichever pages the version failed to notice.
THEOREM ListsKept == BuildsSpec => []ObjectsListed
<1>1. BuildsInit => ListedInv
  BY BuildInitially DEF BuildsInit, Init, ListedInv
<1>2. ListedInv => ObjectsListed
  <2> SUFFICES ASSUME ListedInv, build \in {"tb", "load"}, "dyn2" \in activemodules,
                      NEW ip \in DOMAIN users \ blacklist, NEW f \in URI \ main_reqs,
                      ~ HasQuery(f)
               PROVE  LET Mine == {k \in DOMAIN handled : handled[k].ip = ip}
                      IN  Cardinality(Asked(ip, f, Mine)) <= Total(ListedBy(f), Mine)
    BY DEF ObjectsListed, ListedBy
  <2> DEFINE Mine == {k \in DOMAIN handled : handled[k].ip = ip}
             asked == Cardinality(Hits(handled, Asks(ip, f)))
             listed == Listings(handled, ip, f)
             left == users[ip].current_list[f]
  <2>1. /\ handled \in Seq(Request) /\ \A k \in DOMAIN handled : handled[k].time # 1
        /\ users[ip] \in UserData
    BY DEF ListedInv, BHist, BInv, Records
  <2>2. \A k \in DOMAIN handled : handled[k] \in Request
    BY <2>1
  <2>3. Mine = Hits(handled, Of(ip)) /\ Asked(ip, f, Mine) = Hits(handled, Asks(ip, f))
    BY <2>1, <2>2 DEF Hits, Of, Asks, Asked
  <2>4. asked + left <= listed
    BY DEF ListedInv, Listed, Strict
  <2>5. left \in Nat
    BY <2>1 DEF UserData, Bag
  <2>6. asked \in Nat /\ listed \in Nat
    <3>1. /\ Hits(handled, Asks(ip, f)) \in SUBSET (1 .. Len(handled)) /\ Len(handled) \in Nat
          /\ Hits(handled, Of(ip)) \in SUBSET (DOMAIN handled)
      BY <2>1 DEF Hits
    <3> QED
      BY <2>1, <3>1, PartOfInterval, EmbedType, WeightType DEF Listings
  <2> HIDE DEF asked, listed, left
  <2>7. asked <= listed
    BY <2>4, <2>5, <2>6
  <2> QED
    BY <2>3, <2>7 DEF asked, listed, Listings, Total, Weight
<1> QED
  BY <1>1, <1>2, ListedInductive, PTL DEF BuildsSpec


-----------------------------------------------------------------------------
(***************************************************************************)
(* What convicts in the versions.                                          *)
(***************************************************************************)
\* What the expressions of MAIN_REQS match is no embedded object of FRADE.cpp.
PagesViewable == \A f \in main_reqs : Viewable(f)

LEMMA tb_NewUserCounted ==
    ASSUME NEW h \in Seq(Request), NEW ip, NEW t \in 1 .. MaxTime, NEW f \in URI,
           NEW page \in BOOLEAN
    PROVE  CountedIn(h, ip, tb_NewUser(t, f, page))
<1>1. CASE page
  <2> SUFFICES ASSUME NEW i \in Win
               PROVE  1 <= 1 + Cardinality(Within(h, ip, t, windows[i]))
    BY <1>1, FRADEAssumption DEF CountedIn, tb_NewUser
  <2>1. Within(h, ip, t, windows[i]) \in SUBSET (1 .. Len(h)) /\ Len(h) \in Nat
    BY DEF Within
  <2>2. Cardinality(Within(h, ip, t, windows[i])) \in Nat
    BY <2>1, PartOfInterval
  <2> QED
    BY <2>2
<1>2. CASE ~ page
  BY <1>2 DEF CountedIn, tb_NewUser
<1> QED
  BY <1>1, <1>2

\* The windows of a record are justified, their counts and their costs.
Windowed(h, ip, ud) == CountedIn(h, ip, ud) /\ Costed(h, ip, ud)

LEMMA SameWindows ==
    ASSUME NEW h, NEW ip, NEW ud, NEW vd, Windowed(h, ip, ud),
           vd.counts = ud.counts, vd.procs = ud.procs, vd.times = ud.times
    PROVE  Windowed(h, ip, vd)
BY DEF Windowed, CountedIn, Costed

LEMMA BuildReady ==
    ASSUME BInv, PagesViewable, build \in {"tb", "load"},
           NEW ip \in IP, NEW t \in 2 .. MaxTime, NEW f \in URI,
           ip \in DOMAIN users => Windowed(handled, ip, users[ip])
    PROVE  /\ Ready(handled, ip, t, f, Record(ip, t, f))
           /\ CountedIn(handled, ip, Record(ip, t, f))
           /\ Page(ip, f) => Viewable(f) /\ tb_isMainRequest(f)
<1>1. Page(ip, f) => Viewable(f) /\ tb_isMainRequest(f)
  BY DEF PagesViewable, Page, load_sampled, load_isMainRequest, tb_isMainRequest
<1>2. CASE Known(ip)
  <2>1. Record(ip, t, f) = users[ip] /\ Windowed(handled, ip, users[ip])
    BY <1>2 DEF Record, Known
  <2> QED
    BY <1>1, <2>1 DEF Windowed, Costed, Ready
<1>3. CASE ~ Known(ip)
  <2> DEFINE page == Page(ip, f)
  <2>1. Record(ip, t, f) = tb_NewUser(t, f, page)
    BY <1>3 DEF Record
  <2>2. page \in BOOLEAN
    <3>1. load_sampled(ip, f) \in BOOLEAN
      BY DEF load_sampled
    <3>2. tb_isMainRequest(f) \in BOOLEAN
      BY DEF tb_isMainRequest
    <3> QED
      BY <3>1, <3>2 DEF Page
  <2>3. handled \in Seq(Request) /\ t \in 1 .. MaxTime
    BY FRADEAssumption DEF BInv
  <2> HIDE DEF page
  <2>4. CountedIn(handled, ip, tb_NewUser(t, f, page))
    BY <2>2, <2>3, tb_NewUserCounted
  <2>5. page => Viewable(f)
    BY <1>1 DEF page
  <2>6. Ready(handled, ip, t, f, tb_NewUser(t, f, page))
    BY <2>2, <2>5 DEF Ready, tb_NewUser
  <2> QED
    BY <1>1, <2>1, <2>4, <2>6
<1> QED
  BY <1>2, <1>3

\* A line that does not convict keeps the windows justified.
LEMMA PathWindowed ==
    ASSUME BInv, PagesViewable, build \in {"tb", "load"},
           NEW ip \in IP, NEW t \in 2 .. MaxTime, NEW f \in URI, NEW ud \in UserData,
           ip \in DOMAIN users => Windowed(handled, ip, users[ip]),
           EnginePath(ip, t, f, ud, FALSE)
    PROVE  Windowed(Append(handled, Line(ip, t, f)), ip, ud)
<1> DEFINE rd == Record(ip, t, f)
           vd == Watched(ip, t, f)
           g == Append(handled, Line(ip, t, f))
<1>1. handled \in Seq(Request) /\ Line(ip, t, f) \in Request
  BY FRADEAssumption DEF BInv, Line, Request
<1>2. rd \in UserData /\ vd \in UserData
  BY RecordFields
<1>3. /\ Ready(handled, ip, t, f, rd) /\ CountedIn(handled, ip, rd)
      /\ Page(ip, f) => Viewable(f)
  BY BuildReady
<1>4. Windowed(g, ip, rd)
  <2> HIDE DEF rd
  <2> QED
    BY <1>1, <1>2, <1>3, ReadyStays, StillCounted DEF Windowed
<1>5. Page(ip, f) => Windowed(g, ip, vd)
  <2>1. vd = Charged(rd, t, f)
    BY DEF Watched
  <2>2. Line(ip, t, f) = [ip |-> ip, time |-> t, uri |-> f]
    BY DEF Line
  <2> HIDE DEF rd, vd
  <2>3. ASSUME Viewable(f)
        PROVE  Costed(g, ip, vd) /\ CountedIn(g, ip, vd)
    <3>1. Costed(g, ip, vd)
      BY <1>1, <1>2, <1>3, <2>1, <2>3, ChargeCosted
    <3>2. CountedIn(g, ip, vd)
      BY <1>1, <1>2, <1>3, <2>1, <2>2, <2>3, ChargeCounted
    <3> QED
      BY <3>1, <3>2
  <2> QED
    BY <1>3, <2>3 DEF Windowed
<1> HIDE DEF rd, vd, g
<1>6. CASE Passed(ip, t, f, ud, FALSE)
  BY <1>4, <1>6 DEF Passed, rd, g
<1>7. CASE Erased(ip, t, f, ud, FALSE)
  <2>1. ud = [rd EXCEPT !.current_list[f] = @ - 1]
    BY <1>7 DEF Erased, rd
  <2>2. ud.counts = rd.counts /\ ud.procs = rd.procs /\ ud.times = rd.times
    BY <1>2, <2>1 DEF UserData
  <2> QED
    BY <1>4, <2>2, SameWindows DEF g
<1>8. CASE Remembered(ip, t, f, ud, FALSE)
  <2>1. Page(ip, f) /\ ud = [vd EXCEPT !.prevFile = f]
    BY <1>8 DEF Remembered, vd
  <2>2. ud.counts = vd.counts /\ ud.procs = vd.procs /\ ud.times = vd.times
    BY <1>2, <2>1 DEF UserData
  <2> QED
    BY <1>5, <2>1, <2>2, SameWindows DEF g
<1>9. CASE Unwalked(ip, t, f, ud, FALSE)
  BY <1>5, <1>9 DEF Unwalked, vd, g
<1>10. CASE Weighed(ip, t, f, ud, FALSE)
  <2>1. Page(ip, f) /\ \E o : ud = Walked(vd, o)
    BY <1>10 DEF Weighed, vd
  <2>2. ud.counts = vd.counts /\ ud.procs = vd.procs /\ ud.times = vd.times
    BY <1>2, <2>1 DEF Walked, UserData
  <2> QED
    BY <1>5, <2>1, <2>2, SameWindows DEF g
<1> QED
  BY <1>6, <1>7, <1>8, <1>9, <1>10 DEF EnginePath, Dummy, Missed, Exceeded


\* The requests of ip for f from the line j on.
Since(h, ip, f, j) == {k \in Hits(h, Asks(ip, f)) : k >= j}

LEMMA SinceAppend ==
    ASSUME NEW h \in Seq(Request), NEW r \in Request, NEW ip, NEW f, NEW j \in 1 .. Len(h) + 1
    PROVE  /\ Cardinality(Since(h, ip, f, j)) \in Nat
           /\ Cardinality(Since(Append(h, r), ip, f, j)) =
                 IF r \in Asks(ip, f) THEN Cardinality(Since(h, ip, f, j)) + 1
                 ELSE Cardinality(Since(h, ip, f, j))
           /\ Cardinality(Since(h, ip, f, Len(h) + 1)) = 0
<1> DEFINE n == Len(h) + 1
           old == Since(h, ip, f, j)
           new == Since(Append(h, r), ip, f, j)
<1>1. Len(h) \in Nat /\ DOMAIN h = 1 .. Len(h)
  OBVIOUS
<1>2. /\ Hits(Append(h, r), Asks(ip, f)) =
            IF r \in Asks(ip, f) THEN Hits(h, Asks(ip, f)) \cup {n} ELSE Hits(h, Asks(ip, f))
      /\ Hits(h, Asks(ip, f)) \in SUBSET (1 .. Len(h))
  BY <1>1, HitsAppend DEF Hits
<1>3. /\ old \in SUBSET (1 .. Len(h)) /\ n \notin old /\ n >= j
      /\ Since(h, ip, f, n) = {}
  BY <1>1, <1>2 DEF Since
<1>4. new = IF r \in Asks(ip, f) THEN old \cup {n} ELSE old
  BY <1>2, <1>3 DEF Since
<1>5. IsFiniteSet(old) /\ Cardinality(old) \in Nat
  BY <1>1, <1>3, PartOfInterval
<1> HIDE DEF n, old, new
<1>6. Cardinality(old \cup {n}) = Cardinality(old) + 1
  BY <1>3, <1>5, FS_AddElement
<1> QED
  BY <1>3, <1>4, <1>5, <1>6, FS_EmptySet DEF n, old, new

Bare == {f \in URI : ~ HasQuery(f)}

\* The list L may have come from the line j of the user: what the page lists is
\* still in L, or was asked for since.
RootAt(h, ip, L, j) ==
    \A f \in Bare : Cardinality(Since(h, ip, f, j)) + L[f] >= main_embed[h[j].uri][f]

LastPageAt(h, ip, j) ==
    build = "tb" => \A i \in Hits(h, Of(ip)) : i > j => ~ tb_isMainRequest(h[i].uri)

Rooted(h, ip, ud) ==
    \E j \in Hits(h, Of(ip)) : LastPageAt(h, ip, j) /\ RootAt(h, ip, ud.current_list, j)

LEMMA StillRooted ==
    ASSUME NEW h \in Seq(Request), NEW r \in Request, NEW ip, r \notin Of(ip),
           NEW ud, Rooted(h, ip, ud)
    PROVE  Rooted(Append(h, r), ip, ud)
<1> DEFINE g == Append(h, r)
<1>1. PICK j \in Hits(h, Of(ip)) : LastPageAt(h, ip, j) /\ RootAt(h, ip, ud.current_list, j)
  BY DEF Rooted
<1>2. /\ Hits(g, Of(ip)) = Hits(h, Of(ip)) /\ \A k \in Hits(h, Of(ip)) : g[k] = h[k]
      /\ j \in 1 .. Len(h) + 1
  BY HitsAppend
<1>3. \A f \in Bare : Cardinality(Since(g, ip, f, j)) = Cardinality(Since(h, ip, f, j))
  <2>1. \A f \in Bare : r \notin Asks(ip, f)
    BY DEF Asks
  <2> QED
    BY <1>2, <2>1, SinceAppend
<1> HIDE DEF g
<1>4. LastPageAt(g, ip, j) /\ RootAt(g, ip, ud.current_list, j)
  BY <1>1, <1>2, <1>3 DEF LastPageAt, RootAt
<1> QED
  BY <1>2, <1>4 DEF Rooted, g

\* The list of the record a request is judged on comes from a line of the user,
\* its own if it is the first.
LEMMA RecordRoot ==
    ASSUME BInv, build \in {"tb", "load"},
           NEW ip \in IP, NEW t \in 2 .. MaxTime, NEW f \in URI,
           ip \in DOMAIN users => Rooted(handled, ip, users[ip])
    PROVE  LET g == Append(handled, Line(ip, t, f))
           IN  \E j \in Hits(g, Of(ip)) :
                  /\ LastPageAt(handled, ip, j)
                  /\ \A e \in Bare :
                        Cardinality(Since(handled, ip, e, j)) + Record(ip, t, f).current_list[e]
                            >= main_embed[g[j].uri][e]
<1> DEFINE r == Line(ip, t, f)
           g == Append(handled, r)
           n == Len(handled) + 1
           L == Record(ip, t, f).current_list
<1>1. handled \in Seq(Request) /\ r \in Request /\ r.uri = f /\ r \in Of(ip)
  BY FRADEAssumption DEF BInv, Line, Request, Of
<1> HIDE DEF r
<1>2. /\ Hits(g, Of(ip)) = Hits(handled, Of(ip)) \cup {n} /\ g[n] = r
      /\ \A k \in Hits(handled, Of(ip)) : k \in 1 .. Len(handled) /\ g[k] = handled[k]
  BY <1>1, HitsAppend
<1> HIDE DEF g
<1>3. CASE Known(ip)
  <2>1. Rooted(handled, ip, users[ip]) /\ L = users[ip].current_list
    BY <1>3 DEF Record, Known
  <2>2. PICK j \in Hits(handled, Of(ip)) : LastPageAt(handled, ip, j) /\ RootAt(handled, ip, L, j)
    BY <2>1 DEF Rooted
  <2> HIDE DEF L
  <2>3. \A e \in Bare : Cardinality(Since(handled, ip, e, j)) + L[e] >= main_embed[g[j].uri][e]
    BY <1>2, <2>2 DEF RootAt
  <2> QED
    BY <1>2, <2>2, <2>3 DEF L, g, r
<1>4. CASE ~ Known(ip)
  <2>1. L = main_embed[f]
    BY <1>4 DEF Record, tb_NewUser
  <2>2. Hits(handled, Of(ip)) = {}
    BY <1>4 DEF BInv, Known
  <2> HIDE DEF L
  <2>3. LastPageAt(handled, ip, n)
    BY <2>2 DEF LastPageAt
  <2>4. \A e \in Bare : Cardinality(Since(handled, ip, e, n)) = 0 /\ main_embed[f][e] \in Nat
    <3>1. Len(handled) \in Nat /\ n \in 1 .. Len(handled) + 1
      BY <1>1
    <3>2. \A e : Cardinality(Since(handled, ip, e, n)) = 0
      BY <1>1, <3>1, SinceAppend
    <3> QED
      BY <3>2, FRADEAssumption DEF Bare, Bag
  <2>5. \A e \in Bare : Cardinality(Since(handled, ip, e, n)) + L[e] >= main_embed[g[n].uri][e]
    BY <1>1, <1>2, <2>1, <2>4
  <2> QED
    BY <1>2, <2>3, <2>5 DEF L, g, r
<1> QED
  BY <1>3, <1>4

LEMMA PathRooted ==
    ASSUME BInv, build \in {"tb", "load"}, "dyn2" \in activemodules,
           NEW ip \in IP, NEW t \in 2 .. MaxTime, NEW f \in URI, NEW ud \in UserData,
           ip \in DOMAIN users => Rooted(handled, ip, users[ip]),
           EnginePath(ip, t, f, ud, FALSE)
    PROVE  Rooted(Append(handled, Line(ip, t, f)), ip, ud)
<1> DEFINE r == Line(ip, t, f)
           g == Append(handled, r)
           n == Len(handled) + 1
           rd == Record(ip, t, f)
           vd == Watched(ip, t, f)
<1>1. handled \in Seq(Request) /\ r \in Request /\ r.uri = f /\ r \in Of(ip)
  BY FRADEAssumption DEF BInv, Line, Request, Of
<1>2. rd \in UserData /\ vd \in UserData /\ vd.current_list = main_embed[f]
  BY RecordFields
<1> HIDE DEF r
<1>3. /\ Hits(g, Of(ip)) = Hits(handled, Of(ip)) \cup {n} /\ g[n] = r
      /\ \A k \in Hits(handled, Of(ip)) : k \in 1 .. Len(handled) /\ g[k] = handled[k]
      /\ Len(handled) \in Nat
  BY <1>1, HitsAppend
<1>4. \A j \in 1 .. n, e \in Bare :
          /\ Cardinality(Since(handled, ip, e, j)) \in Nat
          /\ Cardinality(Since(g, ip, e, j)) =
                IF f = e THEN Cardinality(Since(handled, ip, e, j)) + 1
                ELSE Cardinality(Since(handled, ip, e, j))
  <2>1. \A e : r \in Asks(ip, e) <=> f = e
    BY <1>1 DEF Asks
  <2> QED
    BY <1>1, <2>1, SinceAppend
<1>5. \A u \in URI, e \in Bare : main_embed[u][e] \in Nat
  BY FRADEAssumption DEF Bare, Bag
<1>6. CASE Passed(ip, t, f, ud, FALSE) \/ Erased(ip, t, f, ud, FALSE)
  <2>1. PICK j \in Hits(g, Of(ip)) :
            /\ LastPageAt(handled, ip, j)
            /\ \A e \in Bare :
                  Cardinality(Since(handled, ip, e, j)) + rd.current_list[e]
                      >= main_embed[g[j].uri][e]
    BY RecordRoot DEF g, r
  <2>2. j \in 1 .. n /\ g[j].uri \in URI
    <3>1. g \in Seq(Request) /\ j \in DOMAIN g /\ j \in 1 .. n
      BY <1>1, <1>3, <2>1 DEF Hits
    <3> HIDE DEF g
    <3>2. g[j] \in Request
      BY <3>1
    <3> QED
      BY <3>1, <3>2 DEF Request
  <2>3. ~ Page(ip, f)
    BY <1>6 DEF Passed, Erased
  <2> HIDE DEF g, n
  <2>4. LastPageAt(g, ip, j)
    BY <1>1, <1>3, <2>1, <2>3 DEF LastPageAt, Page
  <2>5. \A e \in Bare : /\ rd.current_list[e] \in Nat /\ ud.current_list[e] \in Nat
                        /\ IF f = e THEN ud.current_list[e] + 1 >= rd.current_list[e]
                           ELSE ud.current_list[e] = rd.current_list[e]
    <3>1. \A e \in Bare : rd.current_list[e] \in Nat /\ ud.current_list[e] \in Nat
      BY <1>2 DEF UserData, Bag, Bare
    <3>2. CASE ud = rd
      BY <3>1, <3>2
    <3>3. CASE ud = [rd EXCEPT !.current_list[f] = @ - 1]
      <4> HIDE DEF rd
      <4>1. /\ ud.current_list = [rd.current_list EXCEPT ![f] = @ - 1]
            /\ rd.current_list \in [URI -> Nat]
        BY <1>2, <3>3 DEF UserData, Bag
      <4>2. \A e \in Bare : ud.current_list[e] = IF e = f THEN rd.current_list[e] - 1
                                                 ELSE rd.current_list[e]
        BY <4>1 DEF Bare
      <4> QED
        BY <3>1, <4>2
    <3> QED
      BY <1>6, <3>2, <3>3 DEF Passed, Erased
  <2>6. RootAt(g, ip, ud.current_list, j)
    <3> SUFFICES ASSUME NEW e \in Bare
                 PROVE  Cardinality(Since(g, ip, e, j)) + ud.current_list[e]
                            >= main_embed[g[j].uri][e]
      BY DEF RootAt
    <3> DEFINE was == Cardinality(Since(handled, ip, e, j))
               is == Cardinality(Since(g, ip, e, j))
               gives == main_embed[g[j].uri][e]
               left == rd.current_list[e]
               leaves == ud.current_list[e]
    <3>1. /\ was \in Nat /\ gives \in Nat /\ left \in Nat /\ leaves \in Nat
          /\ was + left >= gives
          /\ is = IF f = e THEN was + 1 ELSE was
          /\ IF f = e THEN leaves + 1 >= left ELSE leaves = left
      BY <1>4, <1>5, <2>1, <2>2, <2>5
    <3> HIDE DEF was, is, gives, left, leaves
    <3>2. is + leaves >= gives
      BY <3>1
    <3> QED
      BY <3>2 DEF is, leaves, gives
  <2> QED
    BY <2>1, <2>4, <2>6 DEF Rooted, g, r
<1>7. CASE ud.current_list = main_embed[f]
  <2>1. n \in Hits(g, Of(ip)) /\ n \in 1 .. n
    BY <1>3
  <2>2. LastPageAt(g, ip, n)
    BY <1>3 DEF LastPageAt
  <2>3. RootAt(g, ip, ud.current_list, n)
    <3> SUFFICES ASSUME NEW e \in Bare
                 PROVE  Cardinality(Since(g, ip, e, n)) + main_embed[f][e] >= main_embed[f][e]
      BY <1>1, <1>3, <1>7 DEF RootAt
    <3>1. Cardinality(Since(g, ip, e, n)) \in Nat /\ main_embed[f][e] \in Nat
      BY <1>4, <1>5, <2>1
    <3> HIDE DEF g, n
    <3> QED
      BY <3>1
  <2> QED
    BY <2>1, <2>2, <2>3 DEF Rooted, g, r
<1> HIDE DEF vd
<1>8. CASE Remembered(ip, t, f, ud, FALSE)
  <2>1. ud = [vd EXCEPT !.prevFile = f]
    BY <1>8 DEF Remembered, vd
  <2>2. ud.current_list = vd.current_list
    BY <1>2, <2>1 DEF UserData
  <2> QED
    BY <1>2, <1>7, <2>2
<1>9. CASE Unwalked(ip, t, f, ud, FALSE)
  BY <1>2, <1>7, <1>9 DEF Unwalked, vd
<1>10. CASE Weighed(ip, t, f, ud, FALSE)
  <2>1. \E o : ud = Walked(vd, o)
    BY <1>10 DEF Weighed, vd
  <2>2. ud.current_list = vd.current_list
    BY <1>2, <2>1 DEF Walked, UserData
  <2> QED
    BY <1>2, <1>7, <2>2
<1> QED
  BY <1>6, <1>8, <1>9, <1>10 DEF EnginePath, Dummy, Missed, Exceeded


\* Unlisted, for any history.
UnlistedIn(h, ip) ==
    \E k \in DOMAIN h :
        /\ h[k].ip = ip
        /\ ~ HasQuery(h[k].uri)
        /\ \E j \in 1 .. k :
              /\ h[j].ip = ip
              /\ build = "tb" =>
                    \A i \in (j + 1) .. (k - 1) : h[i].ip = ip => ~ tb_isMainRequest(h[i].uri)
              /\ Cardinality({i \in j .. (k - 1) : h[i].ip = ip /\ h[i].uri = h[k].uri})
                    >= main_embed[h[j].uri][h[k].uri]

LEMMA UnlistedGrows ==
    ASSUME NEW h \in Seq(Request), NEW r \in Request, NEW ip, UnlistedIn(h, ip)
    PROVE  UnlistedIn(Append(h, r), ip)
<1> DEFINE g == Append(h, r)
<1>1. Len(h) \in Nat /\ DOMAIN h = 1 .. Len(h) /\ \A k \in DOMAIN h : k \in DOMAIN g /\ g[k] = h[k]
  OBVIOUS
<1>2. PICK k \in DOMAIN h :
          /\ h[k].ip = ip
          /\ ~ HasQuery(h[k].uri)
          /\ \E j \in 1 .. k :
                /\ h[j].ip = ip
                /\ build = "tb" =>
                      \A i \in (j + 1) .. (k - 1) : h[i].ip = ip => ~ tb_isMainRequest(h[i].uri)
                /\ Cardinality({i \in j .. (k - 1) : h[i].ip = ip /\ h[i].uri = h[k].uri})
                      >= main_embed[h[j].uri][h[k].uri]
  BY DEF UnlistedIn
<1>3. PICK j \in 1 .. k :
          /\ h[j].ip = ip
          /\ build = "tb" =>
                \A i \in (j + 1) .. (k - 1) : h[i].ip = ip => ~ tb_isMainRequest(h[i].uri)
          /\ Cardinality({i \in j .. (k - 1) : h[i].ip = ip /\ h[i].uri = h[k].uri})
                >= main_embed[h[j].uri][h[k].uri]
  BY <1>2
<1> HIDE DEF g
<1>4. /\ k \in DOMAIN g /\ g[k] = h[k] /\ g[j] = h[j]
      /\ \A i \in j .. (k - 1) : g[i] = h[i]
      /\ \A i \in (j + 1) .. (k - 1) : g[i] = h[i]
  BY <1>1
<1>5. {i \in j .. (k - 1) : g[i].ip = ip /\ g[i].uri = g[k].uri}
        = {i \in j .. (k - 1) : h[i].ip = ip /\ h[i].uri = h[k].uri}
  BY <1>4
<1> QED
  BY <1>2, <1>3, <1>4, <1>5 DEF UnlistedIn, g

\* A conviction of a user at large brings its evidence.
LEMMA EngineShows ==
    ASSUME BInv, PagesViewable, build \in {"tb", "load"},
           NEW ip \in IP, NEW t \in 2 .. MaxTime, NEW f \in URI, NEW ud \in UserData,
           ip \in DOMAIN users => Windowed(handled, ip, users[ip]),
           ip \in DOMAIN users /\ "dyn2" \in activemodules => Rooted(handled, ip, users[ip]),
           EnginePath(ip, t, f, ud, TRUE)
    PROVE  LET g == Append(handled, Line(ip, t, f))
           IN  OnLog(g, ip) \/ OnWalk(ud) \/ ("dyn2" \in activemodules /\ UnlistedIn(g, ip))
<1> DEFINE r == Line(ip, t, f)
           g == Append(handled, r)
           n == Len(handled) + 1
           rd == Record(ip, t, f)
           vd == Watched(ip, t, f)
<1>1. /\ handled \in Seq(Request) /\ r \in Request /\ r.uri = f /\ r \in Of(ip) /\ r.ip = ip
      /\ \A k \in DOMAIN handled : handled[k].time # 1
  BY FRADEAssumption DEF BInv, Line, Request, Of
<1>2. rd \in UserData /\ vd \in UserData /\ vd.seqLength = rd.seqLength + 1
  BY RecordFields
<1>3. /\ Ready(handled, ip, t, f, rd) /\ CountedIn(handled, ip, rd)
      /\ Page(ip, f) => Viewable(f)
  BY BuildReady
<1>4. /\ Len(handled) \in Nat /\ DOMAIN handled = 1 .. Len(handled)
      /\ n \in DOMAIN g /\ g[n] = r /\ \A k \in DOMAIN handled : g[k] = handled[k]
  BY <1>1
<1>5. CASE Dummy(ip, t, f, ud, TRUE)
  BY <1>1, <1>4, <1>5 DEF Dummy, OnLog
<1>6. CASE Missed(ip, t, f, ud, TRUE)
  <2>1. /\ ~ Page(ip, f) /\ "dyn2" \in activemodules /\ ~ HasQuery(f)
        /\ rd.current_list[f] = 0
    BY <1>6 DEF Missed
  <2>2. PICK j \in Hits(g, Of(ip)) :
            /\ LastPageAt(handled, ip, j)
            /\ \A e \in Bare :
                  Cardinality(Since(handled, ip, e, j)) + rd.current_list[e]
                      >= main_embed[g[j].uri][e]
    BY <2>1, RecordRoot
  <2>3. j \in 1 .. n /\ g[j].ip = ip /\ f \in Bare
    BY <1>1, <1>4, <2>1, <2>2 DEF Hits, Of, Bare
  <2> HIDE DEF r, rd
  <2>4. Cardinality(Since(handled, ip, f, j)) \in Nat
    BY <1>1, <2>3, SinceAppend
  <2>5. Cardinality(Since(handled, ip, f, j)) >= main_embed[g[j].uri][f]
    <3> HIDE DEF g
    <3> QED
      BY <2>1, <2>2, <2>3, <2>4
  <2>6. {i \in j .. (n - 1) : g[i].ip = ip /\ g[i].uri = f} = Since(handled, ip, f, j)
    <3>1. \A i \in j .. (n - 1) : i \in DOMAIN handled /\ g[i] = handled[i]
      BY <1>4, <2>3
    <3>2. \A i \in DOMAIN handled : handled[i] \in Request
      BY <1>1
    <3>3. \A i \in DOMAIN handled : i >= j => i \in j .. (n - 1)
      BY <1>4, <2>3
    <3> HIDE DEF g, n
    <3> QED
      BY <1>1, <3>1, <3>2, <3>3 DEF Since, Hits, Asks, Of
  <2>7. build = "tb" =>
            \A i \in (j + 1) .. (n - 1) : g[i].ip = ip => ~ tb_isMainRequest(g[i].uri)
    <3> SUFFICES ASSUME build = "tb", NEW i \in (j + 1) .. (n - 1), g[i].ip = ip
                 PROVE  ~ tb_isMainRequest(g[i].uri)
      OBVIOUS
    <3>1. i \in DOMAIN handled /\ g[i] = handled[i] /\ i > j
      BY <1>4, <2>3
    <3>2. handled[i] \in Request
      BY <1>1, <3>1
    <3> HIDE DEF g
    <3>3. i \in Hits(handled, Of(ip))
      BY <1>1, <3>1, <3>2 DEF Hits, Of
    <3> QED
      BY <2>2, <3>1, <3>3 DEF LastPageAt
  <2>8. g[n].ip = ip /\ g[n].uri = f
    BY <1>1, <1>4
  <2> HIDE DEF g, n
  <2>9. /\ Cardinality({i \in j .. (n - 1) : g[i].ip = ip /\ g[i].uri = g[n].uri})
              >= main_embed[g[j].uri][g[n].uri]
        /\ ~ HasQuery(g[n].uri)
    BY <2>1, <2>5, <2>6, <2>8
  <2>10. UnlistedIn(g, ip)
    BY <1>4, <2>3, <2>7, <2>8, <2>9 DEF UnlistedIn
  <2> QED
    BY <2>1, <2>10 DEF g, r
<1>7. CASE Exceeded(ip, t, f, ud, TRUE)
  <2>1. Viewable(f) /\ Tripped(EnterPage(rd, f), t, f)
    BY <1>3, <1>7 DEF Exceeded, Over
  <2> HIDE DEF rd
  <2> QED
    BY <1>1, <1>2, <1>3, <2>1, TripShows
<1>8. CASE Weighed(ip, t, f, ud, TRUE)
  <2>1. /\ Unlikely(ud) /\ "sem" \in activemodules
        /\ \E o : ud = Walked(vd, o)
    BY <1>8 DEF Weighed
  <2> HIDE DEF rd, vd
  <2>2. ud.seqLength = vd.seqLength
    BY <1>2, <2>1 DEF Walked, UserData
  <2>3. ud.seqLength \in Nat /\ ud.seqLength >= 2
    BY <1>2, <2>2 DEF UserData
  <2>4. LookupIndex(ud.seqLength) \in DOMAIN SeqThreshCost
    BY <2>3, ThresholdExists
  <2> QED
    BY <2>1, <2>4 DEF OnWalk, Unlikely
<1> QED
  BY <1>5, <1>6, <1>7, <1>8 DEF EnginePath, Passed, Erased, Remembered, Unwalked

\* The cost of a sequence never falls.
LEMMA EngineCostRises ==
    ASSUME BInv, build \in {"tb", "load"},
           NEW ip \in IP, NEW t \in 2 .. MaxTime, NEW f \in URI, NEW ud \in UserData,
           NEW convict, EnginePath(ip, t, f, ud, convict), Known(ip)
    PROVE  users[ip].seqCost <= ud.seqCost
<1> DEFINE rd == Record(ip, t, f)
           vd == Watched(ip, t, f)
<1>1. rd \in UserData /\ vd \in UserData /\ vd.seqCost = rd.seqCost /\ rd = users[ip]
  BY RecordFields DEF Record
<1> HIDE DEF rd, vd
<1>2. rd.seqCost \in Nat
  BY <1>1 DEF UserData
<1>3. CASE Weighed(ip, t, f, ud, convict)
  <2>1. PICK o \in WalksOf(rd.endNode, rd.prevFile, f) : ud = Walked(vd, o)
    BY <1>3 DEF Weighed, rd, vd
  <2>2. rd.endNode \in Nodes \cup {NULL} /\ rd.prevFile \in URI \cup {NULL}
    BY <1>1 DEF UserData
  <2>3. o.cost \in Nat
    BY <2>1, <2>2, WalksFacts DEF OutcomeType
  <2>4. ud.seqCost = vd.seqCost + o.cost
    BY <1>1, <2>1 DEF Walked, UserData
  <2> QED
    BY <1>1, <1>2, <2>3, <2>4
<1>4. CASE ~ Weighed(ip, t, f, ud, convict)
  <2>1. \/ ud = rd \/ ud = vd \/ ud = [vd EXCEPT !.prevFile = f]
        \/ ud = [rd EXCEPT !.current_list[f] = @ - 1]
    BY <1>4 DEF EnginePath, Dummy, Passed, Erased, Missed, Exceeded, Remembered, Unwalked, rd, vd
  <2>2. ud.seqCost = rd.seqCost
    BY <1>1, <2>1 DEF UserData
  <2> QED
    BY <1>1, <1>2, <2>2
<1> QED
  BY <1>3, <1>4

LEMMA SemCostRises ==
    ASSUME BInv, build = "sem",
           NEW ip \in IP, NEW t \in 2 .. MaxTime, NEW f \in URI, NEW ud \in SemData,
           NEW convict \in BOOLEAN, SemPath(ip, t, f, ud, convict)
    PROVE  /\ Known(ip) => users[ip].seqCost <= ud.seqCost
           /\ convict => \E l \in DOMAIN SeqThreshCost : ud.seqCost >= SeqThreshCost[l]
<1>1. ASSUME Known(ip)
      PROVE  users[ip] \in SemData /\ users[ip].seqCost \in Nat /\ users[ip].seqLength \in Nat \ {0}
  BY <1>1 DEF BInv, Records, Known, SemData
<1>2. ASSUME Known(ip)
      PROVE  users[ip].seqCost <= ud.seqCost
  <2> DEFINE ld == Longer(ip)
             o == sem_getTransitionProb(ld.endNode, ld.prevFile, f)
  <2>1. ld.seqCost = users[ip].seqCost /\ ld \in SemData
    <3>1. users[ip].seqLength + 1 \in Nat \ {0}
      BY <1>1, <1>2
    <3> QED
      BY <1>1, <1>2, <3>1 DEF Longer, SemData
  <2>2. o.cost \in Nat
    BY SemFacts
  <2>3. ud = users[ip] \/ ud = [ld EXCEPT !.prevFile = f] \/ ud = Walked(ld, o)
    BY <1>2 DEF SemPath
  <2> HIDE DEF ld, o
  <2>4. ud.seqCost = users[ip].seqCost \/ ud.seqCost = users[ip].seqCost + o.cost
    <3>1. CASE ud = [ld EXCEPT !.prevFile = f]
      BY <2>1, <3>1 DEF SemData
    <3>2. CASE ud = Walked(ld, o)
      BY <2>1, <3>2 DEF Walked, SemData
    <3> QED
      BY <2>3, <3>1, <3>2
  <2> QED
    BY <1>1, <1>2, <2>2, <2>4
<1>3. ASSUME convict
      PROVE  \E l \in DOMAIN SeqThreshCost : ud.seqCost >= SeqThreshCost[l]
  <2>1. sem_Unlikely(ud)
    BY <1>3 DEF SemPath
  <2>2. ud.seqLength + 1 \in Nat /\ ud.seqLength + 1 >= 2
    BY DEF SemData
  <2>3. LookupIndex(ud.seqLength + 1) \in DOMAIN SeqThreshCost
    BY <2>2, ThresholdExists
  <2> QED
    BY <2>1, <2>3 DEF sem_Unlikely
<1> QED
  BY <1>2, <1>3


Windowing == [ip \in IP |-> [h \in Seq(Request) |-> {ud \in UserData : Windowed(h, ip, ud)}]]

Rooting == [ip \in IP |-> [h \in Seq(Request) |-> {ud \in UserData : Rooted(h, ip, ud)}]]

\* What a version with a log of its own holds against an address.
Proved(ip) ==
    \/ OnLog(handled, ip)
    \/ Known(ip) /\ OnWalk(users[ip])
    \/ "dyn2" \in activemodules /\ UnlistedIn(handled, ip)

Strode(ip) ==
    Known(ip) /\ \E l \in DOMAIN SeqThreshCost : users[ip].seqCost >= SeqThreshCost[l]

BConvInv ==
    /\ BHist
    /\ build \in {"frade", "tb", "load", "sem"}
    /\ build = "frade" => ConvInv
    /\ build \in {"tb", "load"} =>
          \A ip \in DOMAIN users \ blacklist : Windowed(handled, ip, users[ip])
    /\ build \in {"tb", "load"} /\ "dyn2" \in activemodules =>
          \A ip \in DOMAIN users \ blacklist : Rooted(handled, ip, users[ip])
    /\ build \in {"tb", "load"} => \A ip \in blacklist : Proved(ip)
    /\ build = "sem" => \A ip \in blacklist : Strode(ip)

LEMMA LineJoins ==
    ASSUME NEW h \in Seq(Request), NEW ip \in IP, NEW t \in 2 .. MaxTime, NEW f \in URI
    PROVE  Append(h, Line(ip, t, f)) \in Seq(Request)
<1>1. Line(ip, t, f) \in Request
  BY FRADEAssumption DEF Line, Request
<1> QED
  BY <1>1

LEMMA WindowsInductive ==
    ASSUME PagesViewable, BConvInv, [BuildsNext]_buildVars, build \in {"tb", "load"}
    PROVE  \A ip \in DOMAIN users' \ blacklist' : Windowed(handled', ip, users'[ip])
<1>1. BInv /\ BHist' /\ build' = build /\ BInv' /\ Records = UserData
  BY BuildHistory DEF BConvInv, BHist, BuildsNext, buildVars, Records
<1>2. /\ handled \in Seq(Request) /\ handled' \in Seq(Request)
      /\ DOMAIN users \subseteq IP /\ \A ip \in DOMAIN users : users[ip] \in UserData
      /\ DOMAIN users' \subseteq IP
  BY <1>1 DEF BInv
<1>3. \A ip \in DOMAIN users \ blacklist : users[ip] \in Windowing[ip][handled]
  BY <1>2 DEF BConvInv, Windowing
<1>4. ASSUME NEW h \in Seq(Request), NEW r \in Request, NEW ip \in IP, r \notin Of(ip)
      PROVE  Windowing[ip][h] \subseteq Windowing[ip][Append(h, r)]
  <2>1. Append(h, r) \in Seq(Request)
    OBVIOUS
  <2> QED
    BY <2>1, StillCounted, StillCosted DEF Windowing, Windowed
<1>5. ASSUME NEW ip \in IP \ blacklist, NEW t \in 2 .. MaxTime, NEW f \in URI,
             NEW ud \in Records, BPath(ip, t, f, ud, FALSE)
      PROVE  ud \in Windowing[ip][Append(handled, Line(ip, t, f))]
  <2>1. ip \in DOMAIN users => Windowed(handled, ip, users[ip])
    BY <1>5 DEF BConvInv
  <2>2. Windowed(Append(handled, Line(ip, t, f)), ip, ud)
    BY <1>1, <1>5, <2>1, PathWindowed DEF BPath
  <2> QED
    BY <1>1, <1>2, <2>2, LineJoins DEF Windowing
<1> HIDE DEF Windowing
<1>6. \A ip \in DOMAIN users' \ blacklist' : users'[ip] \in Windowing[ip][handled']
  BY <1>3, <1>4, <1>5, BuildUserInductive DEF BConvInv
<1> QED
  BY <1>2, <1>6 DEF Windowing

LEMMA RootsInductive ==
    ASSUME BConvInv, [BuildsNext]_buildVars, build \in {"tb", "load"}, "dyn2" \in activemodules
    PROVE  \A ip \in DOMAIN users' \ blacklist' : Rooted(handled', ip, users'[ip])
<1>1. BInv /\ BHist' /\ build' = build /\ BInv' /\ Records = UserData
  BY BuildHistory DEF BConvInv, BHist, BuildsNext, buildVars, Records
<1>2. /\ handled \in Seq(Request) /\ handled' \in Seq(Request)
      /\ DOMAIN users \subseteq IP /\ \A ip \in DOMAIN users : users[ip] \in UserData
      /\ DOMAIN users' \subseteq IP
  BY <1>1 DEF BInv
<1>3. \A ip \in DOMAIN users \ blacklist : users[ip] \in Rooting[ip][handled]
  BY <1>2 DEF BConvInv, Rooting
<1>4. ASSUME NEW h \in Seq(Request), NEW r \in Request, NEW ip \in IP, r \notin Of(ip)
      PROVE  Rooting[ip][h] \subseteq Rooting[ip][Append(h, r)]
  <2>1. Append(h, r) \in Seq(Request)
    OBVIOUS
  <2> QED
    BY <1>4, <2>1, StillRooted DEF Rooting
<1>5. ASSUME NEW ip \in IP \ blacklist, NEW t \in 2 .. MaxTime, NEW f \in URI,
             NEW ud \in Records, BPath(ip, t, f, ud, FALSE)
      PROVE  ud \in Rooting[ip][Append(handled, Line(ip, t, f))]
  <2>1. ip \in DOMAIN users => Rooted(handled, ip, users[ip])
    BY <1>5 DEF BConvInv
  <2>2. Rooted(Append(handled, Line(ip, t, f)), ip, ud)
    BY <1>1, <1>5, <2>1, PathRooted DEF BPath
  <2> QED
    BY <1>1, <1>2, <2>2, LineJoins DEF Rooting
<1> HIDE DEF Rooting
<1>6. \A ip \in DOMAIN users' \ blacklist' : users'[ip] \in Rooting[ip][handled']
  BY <1>3, <1>4, <1>5, BuildUserInductive DEF BConvInv
<1> QED
  BY <1>2, <1>6 DEF Rooting

\* Old evidence stays, and a conviction brings its own.
LEMMA EngineProves ==
    ASSUME PagesViewable, BConvInv, BuildsNext, build \in {"tb", "load"}
    PROVE  \A x \in blacklist' :
              \/ OnLog(handled', x)
              \/ x \in DOMAIN users' /\ OnWalk(users'[x])
              \/ "dyn2" \in activemodules /\ UnlistedIn(handled', x)
<1>1. BInv /\ handled \in Seq(Request) /\ Records = UserData
  BY DEF BConvInv, BHist, BInv, Records
<1>2. PICK ip \in IP, t \in 2 .. MaxTime, f \in URI, ud \in Records, convict \in BOOLEAN :
          /\ Line(ip, t, f) \in Request
          /\ handled' = Append(handled, Line(ip, t, f))
          /\ BPath(ip, t, f, ud, convict)
          /\ Ends(ip, ud, convict)
  BY <1>1, BuildLines
<1>3. EnginePath(ip, t, f, ud, convict) /\ ud \in UserData
  BY <1>1, <1>2 DEF BPath
<1>4. /\ DOMAIN users' = DOMAIN users \cup {ip}
      /\ \A x \in DOMAIN users' : users'[x] = IF x = ip THEN ud ELSE users[x]
      /\ blacklist' = IF convict THEN blacklist \cup {ip} ELSE blacklist
  BY <1>2 DEF Ends
<1>5. ASSUME Known(ip), OnWalk(users[ip])
      PROVE  OnWalk(ud)
  <2>1. users[ip].seqCost <= ud.seqCost
    BY <1>1, <1>3, <1>5, EngineCostRises
  <2>2. /\ users[ip].seqCost \in Nat /\ ud.seqCost \in Nat
        /\ \A l \in DOMAIN SeqThreshCost : SeqThreshCost[l] \in Nat
    BY <1>1, <1>3, <1>5, Costs DEF BInv, Known, UserData
  <2> QED
    BY <1>5, <2>1, <2>2 DEF OnWalk
<1>6. ASSUME NEW x \in blacklist
      PROVE  \/ OnLog(handled', x)
             \/ x \in DOMAIN users' /\ OnWalk(users'[x])
             \/ "dyn2" \in activemodules /\ UnlistedIn(handled', x)
  <2>1. Proved(x)
    BY DEF BConvInv
  <2>2. CASE OnLog(handled, x)
    BY <1>1, <1>2, <2>2, OnLogGrows
  <2>3. CASE "dyn2" \in activemodules /\ UnlistedIn(handled, x)
    BY <1>1, <1>2, <2>3, UnlistedGrows
  <2>4. CASE Known(x) /\ OnWalk(users[x])
    BY <1>4, <1>5, <2>4 DEF Known
  <2> QED
    BY <2>1, <2>2, <2>3, <2>4 DEF Proved
<1>7. ASSUME convict, ip \notin blacklist
      PROVE  \/ OnLog(handled', ip)
             \/ ip \in DOMAIN users' /\ OnWalk(users'[ip])
             \/ "dyn2" \in activemodules /\ UnlistedIn(handled', ip)
  <2>1. /\ ip \in DOMAIN users => Windowed(handled, ip, users[ip])
        /\ ip \in DOMAIN users /\ "dyn2" \in activemodules => Rooted(handled, ip, users[ip])
    BY <1>7 DEF BConvInv
  <2>2. EnginePath(ip, t, f, ud, TRUE)
    BY <1>3, <1>7
  <2> QED
    BY <1>1, <1>2, <1>3, <1>4, <2>1, <2>2, EngineShows
<1> QED
  BY <1>4, <1>6, <1>7

LEMMA SemProves ==
    ASSUME BConvInv, BuildsNext, build = "sem"
    PROVE  \A x \in blacklist' :
              /\ x \in DOMAIN users'
              /\ \E l \in DOMAIN SeqThreshCost : users'[x].seqCost >= SeqThreshCost[l]
<1>1. BInv /\ Records = SemData
  BY DEF BConvInv, BHist, BInv, Records
<1>2. PICK ip \in IP, t \in 2 .. MaxTime, f \in URI, ud \in Records, convict \in BOOLEAN :
          BPath(ip, t, f, ud, convict) /\ Ends(ip, ud, convict)
  BY <1>1, BuildLines
<1>3. /\ ud \in SemData
      /\ Known(ip) => users[ip].seqCost <= ud.seqCost
      /\ convict => \E l \in DOMAIN SeqThreshCost : ud.seqCost >= SeqThreshCost[l]
  BY <1>1, <1>2, SemCostRises DEF BPath
<1>4. /\ DOMAIN users' = DOMAIN users \cup {ip}
      /\ \A x \in DOMAIN users' : users'[x] = IF x = ip THEN ud ELSE users[x]
      /\ blacklist' = IF convict THEN blacklist \cup {ip} ELSE blacklist
  BY <1>2 DEF Ends
<1>5. ASSUME NEW x \in blacklist
      PROVE  /\ x \in DOMAIN users'
             /\ \E l \in DOMAIN SeqThreshCost : users'[x].seqCost >= SeqThreshCost[l]
  <2>1. PICK l \in DOMAIN SeqThreshCost : Known(x) /\ users[x].seqCost >= SeqThreshCost[l]
    BY DEF BConvInv, Strode
  <2>2. /\ users[x].seqCost \in Nat /\ ud.seqCost \in Nat /\ SeqThreshCost[l] \in Nat
    BY <1>1, <1>3, <2>1, Costs DEF BInv, Known, SemData
  <2>3. users'[x].seqCost >= SeqThreshCost[l] /\ x \in DOMAIN users'
    BY <1>3, <1>4, <2>1, <2>2 DEF Known
  <2> QED
    BY <2>3
<1> QED
  BY <1>3, <1>4, <1>5

LEMMA BConvInductive == PagesViewable /\ BConvInv /\ [BuildsNext]_buildVars => BConvInv'
<1> SUFFICES ASSUME PagesViewable, BConvInv, [BuildsNext]_buildVars PROVE BConvInv'
  OBVIOUS
<1>1. BHist' /\ build' = build
  BY BuildHistory DEF BConvInv, BuildsNext, buildVars
<1>2. ASSUME build = "frade"
      PROVE  ConvInv'
  <2>1. [Next]_vars /\ ConvInv
    BY <1>2 DEF BConvInv, BuildsNext, buildVars
  <2> QED
    BY <2>1, ConvInductive
<1>3. ASSUME build \in {"tb", "load"}
      PROVE  (\A ip \in DOMAIN users \ blacklist : Windowed(handled, ip, users[ip]))'
  <2>1. \A ip \in DOMAIN users' \ blacklist' : Windowed(handled', ip, users'[ip])
    BY <1>3, WindowsInductive
  <2> QED
    BY <2>1 DEF Windowed, CountedIn, Costed, Backed, Spent, Weight, Within, Viewable, HasQuery,
                isMainRequest
<1>4. ASSUME build \in {"tb", "load"}, "dyn2" \in activemodules
      PROVE  (\A ip \in DOMAIN users \ blacklist : Rooted(handled, ip, users[ip]))'
  <2>1. \A ip \in DOMAIN users' \ blacklist' : Rooted(handled', ip, users'[ip])
    BY <1>4, RootsInductive
  <2> QED
    BY <1>1, <2>1 DEF Rooted, LastPageAt, RootAt, Since, Hits, Asks, Of, Bare, HasQuery,
                      tb_isMainRequest
<1>5. ASSUME build \in {"tb", "load"}
      PROVE  (\A ip \in blacklist : Proved(ip))'
  <2>1. CASE UNCHANGED buildVars
    <3>1. \A x \in blacklist :
              \/ OnLog(handled, x)
              \/ x \in DOMAIN users /\ OnWalk(users[x])
              \/ "dyn2" \in activemodules /\ UnlistedIn(handled, x)
      BY <1>5 DEF BConvInv, Proved, Known
    <3>2. blacklist' = blacklist /\ handled' = handled /\ users' = users
      BY <2>1 DEF buildVars, vars
    <3>3. \A x \in blacklist' :
              \/ OnLog(handled', x)
              \/ x \in DOMAIN users' /\ OnWalk(users'[x])
              \/ "dyn2" \in activemodules /\ UnlistedIn(handled', x)
      BY <3>1, <3>2
    <3> QED
      BY <1>1, <3>3 DEF Proved, Known, OnLog, OnWalk, UnlistedIn, Within, Spent, Weight,
                        Viewable, HasQuery, isMainRequest, tb_isMainRequest
  <2>2. CASE BuildsNext
    <3>1. \A x \in blacklist' :
              \/ OnLog(handled', x)
              \/ x \in DOMAIN users' /\ OnWalk(users'[x])
              \/ "dyn2" \in activemodules /\ UnlistedIn(handled', x)
      BY <1>5, <2>2, EngineProves
    <3> QED
      BY <1>1, <3>1 DEF Proved, Known, OnLog, OnWalk, UnlistedIn, Within, Spent, Weight,
                        Viewable, HasQuery, isMainRequest, tb_isMainRequest
  <2> QED
    BY <2>1, <2>2
<1>6. ASSUME build = "sem"
      PROVE  (\A ip \in blacklist : Strode(ip))'
  <2>1. CASE UNCHANGED buildVars
    BY <1>6, <2>1 DEF BConvInv, buildVars, vars, Strode, Known
  <2>2. CASE BuildsNext
    BY <1>6, <2>2, SemProves DEF Strode, Known
  <2> QED
    BY <2>1, <2>2
<1> QED
  BY <1>1, <1>2, <1>3, <1>4, <1>5, <1>6 DEF BConvInv

\* No version convicts without evidence: what FRADE.cpp convicts for, a walk of
\* sem.cpp that reached a threshold, or in the two strict versions an object the
\* user's last page no longer lists.  The pages of MAIN_REQS must not be among
\* the embedded objects, for the evidence of a window counts by those.
THEOREM BuildsJustified == PagesViewable => (BuildsSpec => []BuildConvictionJustified)
<1>1. ASSUME PagesViewable
      PROVE  BuildsSpec => []BuildConvictionJustified
  <2>1. BuildsInit => BConvInv
    BY BuildInitially, HistoryInitially
       DEF BuildsInit, Init, BConvInv, ConvInv, CountsJustified, ConvictionJustified
  <2>2. BConvInv => BuildConvictionJustified
    <3> SUFFICES ASSUME BConvInv, BHist, NEW ip \in blacklist
                 PROVE  \/ Evidence(ip)
                        \/ build = "sem" /\ Strode(ip)
                        \/ /\ build \in {"tb", "load"} /\ "dyn2" \in activemodules
                           /\ Unlisted(ip)
      BY DEF BConvInv, BuildConvictionJustified, Strode
    <3>1. CASE build = "frade"
      BY <3>1 DEF BConvInv, ConvInv, ConvictionJustified
    <3>2. CASE build = "sem"
      BY <3>2 DEF BConvInv
    <3>3. CASE build \in {"tb", "load"}
      <4>1. Proved(ip)
        BY <3>3 DEF BConvInv
      <4>2. UnlistedIn(handled, ip) <=> Unlisted(ip)
        BY DEF UnlistedIn, Unlisted, Asked
      <4> QED
        BY <3>3, <4>1, <4>2, EvidenceIs DEF Proved, Shows, Known
    <3>4. build \in {"frade", "tb", "load", "sem"}
      BY DEF BConvInv
    <3> QED
      BY <3>1, <3>2, <3>3, <3>4
  <2> QED
    BY <1>1, <2>1, <2>2, BConvInductive, PTL DEF BuildsSpec
<1> QED
  BY <1>1
=============================================================================
