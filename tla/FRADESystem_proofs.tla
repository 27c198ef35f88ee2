------------------------- MODULE FRADESystem_proofs -------------------------
(***************************************************************************)
(* Proofs about the whole defence, for any engine, log, pipe and daemon:   *)
(* what the engine convicts reaches the daemon, and what the firewall      *)
(* drops was convicted or reported.                                        *)
(***************************************************************************)
EXTENDS FRADESystem, DataFacts, TLAPS

(***************************************************************************)
(* The inductive invariant.  Logged types what the log loop hands to the   *)
(* engine; Reported follows an address through the daemon: what it queues, *)
(* holds in a command or adds is in its dictionary, and Delivered relates  *)
(* the engine's set to it.                                                 *)
(***************************************************************************)
Logged ==
    /\ access_log \in Seq(Line)
    /\ tail \in Line \cup {NULL}
    /\ p \in Nat \cup {-1}
    /\ reading => p \in Nat

Typed ==
    /\ pipe \in Seq(IP)
    /\ blacklisted \subseteq IP
    /\ q \in Seq(IP)
    /\ cmd \in Seq(IP)
    /\ next \in Nat
    /\ longip \in IP \cup {NONE}

Reported ==
    /\ readPC # "readline" => longip \in blacklisted
    /\ Range(q) \subseteq blacklisted
    /\ Range(cmd) \subseteq blacklisted

IInv == Logged /\ Typed /\ Reported /\ Delivered

-----------------------------------------------------------------------------
(***************************************************************************)
(* The engine.                                                             *)
(***************************************************************************)
\* Whatever path a line takes through beAFRADE, its address is convicted, by
\* blacklistIP, or the blacklist and the pipe stay as they are.
LEMMA HandleConvicts ==
    ASSUME NEW l, Handle(l)
    PROVE  \/ UNCHANGED << blacklist, pipe >>
           \/ l.ip # Foreign /\ blacklistIP(l.ip)
<1>1. CASE l.ip = Foreign
  BY <1>1 DEF Handle, vars
<1>2. CASE l.ip # Foreign /\ l.time = 1
  BY <1>2 DEF Handle, ProxyBlock
<1>3. CASE l.ip # Foreign /\ l.time # 1
  <2>1. beAFRADE(l.ip, l.time, l.uri)
    BY <1>3 DEF Handle
  <2>2. ASSUME NEW ud, NEW convict, Conclude(l.ip, ud, convict)
        PROVE  UNCHANGED << blacklist, pipe >> \/ blacklistIP(l.ip)
    BY <2>2 DEF Conclude
  <2>3. ASSUME NEW ud, NEW convict, NextPage(l.ip, ud, l.uri, convict)
        PROVE  UNCHANGED << blacklist, pipe >> \/ blacklistIP(l.ip)
    <3>1. CASE FirstPage(l.ip, ud, l.uri, convict)
      BY <3>1, <2>2, Zenon DEF FirstPage
    <3>2. CASE Unjudged(l.ip, ud, convict)
      BY <3>2, <2>2, Zenon DEF Unjudged
    <3>3. CASE semantics(l.ip, ud, l.uri, convict)
      <4>1. PICK o : IF o.crash THEN Conclude(l.ip, ud, convict)
                     ELSE Conclude(l.ip, Walked(ud, o), convict \/ Unlikely(Walked(ud, o)))
        BY <3>3, Zenon DEF semantics
      <4> QED
        BY <4>1, <2>2, Zenon
    <3> QED
      BY <2>3, <3>1, <3>2, <3>3, Zenon DEF NextPage
  <2>4. CASE deception(l.ip, l.time, l.uri)
    BY <1>3, <2>4, <2>2 DEF deception
  <2>5. CASE MainRequest(l.ip, l.time, l.uri)
    BY <1>3, <2>5, <2>2, <2>3 DEF MainRequest
  <2>6. CASE IgnoredRequest(l.ip, l.time, l.uri)
    BY <1>3, <2>6, <2>2 DEF IgnoredRequest
  <2>7. CASE AllowedObject(l.ip, l.time, l.uri)
    BY <1>3, <2>7, <2>2 DEF AllowedObject
  <2>8. CASE UnlistedObject(l.ip, l.time, l.uri)
    BY <1>3, <2>8, <2>3 DEF UnlistedObject
  <2> QED
    BY <1>3, <2>1, <2>4, <2>5, <2>6, <2>7, <2>8, Zenon DEF beAFRADE
<1> QED
  BY <1>1, <1>2, <1>3

\* A turn of the loop convicts the address of a line of the log, or nobody.
LEMMA LoopConvicts ==
    ASSUME Logged, Loop
    PROVE  UNCHANGED << blacklist, pipe >> \/ \E ip \in IP : blacklistIP(ip)
<1>1. ASSUME NEW l \in Line, Handle(l)
      PROVE  UNCHANGED << blacklist, pipe >> \/ \E ip \in IP : blacklistIP(ip)
  <2>1. l.ip # Foreign => l.ip \in IP
    BY DEF Line
  <2> QED
    BY <1>1, <2>1, HandleConvicts, Zenon
<1>2. CASE Open \/ EndOfFile
  BY <1>2 DEF Open, EndOfFile, vars
<1>3. CASE ReadLine
  <2>1. access_log[p + 1] \in Line
    BY <1>3 DEF ReadLine, Logged
  <2> QED
    BY <1>3, <1>1, <2>1, Zenon DEF ReadLine
<1>4. CASE ReadPart
  <2>1. ASSUME NEW f \in URI PROVE [tail EXCEPT !.uri = f] \in Line
    BY <1>4 DEF ReadPart, Logged, Line
  <2>2. \/ UNCHANGED vars
        \/ UNCHANGED << users, blacklist, pipe, handled >>
        \/ \E f \in URI : Handle([tail EXCEPT !.uri = f])
    BY <1>4 DEF ReadPart
  <2>3. CASE \E f \in URI : Handle([tail EXCEPT !.uri = f])
    BY <2>3, <2>1, <1>1, Zenon
  <2> QED
    BY <2>2, <2>3 DEF vars
<1> QED
  BY <1>2, <1>3, <1>4 DEF Loop

\* What a conviction does to the pipe: nothing, for an address the engine knows
\* already, or a write.
LEMMA ConvictionWrites ==
    ASSUME Typed, NEW ip \in IP, blacklistIP(ip)
    PROVE  /\ pipe' \in Seq(IP)
           /\ ip \in blacklist => pipe' = pipe /\ blacklist' = blacklist
           /\ ip \notin blacklist => /\ pipe' = Append(pipe, ip)
                                     /\ Len(pipe') = Len(pipe) + 1
                                     /\ Range(pipe') = Range(pipe) \cup {ip}
           /\ blacklist' = blacklist \cup {ip}
<1>1. CASE ip \in blacklist
  BY <1>1 DEF blacklistIP, Typed
<1>2. CASE ip \notin blacklist
  <2>1. pipe \in Seq(IP) /\ pipe' = Append(pipe, ip) /\ blacklist' = blacklist \cup {ip}
    BY <1>2 DEF blacklistIP, Typed
  <2>2. Range(Append(pipe, ip)) = Range(pipe) \cup {ip}
    BY <2>1, AppendElements
  <2>3. pipe' \in Seq(IP) /\ Len(pipe') = Len(pipe) + 1
    BY <2>1
  <2> QED
    BY <1>2, <2>1, <2>2, <2>3
<1> QED
  BY <1>1, <1>2

-----------------------------------------------------------------------------
(***************************************************************************)
(* The composition: every step of the defence is one of the daemon's, a    *)
(* write to its pipe, or none of its business.                             *)
(***************************************************************************)
DaemonStep == [B!Next]_(B!vars)

LEMMA DetectWrites ==
    ASSUME IInv, Detect
    PROVE  /\ UNCHANGED daemonVars
           /\ \/ UNCHANGED << blacklist, pipe >>
              \/ \E ip \in IP : B!Write(ip) /\ blacklist' = blacklist \cup {ip}
<1>1. UNCHANGED daemonVars /\ Len(pipe') <= MaxPipe /\ Logged /\ Typed
  BY DEF Detect, IInv
<1>2. UNCHANGED << blacklist, pipe >> \/ \E ip \in IP : blacklistIP(ip)
  BY LoopConvicts DEF Detect, IInv
<1>3. ASSUME NEW ip \in IP, blacklistIP(ip)
      PROVE  \/ UNCHANGED << blacklist, pipe >>
             \/ \E x \in IP : B!Write(x) /\ blacklist' = blacklist \cup {x}
  <2>1. CASE ip \in blacklist
    BY <1>1, <1>3, <2>1, ConvictionWrites
  <2>2. CASE ip \notin blacklist
    <3>1. /\ pipe' = Append(pipe, ip) /\ Len(pipe') = Len(pipe) + 1
          /\ blacklist' = blacklist \cup {ip}
      BY <1>1, <1>3, <2>2, ConvictionWrites
    <3>2. MaxPipe \in Nat /\ Len(pipe) \in Nat
      BY <1>1, SystemAssumption DEF Typed
    <3>3. Len(pipe) < MaxPipe
      BY <1>1, <3>1, <3>2
    <3> QED
      BY <1>1, <3>1, <3>3 DEF B!Write, B!readVars, B!dropVars, daemonVars
  <2> QED
    BY <2>1, <2>2
<1> QED
  BY <1>1, <1>2, <1>3

LEMMA StepOfDaemon ==
    ASSUME IInv, [SystemNext]_systemVars
    PROVE  DaemonStep
<1> USE DEF DaemonStep
<1>1. ASSUME NEW l \in Line, Visit(l) PROVE UNCHANGED B!vars
  BY <1>1 DEF Visit, WriteLine, WritePart, vars, daemonVars, B!vars
<1>2. CASE FinishLine
  BY <1>2 DEF FinishLine, WriteRest, vars, daemonVars, B!vars
<1>3. CASE Detect
  BY <1>3, DetectWrites DEF B!Next, B!vars, daemonVars
<1>4. ASSUME NEW ip \in Suspects, ProxyReport(ip) PROVE B!Next
  BY <1>4, SystemAssumption DEF ProxyReport, B!Next
<1>5. CASE Daemon
  BY <1>5 DEF Daemon, B!Next
<1>6. CASE UNCHANGED systemVars
  BY <1>6 DEF systemVars, rsyslogVars, vars, daemonVars, B!vars
<1> QED
  BY <1>1, <1>2, <1>3, <1>4, <1>5, <1>6 DEF SystemNext

-----------------------------------------------------------------------------
(***************************************************************************)
(* The invariant is inductive.                                             *)
(***************************************************************************)
LEMMA Initially == SystemInit => IInv
BY DEF SystemInit, RsyslogInit, Init, B!Init, IInv, Logged, Typed, Reported, Delivered, Range

LEMMA LogKept ==
    ASSUME Logged, [SystemNext]_systemVars
    PROVE  Logged'
<1>1. ASSUME NEW l \in Line, Visit(l) PROVE Logged'
  <2>1. CASE WriteLine(l)
    BY <2>1 DEF WriteLine, loopVars, Logged, Line
  <2>2. CASE WritePart(l)
    BY <2>2 DEF WritePart, loopVars, Logged, Line
  <2> QED
    BY <1>1, <2>1, <2>2 DEF Visit
<1>2. CASE FinishLine
  BY <1>2 DEF FinishLine, WriteRest, loopVars, Logged, Line
<1>3. CASE Detect
  <2>1. CASE Open
    BY <2>1 DEF Open, logVars, Logged, Line
  <2>2. CASE ReadLine
    BY <2>2 DEF ReadLine, logVars, Logged, Line
  <2>3. CASE ReadPart
    BY <2>3 DEF ReadPart, logVars, Logged, Line
  <2>4. CASE EndOfFile
    BY <2>4 DEF EndOfFile, logVars, Logged, Line
  <2> QED
    BY <1>3, <2>1, <2>2, <2>3, <2>4 DEF Detect, Loop
<1>4. ASSUME NEW ip \in Suspects, ProxyReport(ip) PROVE Logged'
  BY <1>4 DEF ProxyReport, logVars, loopVars, Logged, Line
<1>5. CASE Daemon
  BY <1>5 DEF Daemon, logVars, loopVars, Logged, Line
<1>6. CASE UNCHANGED systemVars
  BY <1>6 DEF systemVars, rsyslogVars, logVars, loopVars, Logged, Line
<1> QED
  BY <1>1, <1>2, <1>3, <1>4, <1>5, <1>6 DEF SystemNext

\* The daemon's half: what it handles, it has noted.
LEMMA DaemonKept ==
    ASSUME Typed, Reported, DaemonStep
    PROVE  Typed' /\ Reported'
<1> USE DEF B!readVars, B!dropVars
<1>1. ASSUME NEW ip \in IP, B!Write(ip) PROVE Typed' /\ Reported'
  BY <1>1 DEF B!Write, Typed, Reported, Range
<1>2. CASE B!ReadLine
  <2>1. Head(pipe) \in IP /\ Tail(pipe) \in Seq(IP)
    BY <1>2 DEF B!ReadLine, Typed
  <2>2. Typed'
    BY <1>2, <2>1 DEF B!ReadLine, Typed
  <2>3. Range(q') = Range(q) /\ Range(cmd') = Range(cmd)
    BY <1>2 DEF B!ReadLine
  <2> QED
    BY <1>2, <2>2, <2>3 DEF B!ReadLine, Reported
<1>3. CASE B!ReadAppend
  <2>1. longip \in blacklisted /\ longip \in IP
    BY <1>3 DEF B!ReadAppend, Reported, Typed
  <2>2. Range(Append(q, longip)) = Range(q) \cup {longip}
    BY <2>1, AppendElements DEF Typed
  <2> QED
    BY <1>3, <2>1, <2>2 DEF B!ReadAppend, Typed, Reported
<1>4. CASE B!Scan
  <2>1. next + 1 \in 1 .. Len(q) /\ q[next + 1] \in IP /\ DOMAIN q = 1 .. Len(q)
    BY <1>4 DEF B!Scan, Typed
  <2>2. q[next + 1] \in blacklisted
    BY <2>1 DEF Reported, Range
  <2>3. Range(Append(cmd, q[next + 1])) = Range(cmd) \cup {q[next + 1]}
    BY <2>1, AppendElements DEF Typed
  <2> QED
    BY <1>4, <2>1, <2>2, <2>3 DEF B!Scan, Typed, Reported
<1>5. CASE B!Run
  BY <1>5 DEF B!Run, Typed, Reported, Range
<1>6. CASE B!DropAcquire
  BY <1>6 DEF B!DropAcquire, Typed, Reported, Range
<1>7. CASE B!Delete
  BY <1>7 DEF B!Delete, Typed, Reported, Range
<1>8. ASSUME \/ B!ReadAcquire \/ B!ReadRelease \/ B!Check \/ B!EndScan \/ B!DropRelease
             \/ UNCHANGED B!vars
      PROVE  Typed' /\ Reported'
  BY <1>8 DEF B!ReadAcquire, B!ReadRelease, B!Check, B!EndScan, B!DropRelease, B!vars,
              Typed, Reported, Range
<1> QED
  BY <1>1, <1>2, <1>3, <1>4, <1>5, <1>6, <1>7, <1>8
     DEF DaemonStep, B!Next, B!Daemon, B!readPipe, B!blacklist

\* The addresses on their way only grow, whoever takes the step.
Convicted == Range(pipe) \cup blacklisted

LEMMA ConvictedGrows ==
    ASSUME Typed, DaemonStep
    PROVE  /\ UNCHANGED Convicted \/ \E ip \in IP : Convicted' = Convicted \cup {ip}
           /\ \A ip \in IP : B!Write(ip) => Convicted' = Convicted \cup {ip}
<1> USE DEF B!readVars, B!dropVars, Convicted
<1>1. ASSUME NEW ip \in IP, B!Write(ip) PROVE Convicted' = Convicted \cup {ip}
  <2>1. Range(pipe') = Range(pipe) \cup {ip}
    BY <1>1, AppendElements DEF B!Write, Typed
  <2> QED
    BY <1>1, <2>1 DEF B!Write
<1>2. CASE B!ReadLine
  <2>1. Range(pipe) = Range(pipe') \cup {Head(pipe)}
    BY <1>2, TailElements DEF B!ReadLine, Typed
  <2> QED
    BY <1>1, <1>2, <2>1 DEF B!ReadLine
<1>3. ASSUME \/ B!ReadAcquire \/ B!ReadAppend \/ B!ReadRelease \/ B!blacklist
             \/ UNCHANGED B!vars
      PROVE  UNCHANGED Convicted
  BY <1>3 DEF B!ReadAcquire, B!ReadAppend, B!ReadRelease, B!blacklist, B!Check, B!DropAcquire,
              B!Scan, B!EndScan, B!Run, B!Delete, B!DropRelease, B!vars
<1> QED
  BY <1>1, <1>2, <1>3 DEF DaemonStep, B!Next, B!Daemon, B!readPipe

LEMMA DeliveredKept ==
    ASSUME IInv, [SystemNext]_systemVars
    PROVE  Delivered'
<1>1. DaemonStep
  BY StepOfDaemon
<1>2. Typed /\ blacklist \subseteq Convicted
  BY DEF IInv, Delivered, Convicted
<1>3. Convicted \subseteq Convicted' /\ \A ip \in IP : B!Write(ip) => Convicted' = Convicted \cup {ip}
  BY <1>1, <1>2, ConvictedGrows
<1>4. CASE UNCHANGED blacklist
  BY <1>2, <1>3, <1>4 DEF Delivered, Convicted
<1>5. CASE Detect
  <2>1. \/ UNCHANGED blacklist
        \/ \E ip \in IP : B!Write(ip) /\ blacklist' = blacklist \cup {ip}
    BY <1>5, DetectWrites
  <2>2. ASSUME NEW ip \in IP, B!Write(ip), blacklist' = blacklist \cup {ip}
        PROVE  blacklist' \subseteq Convicted'
    BY <1>2, <1>3, <2>2
  <2> QED
    BY <1>4, <2>1, <2>2 DEF Delivered, Convicted
<1>6. UNCHANGED blacklist \/ Detect
  BY DEF SystemNext, Visit, WriteLine, WritePart, FinishLine, WriteRest, ProxyReport, Daemon,
         engineVars, vars, systemVars, rsyslogVars
<1> QED
  BY <1>4, <1>5, <1>6

LEMMA Inductive == IInv /\ [SystemNext]_systemVars => IInv'
BY StepOfDaemon, LogKept, DaemonKept, DeliveredKept DEF IInv

LEMMA Invariance == SystemSpec => []IInv
BY Initially, Inductive, PTL DEF SystemSpec

-----------------------------------------------------------------------------
\* What the engine convicts is on its way to the firewall or in the daemon's
\* dictionary, however the log, the engine, the proxy and the daemon's threads
\* interleave, and whenever the engine stops.
THEOREM ConvictionDelivered == SystemSpec => []Delivered
<1>1. IInv => Delivered
  BY DEF IInv
<1> QED
  BY <1>1, Invariance, PTL

\* Seen from its pipe the rest of the defence is the environment that Blacklistd
\* assumes: writers of addresses that wait for room.
THEOREM DaemonComposed == SystemSpec => B!Init /\ [][B!Next]_(B!vars)
<1>1. SystemInit => B!Init
  BY DEF SystemInit
<1>2. IInv /\ [SystemNext]_systemVars => [B!Next]_(B!vars)
  BY StepOfDaemon DEF DaemonStep
<1> QED
  BY <1>1, <1>2, Invariance, PTL DEF SystemSpec

\* The safety part of the promise: the firewall drops an address only after the
\* engine convicted it or the proxy reported it, and for good.
THEOREM DropsJustly == SystemSpec => M!Init /\ [][M!Next]_(M!vars)
<1>1. SystemInit => M!Init
  BY DEF SystemInit, RsyslogInit, Init, B!Init, M!Init, Range
<1>2. IInv /\ [SystemNext]_systemVars => [M!Next]_(M!vars)
  <2> SUFFICES ASSUME IInv, [SystemNext]_systemVars PROVE [M!Next]_(M!vars)
    OBVIOUS
  <2>1. DaemonStep /\ Typed /\ Reported
    BY StepOfDaemon DEF IInv
  <2>2. CASE B!Run
    <3>1. PICK added \in SUBSET Range(cmd) : ipset' = ipset \cup added
      BY <2>2 DEF B!Run, B!Range, Range
    <3>2. added \subseteq blacklisted /\ added \in SUBSET IP
      BY <2>1, <3>1 DEF Reported, Typed
    <3>3. M!Drop(added)
      BY <2>2, <3>1, <3>2 DEF B!Run, B!readVars, M!Drop
    <3> QED
      BY <3>2, <3>3 DEF M!Next
  <2>3. CASE UNCHANGED ipset
    <3>1. UNCHANGED Convicted \/ \E ip \in IP : Convicted' = Convicted \cup {ip}
      BY <2>1, ConvictedGrows
    <3> QED
      BY <2>3, <3>1 DEF M!Next, M!Convict, M!vars, Convicted
  <2>4. B!Run \/ UNCHANGED ipset
    BY <2>1 DEF DaemonStep, B!Next, B!Write, B!Daemon, B!readPipe, B!ReadLine, B!ReadAcquire,
                B!ReadAppend, B!ReadRelease, B!blacklist, B!Check, B!DropAcquire, B!Scan,
                B!EndScan, B!Delete, B!DropRelease, B!readVars, B!dropVars, B!vars
  <2> QED
    BY <2>2, <2>3, <2>4
<1> QED
  BY <1>1, <1>2, Invariance, PTL DEF SystemSpec

-----------------------------------------------------------------------------
(***************************************************************************)
(* The order in which the engine sees the log.                             *)
(***************************************************************************)
KnownLines(log, n) == {k \in 1 .. n : log[k].ip # Foreign}

\* The first n lines of a log, those the engine can be called with, are the
\* requests h.
SeenInOrder(log, n, h) ==
    /\ Len(h) = Cardinality(KnownLines(log, n))
    /\ \A k \in KnownLines(log, n) :
          h[Cardinality({j \in KnownLines(log, n) : j <= k})] = log[k]

OrderInv ==
    /\ Logged
    /\ handled \in Seq(Line)
    /\ p # -1 => p <= Len(access_log) /\ SeenInOrder(access_log, p, handled)

LEMMA KnownFinite ==
    ASSUME NEW log, NEW n \in Nat, NEW S \in SUBSET KnownLines(log, n)
    PROVE  IsFiniteSet(S) /\ Cardinality(S) \in Nat
<1>1. IsFiniteSet(1 .. n) /\ S \subseteq 1 .. n
  BY FS_Interval DEF KnownLines
<1> QED
  BY <1>1, FS_Subset, FS_CardinalityType

\* What is written after them changes nothing about the lines read.
LEMMA LogGrows ==
    ASSUME NEW log \in Seq(Line), NEW l \in Line, NEW n \in Nat, n <= Len(log),
           NEW h, SeenInOrder(log, n, h)
    PROVE  n <= Len(Append(log, l)) /\ SeenInOrder(Append(log, l), n, h)
<1>1. n <= Len(Append(log, l)) /\ \A k \in 1 .. n : Append(log, l)[k] = log[k]
  OBVIOUS
<1>2. KnownLines(Append(log, l), n) = KnownLines(log, n)
  BY <1>1 DEF KnownLines
<1>3. \A k \in KnownLines(log, n) : Append(log, l)[k] = log[k]
  BY <1>1 DEF KnownLines
<1> QED
  BY <1>1, <1>2, <1>3 DEF SeenInOrder

\* Of a line the engine makes one request, or none when it cannot convert the
\* address.
LEMMA HandleOnce ==
    ASSUME NEW l \in Line, Handle(l)
    PROVE  IF l.ip = Foreign THEN handled' = handled ELSE handled' = Append(handled, l)
<1>1. CASE l.ip = Foreign
  BY <1>1 DEF Handle, vars
<1>2. CASE l.ip # Foreign
  <2>1. Receive(l.ip, l.time, l.uri)
    <3>1. CASE l.time = 1
      BY <1>2, <3>1 DEF Handle, ProxyBlock
    <3>2. CASE l.time # 1
      BY <1>2, <3>2 DEF Handle, beAFRADE, deception, MainRequest, IgnoredRequest, AllowedObject,
                        UnlistedObject, Accepted
    <3> QED
      BY <3>1, <3>2
  <2>2. l = [ip |-> l.ip, time |-> l.time, uri |-> l.uri]
    BY DEF Line
  <2> QED
    BY <1>2, <2>1, <2>2 DEF Receive
<1> QED
  BY <1>1, <1>2

LEMMA LineSeen ==
    ASSUME NEW log \in Seq(Line), NEW n \in Nat, n < Len(log),
           NEW h \in Seq(Line), SeenInOrder(log, n, h), NEW g,
           IF log[n + 1].ip = Foreign THEN g = h ELSE g = Append(h, log[n + 1])
    PROVE  SeenInOrder(log, n + 1, g)
<1> DEFINE old == KnownLines(log, n)
           new == KnownLines(log, n + 1)
<1>1. 1 .. n + 1 = (1 .. n) \cup {n + 1}
  OBVIOUS
<1>2. IsFiniteSet(old) /\ Cardinality(old) \in Nat /\ n + 1 \notin old
  <2>1. old \in SUBSET old /\ n + 1 \notin old
    BY DEF KnownLines
  <2> QED
    BY <2>1, KnownFinite
<1>3. CASE log[n + 1].ip = Foreign
  <2>1. new = old
    BY <1>1, <1>3 DEF KnownLines
  <2> QED
    BY <1>3, <2>1 DEF SeenInOrder
<1>4. CASE log[n + 1].ip # Foreign
  <2>1. new = old \cup {n + 1}
    BY <1>1, <1>4 DEF KnownLines
  <2>2. Cardinality(new) = Cardinality(old) + 1
    BY <1>2, <2>1, FS_AddElement
  <2>3. g = Append(h, log[n + 1]) /\ log[n + 1] \in Line /\ Len(h) = Cardinality(old)
    BY <1>4 DEF SeenInOrder
  <2>4. Len(g) = Cardinality(new) /\ g[Len(h) + 1] = log[n + 1]
        /\ \A i \in 1 .. Len(h) : g[i] = h[i]
    BY <2>2, <2>3
  <2>5. ASSUME NEW k \in old
        PROVE  g[Cardinality({j \in new : j <= k})] = log[k]
    <3> DEFINE before == {j \in old : j <= k}
    <3>1. k \in 1 .. n
      BY DEF KnownLines
    <3>2. {j \in new : j <= k} = before
      BY <2>1, <3>1
    <3>3. Cardinality(before) <= Cardinality(old) /\ Cardinality(before) \in Nat
      BY <1>2, FS_Subset, KnownFinite
    <3>4. Cardinality(before) # 0
      <4>1. k \in before /\ IsFiniteSet(before)
        BY <3>1, KnownFinite
      <4> QED
        BY <4>1, FS_EmptySet
    <3>5. Cardinality(before) \in 1 .. Len(h)
      BY <2>3, <3>3, <3>4
    <3>6. h[Cardinality(before)] = log[k]
      BY DEF SeenInOrder
    <3> QED
      BY <2>4, <3>2, <3>5, <3>6
  <2>6. g[Cardinality({j \in new : j <= n + 1})] = log[n + 1]
    <3>1. {j \in new : j <= n + 1} = new
      BY DEF KnownLines
    <3> QED
      BY <2>2, <2>3, <2>4, <3>1
  <2> QED
    BY <2>1, <2>4, <2>5, <2>6 DEF SeenInOrder
<1> QED
  BY <1>3, <1>4

LEMMA OrderNext ==
    OrderInv' <=> /\ access_log' \in Seq(Line) /\ tail' \in Line \cup {NULL}
                  /\ p' \in Nat \cup {-1} /\ (reading' => p' \in Nat)
                  /\ handled' \in Seq(Line)
                  /\ p' # -1 => /\ p' <= Len(access_log')
                                /\ SeenInOrder(access_log', p', handled')
BY DEF OrderInv, Logged, Line, SeenInOrder, KnownLines

LEMMA ServerInOrder ==
    ASSUME OrderInv, Server
    PROVE  OrderInv'
<1>1. UNCHANGED << handled, p, reading >>
  BY DEF Server, WriteLine, WritePart, WriteRest, vars, loopVars
<1>2. \/ UNCHANGED access_log
      \/ \E l \in Line : access_log' = Append(access_log, l)
  BY DEF Server, WriteLine, WritePart, WriteRest, OrderInv, Logged
<1>3. tail' \in Line \cup {NULL}
  BY DEF Server, WriteLine, WritePart, WriteRest, OrderInv, Logged
<1>4. /\ access_log \in Seq(Line) /\ handled \in Seq(Line)
      /\ p \in Nat \cup {-1} /\ (reading => p \in Nat)
  BY DEF OrderInv, Logged
<1>5. ASSUME p # -1
      PROVE  p <= Len(access_log') /\ SeenInOrder(access_log', p, handled)
  <2>1. p \in Nat /\ p <= Len(access_log) /\ SeenInOrder(access_log, p, handled)
    BY <1>4, <1>5 DEF OrderInv
  <2> QED
    BY <1>2, <1>4, <2>1, LogGrows
<1>6. access_log' \in Seq(Line)
  BY <1>2, <1>4
<1> QED
  BY <1>1, <1>3, <1>4, <1>5, <1>6, OrderNext

LEMMA LoopInOrder ==
    ASSUME OrderInv, Loop
    PROVE  OrderInv'
<1>1. /\ access_log \in Seq(Line) /\ tail \in Line \cup {NULL}
      /\ p \in Nat \cup {-1} /\ (reading => p \in Nat)
      /\ handled \in Seq(Line)
      /\ p # -1 => p <= Len(access_log) /\ SeenInOrder(access_log, p, handled)
  BY DEF OrderInv, Logged
<1>2. CASE Open
  BY <1>1, <1>2, OrderNext DEF Open, logVars, vars
<1>3. CASE ReadLine
  <2> DEFINE l == access_log[p + 1]
  <2>1. /\ UNCHANGED << access_log, tail, reading >>
        /\ p' = p + 1 /\ p \in Nat /\ p < Len(access_log) /\ Handle(l)
    BY <1>1, <1>3 DEF ReadLine, logVars
  <2>2. l \in Line
    BY <1>1, <2>1
  <2> HIDE DEF l
  <2>3. IF l.ip = Foreign THEN handled' = handled ELSE handled' = Append(handled, l)
    BY <2>1, <2>2, HandleOnce
  <2>4. SeenInOrder(access_log, p + 1, handled')
    BY <1>1, <2>1, <2>3, LineSeen DEF l
  <2>5. handled' \in Seq(Line) /\ p + 1 \in Nat /\ p + 1 <= Len(access_log)
    BY <1>1, <2>1, <2>2, <2>3
  <2> QED
    BY <1>1, <2>1, <2>4, <2>5, OrderNext
<1>4. CASE ReadPart
  <2>1. tail \in Line
    BY <1>1, <1>4 DEF ReadPart
  <2>2. \A f \in URI : [tail EXCEPT !.uri = f] \in Line
    BY <2>1 DEF Line
  <2>3. \E l \in Line : handled' = handled \/ handled' = Append(handled, l)
    BY <1>4, <2>1, <2>2, HandleOnce DEF ReadPart, vars
  <2>4. p' = -1 /\ ~ reading' /\ UNCHANGED << access_log, tail >>
    BY <1>4 DEF ReadPart, logVars
  <2>5. handled' \in Seq(Line)
    BY <1>1, <2>3
  <2> QED
    BY <1>1, <2>4, <2>5, OrderNext
<1>5. CASE EndOfFile
  BY <1>1, <1>5, OrderNext DEF EndOfFile, logVars, vars
<1> QED
  BY <1>2, <1>3, <1>4, <1>5 DEF Loop

LEMMA OrderedIdle == OrderInv /\ UNCHANGED << handled, access_log, tail, p, reading >> => OrderInv'
BY DEF OrderInv, Logged, Line, SeenInOrder, KnownLines

LEMMA OrderedAtFirst == RsyslogInit => OrderInv
<1> SUFFICES ASSUME RsyslogInit PROVE OrderInv
  OBVIOUS
<1>1. KnownLines(access_log, p) = {}
  BY DEF RsyslogInit, KnownLines
<1>2. Cardinality(KnownLines(access_log, p)) = 0
  BY <1>1, FS_EmptySet
<1> QED
  BY <1>1, <1>2 DEF RsyslogInit, Init, OrderInv, Logged, SeenInOrder

LEMMA OrderedIs == OrderInv => HandledInOrder
BY DEF OrderInv, HandledInOrder, SeenInOrder, KnownLines

\* However the web server writes while the file is read, whole lines or parts,
\* the engine handles the lines before the position, each once and in order.
THEOREM LogInOrder == RsyslogSpec => []HandledInOrder
<1>1. OrderInv /\ [RsyslogNext]_rsyslogVars => OrderInv'
  BY ServerInOrder, LoopInOrder, OrderedIdle DEF RsyslogNext, rsyslogVars, vars, logVars, loopVars
<1> QED
  BY <1>1, OrderedAtFirst, OrderedIs, PTL DEF RsyslogSpec

\* The same in the whole defence, where the engine may have to wait for the
\* daemon and the firewall keeps addresses away.
THEOREM SystemLogInOrder == SystemSpec => []HandledInOrder
<1>1. SystemInit => OrderInv
  BY OrderedAtFirst DEF SystemInit
<1>2. OrderInv /\ [SystemNext]_systemVars => OrderInv'
  <2> SUFFICES ASSUME OrderInv, [SystemNext]_systemVars PROVE OrderInv'
    OBVIOUS
  <2>1. ASSUME NEW l \in Line, Visit(l) PROVE OrderInv'
    BY <2>1, ServerInOrder DEF Visit, Server
  <2>2. CASE FinishLine
    BY <2>2, ServerInOrder DEF FinishLine, Server
  <2>3. CASE Detect
    BY <2>3, LoopInOrder DEF Detect
  <2>4. ASSUME NEW ip \in Suspects, ProxyReport(ip) PROVE OrderInv'
    BY <2>4, OrderedIdle DEF ProxyReport, engineVars, logVars, loopVars
  <2>5. CASE Daemon
    BY <2>5, OrderedIdle DEF Daemon, engineVars, logVars, loopVars
  <2>6. CASE UNCHANGED systemVars
    BY <2>6, OrderedIdle DEF systemVars, rsyslogVars, vars, logVars, loopVars
  <2> QED
    BY <2>1, <2>2, <2>3, <2>4, <2>5, <2>6 DEF SystemNext
<1> QED
  BY <1>1, <1>2, OrderedIs, PTL DEF SystemSpec
=============================================================================
