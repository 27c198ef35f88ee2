-------------------------- MODULE Lifecycle_proofs --------------------------
(***************************************************************************)
(* Proofs about starts and stops, for any number of starts, any clients    *)
(* and FRADE and dyn4 started together as well as apart.                   *)
(***************************************************************************)
EXTENDS Lifecycle, DataFacts, TLAPS

(***************************************************************************)
(* The inductive invariant.  A daemon that has tried to make the rule may  *)
(* have failed: the start script destroys the set between the daemon's two *)
(* commands.  But when the start script has no command left, a daemon is   *)
(* still on its way to the rule (Underway), or the rule is there.          *)
(***************************************************************************)
Command == {"rm", "iptables -F", "ipset -X", "rsyslog", "blacklistd"}

Scripted ==
    /\ started \in Nat /\ started <= Starts
    /\ frade_script \in Seq(Command)
    /\ frade_script # << >> => frade_script[Len(frade_script)] = "blacklistd"
    /\ frade_script # << >> \/ dyn4_script # << >> => started \in Run

Shaped ==
    /\ DOMAIN daemon = Role
    /\ \A r \in Role :
          /\ DOMAIN daemon[r] = Run
          /\ \A i \in Run : /\ "state" \in DOMAIN daemon[r][i]
                            /\ Alive(daemon[r][i]) => "setup" \in DOMAIN daemon[r][i]

RuleHasSet == rule => set_exists

Underway ==
    \E r \in Role, i \in Run :
        /\ Alive(daemon[r][i])
        /\ \/ daemon[r][i].setup = "create"
           \/ daemon[r][i].setup = "rule" /\ set_exists

SomeAlive == \E r \in Role, i \in Run : Alive(daemon[r][i])

RuleComes == frade_script = << >> /\ SomeAlive => rule \/ Underway

IInv == Scripted /\ Shaped /\ RuleHasSet /\ RuleComes

-----------------------------------------------------------------------------
LEMMA Initially == Init => IInv
BY LifecycleAssumption
   DEF Init, IInv, Scripted, Shaped, RuleHasSet, RuleComes, SomeAlive, Alive, NoProcess

\* A step that leaves the daemons and the firewall alone, and does not end the
\* start script.
LEMMA OthersKeep ==
    ASSUME IInv, UNCHANGED << daemon, set_exists, rule >>, Scripted',
           frade_script' = << >> => frade_script = << >>
    PROVE  IInv'
BY DEF IInv, Shaped, RuleHasSet, RuleComes, SomeAlive, Underway, Alive

LEMMA TriggerKeeps ==
    ASSUME IInv, triggerFrade
    PROVE  IInv'
<1>1. Starts \in Nat
  BY LifecycleAssumption
<1>2. started \in Nat /\ started < Starts /\ started' = started + 1 /\ Settled
  BY DEF triggerFrade, IInv, Scripted
<1>3. started' \in Nat /\ started' <= Starts /\ started' \in Run
  BY <1>1, <1>2 DEF Run
<1>4. Scripted' /\ frade_script = << >>
  <2> DEFINE commands == << "rm", "iptables -F", "ipset -X", "rsyslog", "blacklistd" >>
  <2>1. commands \in Seq(Command)
    BY DEF Command
  <2>4. Len(commands) = 5 /\ commands[5] = "blacklistd"
    OBVIOUS
  <2>2. frade_script' = IF "frade" \in options THEN commands ELSE << >>
    BY Zenon DEF triggerFrade
  <2> HIDE DEF commands
  <2>3. /\ frade_script' \in Seq(Command)
        /\ frade_script' # << >> => frade_script'[Len(frade_script')] = "blacklistd"
    <3>1. CASE "frade" \in options
      BY <2>1, <2>2, <2>4, <3>1
    <3>2. CASE "frade" \notin options
      BY <2>2, <3>2
    <3> QED
      BY <3>1, <3>2
  <2> QED
    BY <1>2, <1>3, <2>3 DEF Scripted, Settled
<1>5. UNCHANGED << daemon, set_exists, rule >>
  BY DEF triggerFrade, firewall
<1> QED
  BY <1>4, <1>5, OthersKeep

\* The start script, command by command.
LEMMA StartFradeKeeps ==
    ASSUME IInv, start_frade
    PROVE  IInv'
<1>1. /\ UNCHANGED << started, dyn4_script >>
      /\ frade_script # << >> /\ frade_script' = Tail(frade_script)
  BY DEF start_frade, RemovePipe, FlushRules, DestroySet, StartRsyslog, StartBlacklistd,
         FradeCommand, orders
<1>2. frade_script \in Seq(Command) /\ frade_script[Len(frade_script)] = "blacklistd"
  BY <1>1 DEF IInv, Scripted
<1>3. Head(frade_script) # "blacklistd" => frade_script' # << >>
  <2>1. Len(frade_script) \in Nat \ {0} /\ Len(frade_script') = Len(frade_script) - 1
    BY <1>1, <1>2
  <2>2. Head(frade_script) = frade_script[1]
    BY <1>1, <1>2
  <2> QED
    BY <1>2, <2>1, <2>2
<1>9. Scripted' /\ started \in Run
  <2>1. /\ frade_script' \in Seq(Command)
        /\ frade_script' # << >> => frade_script'[Len(frade_script')] = "blacklistd"
    BY <1>1, <1>2
  <2> QED
    BY <1>1, <2>1 DEF IInv, Scripted
<1>4. CASE RemovePipe \/ StartRsyslog
  <2>1. UNCHANGED << daemon, set_exists, rule >> /\ frade_script' # << >>
    BY <1>3, <1>4 DEF RemovePipe, StartRsyslog, FradeCommand, firewall
  <2> QED
    BY <1>9, <2>1, OthersKeep
<1>5. CASE FlushRules \/ DestroySet
  <2>1. UNCHANGED daemon /\ frade_script' # << >>
    BY <1>3, <1>5 DEF FlushRules, DestroySet, FradeCommand
  <2>2. rule' => set_exists'
    BY <1>5, Zenon DEF FlushRules, DestroySet, IInv, RuleHasSet
  <2> QED
    BY <1>9, <2>1, <2>2 DEF IInv, Shaped, RuleHasSet, RuleComes, Alive
<1>6. CASE StartBlacklistd
  <2>1. /\ daemon' = [daemon EXCEPT !["frade"][started] = NewDaemon]
        /\ UNCHANGED << set_exists, rule >>
    BY <1>6 DEF StartBlacklistd, firewall
  <2>2. Shaped' /\ daemon'["frade"][started] = NewDaemon
    BY <1>9, <2>1 DEF IInv, Shaped, Role, Alive, NewDaemon
  <2>3. Underway'
    BY <1>1, <1>9, <2>2 DEF Underway, Role, Alive, NewDaemon
  <2> QED
    BY <1>9, <2>1, <2>2, <2>3 DEF IInv, RuleHasSet, RuleComes
<1> QED
  BY <1>4, <1>5, <1>6 DEF start_frade

LEMMA StartDyn4Keeps ==
    ASSUME IInv, start_dyn4
    PROVE  IInv'
<1>1. /\ UNCHANGED << started, frade_script, set_exists, rule >>
      /\ dyn4_script # << >> /\ dyn4_script' = Tail(dyn4_script)
  BY DEF start_dyn4, StartBldyn4, StartDyn4, Dyn4Command, orders, firewall
<1>2. Scripted' /\ started \in Run
  BY <1>1 DEF IInv, Scripted
<1>3. CASE StartBldyn4
  <2>1. daemon' = [daemon EXCEPT !["dyn4"][started] = NewDaemon]
    BY <1>3 DEF StartBldyn4
  <2>2. Shaped' /\ daemon'["dyn4"][started] = NewDaemon
    BY <1>2, <2>1 DEF IInv, Shaped, Role, Alive, NewDaemon
  <2>3. Underway'
    BY <1>1, <1>2, <2>2 DEF Underway, Role, Alive, NewDaemon
  <2> QED
    BY <1>1, <1>2, <2>2, <2>3 DEF IInv, RuleHasSet, RuleComes
<1>4. CASE StartDyn4
  BY <1>1, <1>2, <1>4, OthersKeep DEF StartDyn4
<1> QED
  BY <1>3, <1>4 DEF start_dyn4

\* pkill leaves no daemon alive.
LEMMA StopKeeps ==
    ASSUME IInv, stop_frade
    PROVE  IInv'
<1>1. CASE KillLoops
  <2>1. Scripted' /\ UNCHANGED << daemon, set_exists, rule, frade_script >>
    BY <1>1 DEF KillLoops, IInv, Scripted, firewall
  <2> QED
    BY <2>1, OthersKeep
<1>2. CASE KillRest
  <2>1. Scripted' /\ UNCHANGED << set_exists, rule, frade_script >>
    BY <1>2 DEF KillRest, IInv, Scripted, firewall
  <2>2. daemon' = [r \in Role |-> [i \in Run |-> Dead(daemon[r][i])]]
    BY <1>2 DEF KillRest
  <2>3. ASSUME NEW r \in Role, NEW i \in Run
        PROVE  ~ Alive(daemon'[r][i]) /\ "state" \in DOMAIN daemon'[r][i]
    BY <2>2 DEF Dead, Alive, IInv, Shaped
  <2>4. Shaped'
    BY <2>2, <2>3 DEF Shaped, Alive
  <2> QED
    BY <2>1, <2>3, <2>4 DEF IInv, RuleHasSet, RuleComes, SomeAlive, Alive
<1> QED
  BY <1>1, <1>2 DEF stop_frade

-----------------------------------------------------------------------------
\* A daemon goes on with its pipe or its list: nobody's set-up changes.
LEMMA SameSetup ==
    ASSUME IInv, UNCHANGED << set_exists, rule, frade_script >>, Scripted', Shaped',
           \A r \in Role, i \in Run :
              /\ Alive(daemon'[r][i]) <=> Alive(daemon[r][i])
              /\ Alive(daemon[r][i]) => daemon'[r][i].setup = daemon[r][i].setup
    PROVE  IInv'
BY DEF IInv, RuleHasSet, RuleComes, SomeAlive, Underway, Alive

LEMMA DaemonKeeps ==
    ASSUME IInv, NEW r \in Role, NEW i \in Run, readPipe(r, i) \/ blacklist(r, i)
    PROVE  IInv'
<1>1. UNCHANGED << started, frade_script, dyn4_script >> /\ Scripted'
  BY DEF readPipe, blacklist, MakePipe, ReadPipe, CreateSet, MakeRule, AddMember, orders, scripts,
         IInv, Scripted
<1>2. /\ DOMAIN daemon = Role /\ DOMAIN daemon[r] = Run
      /\ Alive(daemon[r][i]) => {"state", "setup"} \subseteq DOMAIN daemon[r][i]
  BY DEF IInv, Shaped
<1>3. ASSUME NEW d, daemon' = [daemon EXCEPT ![r][i] = d]
      PROVE  /\ DOMAIN daemon' = Role
             /\ \A s \in Role : DOMAIN daemon'[s] = Run
             /\ daemon'[r][i] = d
             /\ \A s \in Role, j \in Run : << s, j >> # << r, i >> => daemon'[s][j] = daemon[s][j]
  BY <1>3 DEF IInv, Shaped
<1>4. CASE MakePipe(r, i)
  <2> DEFINE d == [daemon[r][i] EXCEPT !.state = "run", !.file = path'[r]]
  <2>1. daemon' = [daemon EXCEPT ![r][i] = d] /\ UNCHANGED << set_exists, rule >>
    BY <1>4, <1>2 DEF MakePipe, firewall
  <2>2. Alive(daemon[r][i])
    BY <1>4 DEF MakePipe, Alive
  <2>3. /\ Alive(d) /\ d.setup = daemon[r][i].setup
        /\ {"state", "setup"} \subseteq DOMAIN d
    BY <1>2, <2>2 DEF Alive
  <2> HIDE DEF d
  <2>4. Shaped'
    BY <1>3, <2>1, <2>3 DEF IInv, Shaped, Alive
  <2> QED
    BY <1>1, <1>3, <2>1, <2>2, <2>3, <2>4, SameSetup
<1>5. CASE ReadPipe(r, i)
  <2>1. PICK pos, noted, list :
            daemon' = [daemon EXCEPT ![r][i].pos = pos, ![r][i].noted = noted, ![r][i].q = list]
    BY <1>5 DEF ReadPipe
  <2> DEFINE d == [daemon[r][i] EXCEPT !.pos = pos, !.noted = noted, !.q = list]
  <2>2. daemon' = [daemon EXCEPT ![r][i] = d]
    BY <2>1, <1>2
  <2>3. Alive(daemon[r][i]) /\ UNCHANGED << set_exists, rule >>
    BY <1>5 DEF ReadPipe, Alive, firewall
  <2>4. /\ Alive(d) /\ d.setup = daemon[r][i].setup
        /\ {"state", "setup"} \subseteq DOMAIN d
    BY <1>2, <2>3 DEF Alive
  <2> HIDE DEF d
  <2>5. Shaped'
    BY <1>3, <2>2, <2>4 DEF IInv, Shaped, Alive
  <2> QED
    BY <1>1, <1>3, <2>2, <2>3, <2>4, <2>5, SameSetup
<1>6. CASE AddMember(r, i)
  <2>1. PICK ip : daemon' = [daemon EXCEPT ![r][i].q = @ \ {ip}]
    BY <1>6 DEF AddMember
  <2> DEFINE d == [daemon[r][i] EXCEPT !.q = @ \ {ip}]
  <2>2. daemon' = [daemon EXCEPT ![r][i] = d]
    BY <2>1, <1>2
  <2>3. Alive(daemon[r][i]) /\ UNCHANGED << set_exists, rule >>
    BY <1>6 DEF AddMember
  <2>4. /\ Alive(d) /\ d.setup = daemon[r][i].setup
        /\ {"state", "setup"} \subseteq DOMAIN d
    BY <1>2, <2>3 DEF Alive
  <2> HIDE DEF d
  <2>5. Shaped'
    BY <1>3, <2>2, <2>4 DEF IInv, Shaped, Alive
  <2> QED
    BY <1>1, <1>3, <2>2, <2>3, <2>4, <2>5, SameSetup
<1>7. CASE CreateSet(r, i)
  <2> DEFINE d == [daemon[r][i] EXCEPT !.setup = "rule"]
  <2>1. daemon' = [daemon EXCEPT ![r][i] = d] /\ Alive(daemon[r][i]) /\ set_exists' = TRUE
    BY <1>7, <1>2 DEF CreateSet
  <2>2. Alive(d) /\ d.setup = "rule" /\ {"state", "setup"} \subseteq DOMAIN d
    BY <1>2, <2>1 DEF Alive
  <2> HIDE DEF d
  <2>3. Shaped'
    BY <1>3, <2>1, <2>2 DEF IInv, Shaped, Alive
  <2>4. Underway'
    BY <1>3, <2>1, <2>2 DEF Underway, Alive
  <2> QED
    BY <1>1, <2>1, <2>3, <2>4 DEF IInv, RuleHasSet, RuleComes
<1>8. CASE MakeRule(r, i)
  <2> DEFINE d == [daemon[r][i] EXCEPT !.setup = "add"]
  <2>1. /\ daemon' = [daemon EXCEPT ![r][i] = d] /\ Alive(daemon[r][i])
        /\ daemon[r][i].setup = "rule"
        /\ rule' = (rule \/ set_exists) /\ UNCHANGED set_exists
    BY <1>8, <1>2 DEF MakeRule
  <2>2. Alive(d) /\ {"state", "setup"} \subseteq DOMAIN d
    BY <1>2, <2>1 DEF Alive
  <2> HIDE DEF d
  <2>3. Shaped'
    BY <1>3, <2>1, <2>2 DEF IInv, Shaped, Alive
  <2>4. RuleHasSet'
    BY <2>1 DEF IInv, RuleHasSet
  <2>5. CASE rule \/ set_exists
    BY <1>1, <2>1, <2>3, <2>4, <2>5 DEF IInv, RuleComes
  <2>6. CASE ~ rule /\ ~ set_exists
    <3>1. frade_script = << >> => Underway
      BY <2>1, <2>6 DEF IInv, RuleComes, SomeAlive
    <3>2. ASSUME Underway PROVE Underway'
      <4>1. PICK s \in Role, j \in Run : Alive(daemon[s][j]) /\ daemon[s][j].setup = "create"
        BY <3>2, <2>6 DEF Underway
      <4>2. << s, j >> # << r, i >>
        BY <2>1, <4>1
      <4>3. daemon'[s][j] = daemon[s][j]
        BY <1>3, <2>1, <4>2
      <4> QED
        BY <4>1, <4>3 DEF Underway, Alive
    <3> QED
      BY <1>1, <2>3, <2>4, <3>1, <3>2 DEF IInv, RuleComes
  <2> QED
    BY <2>5, <2>6
<1> QED
  BY <1>4, <1>5, <1>6, <1>7, <1>8 DEF readPipe, blacklist

-----------------------------------------------------------------------------
LEMMA Inductive == IInv /\ [Next]_vars => IInv'
<1> SUFFICES ASSUME IInv, [Next]_vars PROVE IInv'
  OBVIOUS
<1>1. CASE triggerFrade
  BY <1>1, TriggerKeeps
<1>2. CASE Scripts
  BY <1>2, StartFradeKeeps, StartDyn4Keeps, StopKeeps DEF Scripts
<1>3. ASSUME NEW i \in Run, NEW r \in Role, readPipe(r, i) \/ blacklist(r, i) PROVE IInv'
  BY <1>3, DaemonKeeps
<1>4. ASSUME \/ OrderStop
             \/ \E i \in Run : Loop(i) \/ Sniff(i)
             \/ \E ip \in IP : Visit(ip) \/ Connect(ip)
             \/ UNCHANGED vars
      PROVE  IInv'
  <2> DEFINE still == UNCHANGED << started, frade_script, dyn4_script, daemon, set_exists, rule >>
  <2>a. OrderStop => still
    BY DEF OrderStop, orders, scripts, firewall
  <2>b. ASSUME NEW i \in Run, Loop(i) \/ Sniff(i) PROVE still
    BY <2>b DEF Loop, OpenPipe, PipeOpened, ReadLine, Sniff, orders, scripts, firewall
  <2>c. ASSUME NEW ip \in IP, Visit(ip) \/ Connect(ip) PROVE still
    BY <2>c DEF Visit, Connect, orders, scripts, firewall
  <2>d. UNCHANGED vars => still
    BY DEF vars, orders, scripts, firewall
  <2>1. still
    BY <1>4, <2>a, <2>b, <2>c, <2>d
  <2>2. Scripted'
    BY <2>1 DEF IInv, Scripted
  <2> QED
    BY <2>1, <2>2, OthersKeep
<1> QED
  BY <1>1, <1>2, <1>3, <1>4 DEF Next, Process

LEMMA Invariance == Spec => []IInv
BY Initially, Inductive, PTL DEF Spec

\* When nothing is being started and a daemon runs, the firewall has its set and
\* the rule, whatever was stopped and started before and in between, and
\* whichever daemon lost its set to the start script.
THEOREM RuleStays == Spec => []RuleInPlace
<1>1. IInv => RuleInPlace
  <2> SUFFICES ASSUME IInv, Settled, SomeAlive PROVE set_exists /\ rule
    BY DEF RuleInPlace, SomeAlive
  <2>1. ~ Underway
    BY DEF Underway, Settled
  <2>2. rule
    BY <2>1 DEF IInv, RuleComes, Settled
  <2> QED
    BY <2>2 DEF IInv, RuleHasSet
<1> QED
  BY <1>1, Invariance, PTL

-----------------------------------------------------------------------------
(***************************************************************************)
(* What a sniffer has counted, and whom it convicts.                       *)
(***************************************************************************)
Syn == [ip : IP, time : 0 .. MaxTime, port : Nat]

Sniffer ==
    [ state : {"run", "dead"}, pos : Nat, from : Nat,
      data : [IP -> Data \cup {NoData}], blacklisted : SUBSET IP ]

Sorted(log) == \A j, k \in DOMAIN log : j <= k => log[j].time <= log[k].time

\* The ports an address used in the packets from a to b, and those packets that
\* were the first from their ports.
Ports(log, a, b, ip) == {log[k].port : k \in {j \in a + 1 .. b : log[j].ip = ip}}

Firsts(log, a, b, ip) ==
    {k \in a + 1 .. b : log[k].ip = ip /\ log[k].port \notin Ports(log, a, k - 1, ip)}

Span(log, N, a, b) == {k \in N : log[k].time >= a /\ log[k].time <= b}

Since(log, N, a) == {k \in N : log[k].time >= a}

\* The packets N counted in a window that started at st with the count c.
Running(log, N, w, st, c) ==
    /\ \E k \in N : log[k].time = st
    /\ \A k \in N : log[k].time <= st + winSizes[w] - 1
    /\ Cardinality(Since(log, N, st)) = c

\* It is below its threshold, and so were the packets of any interval of its
\* length that it cuts short.
Calm(log, N, w, st, c) ==
    /\ c < thresholds[w]
    /\ \A a \in Nat : a + winSizes[w] - 1 >= st =>
          Cardinality(Span(log, N, a, st - 1)) < thresholds[w]
    /\ \A a \in Nat :
          Cardinality(Span(log, N, a, a + winSizes[w] - 1)) <= 2 * (thresholds[w] - 1)

Crowded(log, N) ==
    \E w \in Windows, a \in 0 .. MaxTime :
        Cardinality(Span(log, N, a, a + winSizes[w] - 1)) >= thresholds[w]

\* The data d of an address, of which the packets N counted; named says whether
\* the sniffer has convicted it.
Sound(log, N, d, named) ==
    IF d = NoData THEN N = {} /\ ~ named
    ELSE /\ \A w \in Windows : Running(log, N, w, d.starts[w], d.counts[w])
         /\ IF named THEN Crowded(log, N)
            ELSE \A w \in Windows : Calm(log, N, w, d.starts[w], d.counts[w])

Tallied(log, s, ip) ==
    /\ s.data[ip] = NoData => Ports(log, s.from, s.pos, ip) = {}
    /\ s.data[ip] # NoData => s.data[ip].ports = Ports(log, s.from, s.pos, ip)
    /\ Sound(log, Firsts(log, s.from, s.pos, ip), s.data[ip], ip \in s.blacklisted)

SniffInv ==
    /\ syns \in Seq(Syn) /\ Sorted(syns)
    /\ DOMAIN sniffer = Run
    /\ \A i \in Run : "state" \in DOMAIN sniffer[i]
    /\ \A i \in Run : sniffer[i].state = "run" =>
          /\ sniffer[i] \in Sniffer
          /\ sniffer[i].from <= sniffer[i].pos /\ sniffer[i].pos <= Len(syns)
          /\ \A ip \in IP : Tallied(syns, sniffer[i], ip)

-----------------------------------------------------------------------------
LEMMA WindowType == \A w \in Windows : winSizes[w] \in Nat \ {0} /\ thresholds[w] \in Nat \ {0, 1}
BY Dyn4Assumption

LEMMA SynTimes ==
    ASSUME NEW log \in Seq(Syn)
    PROVE  \A k \in DOMAIN log : /\ log[k] \in Syn /\ log[k].time \in Nat
                                 /\ log[k].time \in 0 .. MaxTime /\ log[k].port \in Nat
<1>1. \A k \in DOMAIN log : log[k] \in Syn
  OBVIOUS
<1> QED
  BY <1>1, LifecycleAssumption DEF Syn

\* Packets that are not looked at yet are in none of this.
LEMMA MorePackets ==
    ASSUME NEW log \in Seq(Syn), NEW x \in Syn, NEW s \in Sniffer, s.pos <= Len(log),
           NEW ip \in IP, Tallied(log, s, ip)
    PROVE  Tallied(Append(log, x), s, ip)
<1> DEFINE g == Append(log, x)
           N == Firsts(log, s.from, s.pos, ip)
<1>1. s.from \in Nat /\ s.pos \in Nat
  BY DEF Sniffer
<1>2. \A k \in 1 .. s.pos : g[k] = log[k]
  BY <1>1
<1> HIDE DEF g
<1>3. \A b \in 0 .. s.pos : Ports(g, s.from, b, ip) = Ports(log, s.from, b, ip)
  BY <1>1, <1>2 DEF Ports
<1>4. Firsts(g, s.from, s.pos, ip) = N
  <2>1. ASSUME NEW k \in s.from + 1 .. s.pos
        PROVE  g[k] = log[k] /\ Ports(g, s.from, k - 1, ip) = Ports(log, s.from, k - 1, ip)
    <3>1. k - 1 \in 0 .. s.pos /\ k \in 1 .. s.pos
      BY <1>1
    <3> QED
      BY <1>2, <1>3, <3>1
  <2> QED
    BY <2>1 DEF Firsts
<1>5. \A k \in N : g[k] = log[k]
  <2>1. N \subseteq 1 .. s.pos
    BY <1>1 DEF Firsts
  <2> QED
    BY <1>2, <2>1
<1>6. Ports(g, s.from, s.pos, ip) = Ports(log, s.from, s.pos, ip)
  BY <1>1, <1>3
<1> HIDE DEF N
<1>7. \A a : Since(g, N, a) = Since(log, N, a)
  BY <1>5 DEF Since
<1>8. \A a, b : Span(g, N, a, b) = Span(log, N, a, b)
  BY <1>5 DEF Span
<1>9. \A w, st, c : Running(log, N, w, st, c) <=> Running(g, N, w, st, c)
  BY <1>5, <1>7 DEF Running
<1>10. \A w, st, c : Calm(log, N, w, st, c) <=> Calm(g, N, w, st, c)
  BY <1>8 DEF Calm
<1>11. Crowded(log, N) <=> Crowded(g, N)
  BY <1>8 DEF Crowded
<1>12. \A d, named : Sound(log, N, d, named) <=> Sound(g, N, d, named)
  BY <1>9, <1>10, <1>11 DEF Sound
<1> QED
  BY <1>4, <1>6, <1>12 DEF Tallied, g, N

\* The packet a sniffer looks at next.
LEMMA NextPacket ==
    ASSUME NEW log \in Seq(Syn), NEW a \in Nat, NEW b \in Nat, a <= b, b < Len(log), NEW ip
    PROVE  /\ Ports(log, a, b + 1, ip) =
                 IF log[b + 1].ip = ip THEN Ports(log, a, b, ip) \cup {log[b + 1].port}
                 ELSE Ports(log, a, b, ip)
           /\ Firsts(log, a, b + 1, ip) =
                 IF log[b + 1].ip = ip /\ log[b + 1].port \notin Ports(log, a, b, ip)
                 THEN Firsts(log, a, b, ip) \cup {b + 1} ELSE Firsts(log, a, b, ip)
           /\ Firsts(log, a, b, ip) \in SUBSET (1 .. b)
<1>1. a + 1 .. b + 1 = (a + 1 .. b) \cup {b + 1} /\ b + 1 - 1 = b
  OBVIOUS
<1>2. a + 1 .. b \subseteq 1 .. b
  OBVIOUS
<1> QED
  BY <1>1, <1>2 DEF Ports, Firsts

\* The same, of the sniffer s.
LEMMA SnifferNext ==
    ASSUME NEW log \in Seq(Syn), NEW s \in Sniffer, NEW ip,
           s.from <= s.pos, s.pos < Len(log)
    PROVE  /\ Ports(log, s.from, s.pos + 1, ip) =
                 IF log[s.pos + 1].ip = ip
                 THEN Ports(log, s.from, s.pos, ip) \cup {log[s.pos + 1].port}
                 ELSE Ports(log, s.from, s.pos, ip)
           /\ Firsts(log, s.from, s.pos + 1, ip) =
                 IF log[s.pos + 1].ip = ip /\ log[s.pos + 1].port \notin Ports(log, s.from, s.pos, ip)
                 THEN Firsts(log, s.from, s.pos, ip) \cup {s.pos + 1}
                 ELSE Firsts(log, s.from, s.pos, ip)
           /\ Firsts(log, s.from, s.pos, ip) \in SUBSET (1 .. s.pos)
<1>1. s.from \in Nat /\ s.pos \in Nat
  BY DEF Sniffer
<1> QED
  BY <1>1, NextPacket, ZenonT(30)

\* A window is started by the packet b + 1, because there was none or it is over.
LEMMA WindowAnew ==
    ASSUME NEW log \in Seq(Syn), Sorted(log), NEW b \in Nat, b < Len(log),
           NEW N \in SUBSET (1 .. b), NEW w \in Windows, NEW st \in Nat, NEW c \in Nat,
           \/ N = {}
           \/ Running(log, N, w, st, c) /\ log[b + 1].time - st >= winSizes[w]
    PROVE  /\ Running(log, N \cup {b + 1}, w, log[b + 1].time, 1)
           /\ N = {} \/ Calm(log, N, w, st, c)
              => Calm(log, N \cup {b + 1}, w, log[b + 1].time, 1)
<1> DEFINE M == N \cup {b + 1}
           t == log[b + 1].time
           W == winSizes[w]
           T == thresholds[w]
<1>1. W \in Nat \ {0} /\ T \in Nat \ {0, 1}
  BY WindowType
<1>2. t \in Nat /\ \A k \in M : log[k].time \in Nat /\ k \in 1 .. b + 1
  <2>1. M \subseteq DOMAIN log /\ b + 1 \in DOMAIN log /\ M \subseteq 1 .. b + 1
    OBVIOUS
  <2> QED
    BY <2>1, SynTimes
<1>a. N = {} \/ ((\A k \in N : log[k].time <= st + W - 1) /\ t - st >= W)
  <2>1. Running(log, N, w, st, c) => \A k \in N : log[k].time <= st + W - 1
    BY DEF Running
  <2> QED
    BY <2>1
<1>b. N \subseteq M
  OBVIOUS
<1>4. M \in SUBSET (1 .. b + 1) /\ b + 1 \in Nat
  OBVIOUS
<1> HIDE DEF W, T, t, M
<1>3. \A k \in N : log[k].time < t
  <2> TAKE k \in N
  <2> DEFINE u == log[k].time
             v == st + W - 1
  <2>1. u \in Nat
    BY <1>2, <1>b, ZenonT(30)
  <2>2. u <= v /\ t - st >= W
    BY <1>a, ZenonT(30)
  <2> HIDE DEF u
  <2>3. st \in Nat /\ W \in Nat /\ t \in Nat
    BY <1>1, <1>2
  <2>4. u < t
    BY <2>1, <2>2, <2>3
  <2> QED
    BY <2>4 DEF u
<1> USE DEF M
<1>5. Running(log, M, w, t, 1)
  <2>1. \A k \in M : log[k].time <= t + W - 1
    BY <1>1, <1>2, <1>3 DEF t
  <2>2. Since(log, M, t) = {b + 1}
    BY <1>2, <1>3 DEF Since, t
  <2>3. Cardinality(Since(log, M, t)) = 1
    BY <2>2, FS_Singleton
  <2>4. \E k \in M : log[k].time = t
    BY DEF t
  <2> HIDE DEF M
  <2> QED
    BY <2>1, <2>3, <2>4 DEF Running, W
<1>6. ASSUME N = {} \/ Calm(log, N, w, st, c)
      PROVE  Calm(log, M, w, t, 1)
  <2>1. ASSUME NEW a \in Nat, a + W - 1 >= t
        PROVE  Cardinality(Span(log, M, a, t - 1)) < T
    <3>1. Span(log, M, a, t - 1) = Span(log, N, a, t - 1)
      BY <1>2 DEF Span, t
    <3>2. CASE N = {}
      <4>1. Span(log, N, a, t - 1) = {}
        BY <3>2 DEF Span
      <4>2. Cardinality(Span(log, N, a, t - 1)) = 0
        BY <4>1, FS_EmptySet
      <4>3. 0 < T
        BY <1>1
      <4> QED
        BY <3>1, <4>2, <4>3
    <3>3. CASE N # {}
      <4>1. Running(log, N, w, st, c) /\ t - st >= W /\ c < T
        BY <1>6, <3>3 DEF Calm, t, W, T
      <4>2. Span(log, N, a, t - 1) \in SUBSET Since(log, N, st)
        <5>1. a >= st
          BY <1>1, <1>2, <2>1, <4>1
        <5>2. \A k \in N : log[k].time \in Nat
          BY <1>2
        <5> QED
          BY <5>1, <5>2 DEF Span, Since
      <4>3. Since(log, N, st) \in SUBSET (1 .. b)
        BY DEF Since
      <4>4. Cardinality(Since(log, N, st)) = c
        BY <4>1 DEF Running
      <4>5. Cardinality(Span(log, N, a, t - 1)) <= c /\ Cardinality(Span(log, N, a, t - 1)) \in Nat
        BY <4>2, <4>3, <4>4, FewerElements
      <4> QED
        BY <1>1, <3>1, <4>1, <4>5
    <3> QED
      BY <3>2, <3>3
  <2>2. ASSUME NEW a \in Nat
        PROVE  Cardinality(Span(log, M, a, a + W - 1)) <= 2 * (T - 1)
    <3> DEFINE R == Span(log, M, a, a + W - 1)
    <3>1. CASE t >= a /\ t <= a + W - 1
      <4>1. Cardinality(Span(log, M, a, t - 1)) < T
        BY <1>1, <1>2, <2>1, <3>1
      <4>2. R \in SUBSET (Span(log, M, a, t - 1) \cup {b + 1})
        <5>1. \A k \in N : log[k].time <= t - 1
          <6> SUFFICES ASSUME NEW k \in N PROVE log[k].time <= t - 1
            OBVIOUS
          <6> DEFINE e == log[k].time
          <6>1. e \in Nat /\ t \in Nat /\ e < t
            BY <1>2, <1>3
          <6> HIDE DEF e
          <6>2. e <= t - 1
            BY <6>1
          <6> QED
            BY <6>2 DEF e
        <5> QED
          BY <5>1 DEF Span
      <4>3. Span(log, M, a, t - 1) \in SUBSET (1 .. b + 1) /\ {b + 1} \in SUBSET (1 .. b + 1)
        BY <1>4 DEF Span
      <4>4. Cardinality(R) <= Cardinality(Span(log, M, a, t - 1)) + Cardinality({b + 1})
        BY <1>4, <4>2, <4>3, TwoParts
      <4>5. Cardinality({b + 1}) = 1
        BY FS_Singleton
      <4>6. /\ Cardinality(R) \in Nat /\ Cardinality(Span(log, M, a, t - 1)) \in Nat
        <5>1. R \in SUBSET (1 .. b + 1)
          BY <1>4 DEF Span
        <5> QED
          BY <1>4, <4>3, <5>1, PartOfInterval
      <4> HIDE DEF R
      <4>7. Cardinality(R) <= 2 * (T - 1)
        BY <1>1, <4>1, <4>4, <4>5, <4>6
      <4> QED
        BY <4>7 DEF R
    <3>2. CASE ~ (t >= a /\ t <= a + W - 1)
      <4>1. R = Span(log, N, a, a + W - 1)
        BY <3>2 DEF Span, t
      <4>2. CASE N = {}
        <5>1. R = {}
          BY <4>1, <4>2 DEF Span
        <5>2. Cardinality(R) = 0
          BY <5>1, FS_EmptySet
        <5>3. 0 <= 2 * (T - 1)
          BY <1>1
        <5> QED
          BY <5>2, <5>3
      <4>3. CASE N # {}
        BY <1>6, <4>1, <4>3 DEF Calm, W, T
      <4> QED
        BY <4>2, <4>3
    <3> QED
      BY <3>1, <3>2
  <2>3. 1 < T
    BY <1>1
  <2> HIDE DEF M
  <2> QED
    BY <2>1, <2>2, <2>3 DEF Calm, W, T
<1> QED
  BY <1>5, <1>6 DEF M, t

\* The packet b + 1 falls in a window in progress.
LEMMA WindowOn ==
    ASSUME NEW log \in Seq(Syn), Sorted(log), NEW b \in Nat, b < Len(log),
           NEW N \in SUBSET (1 .. b), NEW w \in Windows, NEW st \in Nat, NEW c \in Nat,
           Running(log, N, w, st, c), log[b + 1].time - st < winSizes[w]
    PROVE  /\ Running(log, N \cup {b + 1}, w, st, c + 1)
           /\ Calm(log, N, w, st, c) /\ c + 1 < thresholds[w]
              => Calm(log, N \cup {b + 1}, w, st, c + 1)
           /\ Cardinality(Span(log, N \cup {b + 1}, st, st + winSizes[w] - 1)) = c + 1
           /\ st \in 0 .. MaxTime
<1> DEFINE M == N \cup {b + 1}
           t == log[b + 1].time
           W == winSizes[w]
           T == thresholds[w]
<1>1. W \in Nat \ {0} /\ T \in Nat \ {0, 1}
  BY WindowType
<1>2. /\ M \subseteq DOMAIN log /\ b + 1 \in DOMAIN log /\ M \subseteq 1 .. b + 1
      /\ N \subseteq DOMAIN log /\ \A k \in N : k <= b + 1
  OBVIOUS
<1>3. t \in Nat /\ \A k \in M : log[k].time \in Nat /\ k \in 1 .. b + 1
  BY <1>2, SynTimes
<1>4. PICK first \in N : log[first].time = st
  BY DEF Running
<1>5. st <= t /\ st \in 0 .. MaxTime
  BY <1>2, <1>4, SynTimes DEF Sorted
<1>6. M \in SUBSET (1 .. b + 1) /\ b + 1 \in Nat
  OBVIOUS
<1> HIDE DEF W, T, t
<1>7. \A k \in M : log[k].time <= st + W - 1
  <2>1. \A k \in N : log[k].time <= st + W - 1
    BY DEF Running, W
  <2>2. t <= st + W - 1
    BY <1>1, <1>3, <1>5 DEF t, W
  <2> QED
    BY <2>1, <2>2 DEF t
<1>8. Cardinality(Since(log, M, st)) = c + 1
  <2>1. Since(log, M, st) = Since(log, N, st) \cup {b + 1}
    BY <1>5 DEF Since, t
  <2>2. Since(log, N, st) \in SUBSET (1 .. b)
    BY DEF Since
  <2> QED
    BY <2>1, <2>2, NextElement DEF Running
<1>9. Running(log, M, w, st, c + 1)
  <2>1. first \in M
    OBVIOUS
  <2> HIDE DEF M
  <2> QED
    BY <1>4, <1>7, <1>8, <2>1 DEF Running, W
<1>10. Span(log, M, st, st + W - 1) = Since(log, M, st)
  <2> HIDE DEF M
  <2> QED
    BY <1>7 DEF Span, Since
<1>11. ASSUME Calm(log, N, w, st, c), c + 1 < T
       PROVE  Calm(log, M, w, st, c + 1)
  <2>1. ASSUME NEW a \in Nat, a + W - 1 >= st
        PROVE  Cardinality(Span(log, M, a, st - 1)) < T
    <3>1. Span(log, M, a, st - 1) = Span(log, N, a, st - 1)
      BY <1>3, <1>5 DEF Span, t
    <3> QED
      BY <1>11, <2>1, <3>1 DEF Calm, W, T
  <2>2. ASSUME NEW a \in Nat
        PROVE  Cardinality(Span(log, M, a, a + W - 1)) <= 2 * (T - 1)
    <3> DEFINE R == Span(log, M, a, a + W - 1)
    <3>1. CASE t >= a /\ t <= a + W - 1
      <4>1. Cardinality(Span(log, M, a, st - 1)) < T
        <5>1. a + W - 1 >= st
          BY <1>1, <1>3, <1>5, <3>1
        <5> QED
          BY <2>1, <5>1
      <4>2. R \in SUBSET (Span(log, M, a, st - 1) \cup Since(log, M, st))
        <5> HIDE DEF M
        <5> QED
          BY <1>3 DEF Span, Since
      <4>3. Span(log, M, a, st - 1) \in SUBSET (1 .. b + 1) /\ Since(log, M, st) \in SUBSET (1 .. b + 1)
        BY <1>6 DEF Span, Since
      <4>4. Cardinality(R) <= Cardinality(Span(log, M, a, st - 1)) + Cardinality(Since(log, M, st))
        BY <1>6, <4>2, <4>3, TwoParts
      <4>5. /\ Cardinality(R) \in Nat /\ Cardinality(Span(log, M, a, st - 1)) \in Nat
        <5>1. R \in SUBSET (1 .. b + 1)
          BY <1>6 DEF Span
        <5> QED
          BY <1>6, <4>3, <5>1, PartOfInterval
      <4> HIDE DEF R, M
      <4> DEFINE x == Cardinality(R)
                 y == Cardinality(Span(log, M, a, st - 1))
                 z == Cardinality(Since(log, M, st))
      <4>6. x <= y + z /\ x \in Nat /\ y \in Nat /\ y < T /\ z = c + 1 /\ c + 1 < T
        BY <1>8, <1>11, <4>1, <4>4, <4>5
      <4>7. c \in Nat /\ T \in Int
        BY <1>1
      <4> HIDE DEF x, y, z
      <4>8. x <= 2 * (T - 1)
        BY <4>6, <4>7
      <4> QED
        BY <4>8 DEF R, x
    <3>2. CASE ~ (t >= a /\ t <= a + W - 1)
      <4>1. R = Span(log, N, a, a + W - 1)
        BY <3>2 DEF Span, t
      <4> QED
        BY <1>11, <4>1 DEF Calm, W, T
    <3> QED
      BY <3>1, <3>2
  <2> HIDE DEF M
  <2> QED
    BY <1>11, <2>1, <2>2 DEF Calm, W, T
<1> HIDE DEF M
<1>12. Cardinality(Span(log, M, st, st + W - 1)) = c + 1
  BY <1>8, <1>10
<1> QED
  BY <1>5, <1>9, <1>11, <1>12 DEF M, W, T

\* What is crowded stays so.
LEMMA StillCrowded ==
    ASSUME NEW log, NEW b \in Nat, NEW M \in SUBSET (1 .. b), NEW N \in SUBSET M, Crowded(log, N)
    PROVE  Crowded(log, M)
<1>1. PICK w \in Windows, a \in 0 .. MaxTime :
          Cardinality(Span(log, N, a, a + winSizes[w] - 1)) >= thresholds[w]
  BY DEF Crowded
<1> DEFINE R == Span(log, N, a, a + winSizes[w] - 1)
           Q == Span(log, M, a, a + winSizes[w] - 1)
<1>2. R \in SUBSET Q /\ Q \in SUBSET (1 .. b)
  BY DEF Span
<1>3. Cardinality(R) <= Cardinality(Q) /\ Cardinality(R) \in Nat /\ Cardinality(Q) \in Nat
  BY <1>2, FewerElements
<1>4. Cardinality(R) >= thresholds[w] /\ thresholds[w] \in Nat
  BY <1>1, WindowType
<1> HIDE DEF R, Q
<1>5. Cardinality(Q) >= thresholds[w]
  BY <1>3, <1>4
<1> QED
  BY <1>5 DEF Crowded, Q

\* The first packet counts in every window and convicts nobody.
LEMMA FirstSound ==
    ASSUME NEW log \in Seq(Syn), Sorted(log), NEW b \in Nat, b < Len(log), NEW port \in Nat,
           NEW named, ~ named
    PROVE  Sound(log, {b + 1}, FirstSeen(log[b + 1].time, port), named)
<1> DEFINE t == log[b + 1].time
           d == FirstSeen(t, port)
           none == {}
<1>1. b + 1 \in DOMAIN log
  OBVIOUS
<1>2. t \in Nat
  BY <1>1, SynTimes
<1>3. d \in Data /\ d # NoData
  BY <1>2, Dyn4Assumption DEF FirstSeen, Data
<1>4. \A w \in Windows : d.starts[w] = t /\ d.counts[w] = 1
  BY DEF FirstSeen
<1>5. none \in SUBSET (1 .. b) /\ none \cup {b + 1} = {b + 1}
  OBVIOUS
<1>6. \A w \in Windows : Running(log, {b + 1}, w, t, 1) /\ Calm(log, {b + 1}, w, t, 1)
  <2> TAKE w \in Windows
  <2>1. /\ Running(log, none \cup {b + 1}, w, t, 1)
        /\ none = {} \/ Calm(log, none, w, 0, 0) => Calm(log, none \cup {b + 1}, w, t, 1)
    BY <1>5, WindowAnew
  <2> QED
    BY <1>5, <2>1
<1> HIDE DEF d, t
<1>7. Sound(log, {b + 1}, d, named)
  BY <1>3, <1>4, <1>6 DEF Sound
<1> QED
  BY <1>7 DEF d, t

\* A packet from a port that is new counts in every window; its address is
\* convicted if one of the windows in progress reaches its threshold.
LEMMA CountedSound ==
    ASSUME NEW log \in Seq(Syn), Sorted(log), NEW b \in Nat, b < Len(log), NEW port \in Nat,
           NEW N \in SUBSET (1 .. b), NEW d \in Data, port \notin d.ports,
           NEW named \in BOOLEAN, Sound(log, N, d, named),
           NEW after \in BOOLEAN, after <=> named \/ Convicts(d, log[b + 1].time, port)
    PROVE  Sound(log, N \cup {b + 1}, Counted(d, log[b + 1].time, port), after)
<1> DEFINE t == log[b + 1].time
           e == Counted(d, t, port)
           M == N \cup {b + 1}
<1>1. b + 1 \in DOMAIN log /\ M \in SUBSET (1 .. b + 1) /\ N \in SUBSET M /\ b + 1 \in Nat
  OBVIOUS
<1>2. t \in Nat
  BY <1>1, SynTimes
<1>3. d # NoData /\ \A w \in Windows : d.starts[w] \in Nat /\ d.counts[w] \in Nat
  BY Dyn4Assumption DEF Data
<1>4. e \in Data /\ e # NoData
  <2>1. e \in Data
    BY <1>2, <1>3 DEF Counted, Data
  <2> HIDE DEF e
  <2> QED
    BY <2>1, Dyn4Assumption
<1>5. \A w \in Windows : Running(log, N, w, d.starts[w], d.counts[w])
  BY <1>3 DEF Sound
<1>6. \A w \in Windows :
          /\ w \in RollsOver(d, t) => e.starts[w] = t /\ e.counts[w] = 1
          /\ w \notin RollsOver(d, t) => e.starts[w] = d.starts[w] /\ e.counts[w] = d.counts[w] + 1
  BY DEF Counted
<1>7. Compared(d, t, port) = Windows \ RollsOver(d, t)
  BY <1>3 DEF Compared
<1> HIDE DEF e, M, t
<1>8. ASSUME NEW w \in Windows, w \in RollsOver(d, t)
      PROVE  /\ Running(log, M, w, e.starts[w], e.counts[w])
             /\ Calm(log, N, w, d.starts[w], d.counts[w])
                => Calm(log, M, w, e.starts[w], e.counts[w])
  <2>1. t - d.starts[w] >= winSizes[w]
    BY <1>8 DEF RollsOver
  <2>2. /\ Running(log, M, w, t, 1)
        /\ N = {} \/ Calm(log, N, w, d.starts[w], d.counts[w]) => Calm(log, M, w, t, 1)
    BY <1>3, <1>5, <2>1, WindowAnew DEF M, t
  <2> QED
    BY <1>6, <1>8, <2>2
<1>9. ASSUME NEW w \in Windows, w \notin RollsOver(d, t)
      PROVE  /\ Running(log, M, w, e.starts[w], e.counts[w])
             /\ Calm(log, N, w, d.starts[w], d.counts[w]) /\ e.counts[w] < thresholds[w]
                => Calm(log, M, w, e.starts[w], e.counts[w])
             /\ e.counts[w] >= thresholds[w] => Crowded(log, M)
             /\ e.counts[w] \in Nat
  <2>1. t - d.starts[w] < winSizes[w]
    <3>1. ~ (t - d.starts[w] >= winSizes[w])
      BY <1>9 DEF RollsOver
    <3> QED
      BY <1>2, <1>3, <3>1, WindowType
  <2> DEFINE st == d.starts[w]
             c == d.counts[w]
  <2>2. /\ Running(log, M, w, st, c + 1)
        /\ Calm(log, N, w, st, c) /\ c + 1 < thresholds[w] => Calm(log, M, w, st, c + 1)
        /\ Cardinality(Span(log, M, st, st + winSizes[w] - 1)) = c + 1
        /\ st \in 0 .. MaxTime
    BY <1>3, <1>5, <2>1, WindowOn DEF M, t
  <2>3. e.starts[w] = st /\ e.counts[w] = c + 1 /\ c + 1 \in Nat
    BY <1>3, <1>6, <1>9
  <2> HIDE DEF st, c
  <2>4. c + 1 >= thresholds[w] => Crowded(log, M)
    BY <2>2 DEF Crowded
  <2> QED
    BY <2>2, <2>3, <2>4 DEF st, c
<1>10. \A w \in Windows : Running(log, M, w, e.starts[w], e.counts[w])
  BY <1>8, <1>9
<1>11. CASE named
  <2>1. Crowded(log, N)
    BY <1>3, <1>11 DEF Sound
  <2>2. Crowded(log, M)
    BY <1>1, <2>1, StillCrowded
  <2>3. Sound(log, M, e, after)
    BY <1>4, <1>10, <1>11, <2>2 DEF Sound
  <2> QED
    BY <2>3 DEF M, e, t
<1>12. CASE ~ named /\ after
  <2>1. PICK w \in Windows \ RollsOver(d, t) : e.counts[w] >= thresholds[w]
    BY <1>7, <1>12 DEF Convicts, e, t
  <2>2. Crowded(log, M)
    BY <1>9, <2>1
  <2>3. Sound(log, M, e, after)
    BY <1>4, <1>10, <1>12, <2>2 DEF Sound
  <2> QED
    BY <2>3 DEF M, e, t
<1>13. CASE ~ named /\ ~ after
  <2>1. \A w \in Windows \ RollsOver(d, t) : ~ (e.counts[w] >= thresholds[w])
    BY <1>7, <1>13 DEF Convicts, e, t
  <2>2. \A w \in Windows : Calm(log, N, w, d.starts[w], d.counts[w])
    BY <1>3, <1>13 DEF Sound
  <2>3. ASSUME NEW w \in Windows PROVE Calm(log, M, w, e.starts[w], e.counts[w])
    <3>1. CASE w \in RollsOver(d, t)
      BY <1>8, <2>2, <3>1
    <3>2. CASE w \notin RollsOver(d, t)
      <4>1. e.counts[w] < thresholds[w]
        BY <1>9, <2>1, <3>2, WindowType
      <4> QED
        BY <1>9, <2>2, <3>2, <4>1
    <3> QED
      BY <3>1, <3>2
  <2>4. Sound(log, M, e, after)
    BY <1>4, <1>10, <1>13, <2>3 DEF Sound
  <2> QED
    BY <2>4 DEF M, e, t
<1> QED
  BY <1>11, <1>12, <1>13

LEMMA DataType ==
    ASSUME NEW d \in Data \cup {NoData}, NEW time \in Nat, NEW port \in Nat
    PROVE  dyn4(d, time, port) \in Data
<1>1. FirstSeen(time, port) \in Data
  BY DEF FirstSeen, Data
<1>2. d \in Data => Counted(d, time, port) \in Data
  BY DEF Counted, Data
<1> QED
  BY <1>1, <1>2 DEF dyn4

\* A sniffer that goes from s to r over one packet still has its tally of ip.
LEMMA PacketTallied ==
    ASSUME NEW log \in Seq(Syn), Sorted(log), NEW s \in Sniffer, NEW r \in Sniffer, NEW ip \in IP,
           s.from <= s.pos, s.pos < Len(log), Tallied(log, s, ip),
           r.from = s.from, r.pos = s.pos + 1,
           r.data[ip] = IF ip = log[s.pos + 1].ip
                        THEN dyn4(s.data[ip], log[s.pos + 1].time, log[s.pos + 1].port)
                        ELSE s.data[ip],
           ip \in r.blacklisted <=>
               \/ ip \in s.blacklisted
               \/ /\ ip = log[s.pos + 1].ip
                  /\ Convicts(s.data[ip], log[s.pos + 1].time, log[s.pos + 1].port)
    PROVE  Tallied(log, r, ip)
<1> DEFINE x == log[s.pos + 1]
           a == s.from
           b == s.pos
           d == s.data[ip]
           N == Firsts(log, a, b, ip)
           seen == Ports(log, a, b, ip)
           named == ip \in s.blacklisted
<1>1. a \in Nat /\ b \in Nat /\ d \in Data \cup {NoData} /\ named \in BOOLEAN
  BY DEF Sniffer
<1>a. a <= b /\ b < Len(log) /\ x = log[b + 1]
  OBVIOUS
<1>2. x \in Syn /\ x.time \in Nat /\ x.port \in Nat
  <2>1. b + 1 \in DOMAIN log
    BY <1>1
  <2> QED
    BY <2>1, SynTimes
<1>3. /\ Ports(log, a, b + 1, ip) = IF x.ip = ip THEN seen \cup {x.port} ELSE seen
      /\ Firsts(log, a, b + 1, ip) =
            IF x.ip = ip /\ x.port \notin seen THEN N \cup {b + 1} ELSE N
      /\ N \in SUBSET (1 .. b)
  BY SnifferNext DEF a, b, x, N, seen
<1>4. /\ d = NoData => seen = {}
      /\ d # NoData => d.ports = seen
      /\ Sound(log, N, d, named)
  BY DEF Tallied
<1> HIDE DEF a, b, d, N, seen, named, x
<1>5. \A e, after : /\ r.data[ip] = e /\ (ip \in r.blacklisted <=> after)
                    /\ e = NoData => Ports(log, a, b + 1, ip) = {}
                    /\ e # NoData => e.ports = Ports(log, a, b + 1, ip)
                    /\ after \in BOOLEAN
                    /\ Sound(log, Firsts(log, a, b + 1, ip), e, after)
                    => Tallied(log, r, ip)
  <2> TAKE e, after
  <2> SUFFICES ASSUME r.data[ip] = e, ip \in r.blacklisted <=> after, after \in BOOLEAN,
                      e = NoData => Ports(log, a, b + 1, ip) = {},
                      e # NoData => e.ports = Ports(log, a, b + 1, ip),
                      Sound(log, Firsts(log, a, b + 1, ip), e, after)
               PROVE  Tallied(log, r, ip)
    OBVIOUS
  <2>1. after = (ip \in r.blacklisted)
    OBVIOUS
  <2> QED
    BY <2>1 DEF Tallied, a, b
<1>6. CASE x.ip # ip
  <2>1. r.data[ip] = d /\ (ip \in r.blacklisted <=> named)
    BY <1>6 DEF x, d, named
  <2> QED
    BY <1>1, <1>3, <1>4, <1>5, <1>6, <2>1
<1>7. CASE x.ip = ip /\ d = NoData
  <2> DEFINE e == FirstSeen(x.time, x.port)
  <2>1. r.data[ip] = e
    BY <1>7 DEF dyn4, x, d
  <2>2. ~ named /\ N = {}
    BY <1>4, <1>7 DEF Sound
  <2>3. ~ (ip \in r.blacklisted)
    BY <1>7, <2>2 DEF Convicts, Compared, x, d, named
  <2>4. Sound(log, {b + 1}, e, FALSE)
    BY <1>1, <1>2, FirstSound DEF b, x
  <2>5. e # NoData /\ e.ports = {x.port}
    <3>1. e \in Data
      BY <1>2 DEF FirstSeen, Data
    <3>2. e.ports = {x.port}
      BY DEF FirstSeen
    <3> QED
      BY <3>1, <3>2, Dyn4Assumption
  <2>6. Ports(log, a, b + 1, ip) = {x.port} /\ Firsts(log, a, b + 1, ip) = {b + 1}
    BY <1>3, <1>4, <1>7, <2>2
  <2> HIDE DEF e
  <2> QED
    BY <1>5, <2>1, <2>3, <2>4, <2>5, <2>6
<1>8. CASE x.ip = ip /\ d # NoData /\ x.port \in d.ports
  <2>1. r.data[ip] = d
    BY <1>8 DEF dyn4, x, d
  <2>2. ip \in r.blacklisted <=> named
    BY <1>8 DEF Convicts, Compared, x, d, named
  <2>3. Ports(log, a, b + 1, ip) = seen /\ Firsts(log, a, b + 1, ip) = N
    BY <1>3, <1>4, <1>8
  <2> QED
    BY <1>1, <1>4, <1>5, <1>8, <2>1, <2>2, <2>3
<1>9. CASE x.ip = ip /\ d # NoData /\ x.port \notin d.ports
  <2> DEFINE e == Counted(d, x.time, x.port)
             after == named \/ Convicts(d, x.time, x.port)
  <2>1. r.data[ip] = e
    BY <1>9 DEF dyn4, x, d
  <2>2. (ip \in r.blacklisted <=> after) /\ after \in BOOLEAN
    BY <1>1, <1>9 DEF Convicts, x, d, named
  <2>3. Sound(log, N \cup {b + 1}, e, after)
    <3>1. d \in Data /\ b < Len(log)
      BY <1>1, <1>9 DEF b
    <3> QED
      BY <1>1, <1>2, <1>3, <1>4, <1>9, <2>2, <3>1, CountedSound DEF x, b
  <2>4. e # NoData /\ e.ports = d.ports \cup {x.port}
    <3>1. e \in Data
      BY <1>1, <1>2, <1>9 DEF Counted, Data
    <3>2. e.ports = d.ports \cup {x.port}
      BY DEF Counted
    <3> QED
      BY <3>1, <3>2, Dyn4Assumption
  <2>5. Ports(log, a, b + 1, ip) = d.ports \cup {x.port} /\ Firsts(log, a, b + 1, ip) = N \cup {b + 1}
    BY <1>3, <1>4, <1>9
  <2>6. Sound(log, Firsts(log, a, b + 1, ip), e, after)
    BY <2>3, <2>5
  <2>7. e.ports = Ports(log, a, b + 1, ip)
    BY <2>4, <2>5
  <2> HIDE DEF e, after
  <2> QED
    BY <1>5, <2>1, <2>2, <2>4, <2>6, <2>7
<1>10. x.ip = ip /\ d # NoData => x.port \in d.ports \/ x.port \notin d.ports
  OBVIOUS
<1> QED
  BY <1>6, <1>7, <1>8, <1>9, <1>10

-----------------------------------------------------------------------------
SniffNext ==
    /\ syns' \in Seq(Syn) /\ Sorted(syns')
    /\ DOMAIN sniffer' = Run
    /\ \A i \in Run : "state" \in DOMAIN sniffer'[i]
    /\ \A i \in Run : sniffer'[i].state = "run" =>
          /\ sniffer'[i] \in Sniffer
          /\ sniffer'[i].from <= sniffer'[i].pos /\ sniffer'[i].pos <= Len(syns')
          /\ \A ip \in IP : Tallied(syns', sniffer'[i], ip)

LEMMA SniffNextIs == SniffNext => SniffInv'
BY DEF SniffNext, SniffInv, Tallied, Sound, Running, Calm, Crowded, Span, Since, Firsts, Ports,
       Sorted, Syn, Sniffer, Data, Windows, Run

LEMMA SniffSame ==
    ASSUME SniffInv, UNCHANGED << syns, sniffer >>
    PROVE  SniffInv'
<1>1. SniffNext
  BY DEF SniffInv, SniffNext
<1> QED
  BY <1>1, SniffNextIs

\* A packet arrives.
LEMMA ConnectKeeps ==
    ASSUME SniffInv, NEW ip \in IP, Connect(ip)
    PROVE  SniffInv'
<1>1. PICK time \in 0 .. MaxTime, port \in 1 .. Len(syns) + 1 :
          /\ IF syns = << >> THEN time = 0 ELSE syns[Len(syns)].time <= time
          /\ syns' = Append(syns, [ip |-> ip, time |-> time, port |-> port])
  BY DEF Connect
<1>2. UNCHANGED sniffer
  BY DEF Connect
<1> DEFINE x == [ip |-> ip, time |-> time, port |-> port]
<1>3. syns \in Seq(Syn) /\ Sorted(syns)
  BY DEF SniffInv
<1>4. x \in Syn /\ x.time = time
  BY <1>3 DEF Syn
<1> HIDE DEF x
<1>5. syns' = Append(syns, x)
  BY <1>1 DEF x
<1>6. /\ syns' \in Seq(Syn) /\ Len(syns') = Len(syns) + 1 /\ Len(syns) \in Nat
      /\ \A k \in 1 .. Len(syns) : syns'[k] = syns[k]
      /\ syns'[Len(syns) + 1] = x
  BY <1>3, <1>4, <1>5
<1>7. \A k \in DOMAIN syns : syns[k].time <= time /\ syns[k].time \in Nat
  <2>1. \A k \in DOMAIN syns : syns[k].time \in Nat
    BY <1>3, SynTimes
  <2>2. CASE syns = << >>
    BY <2>2
  <2>3. CASE syns # << >>
    <3>1. Len(syns) \in DOMAIN syns /\ \A k \in DOMAIN syns : k <= Len(syns)
      BY <1>3, <2>3
    <3>2. \A k \in DOMAIN syns : syns[k].time <= syns[Len(syns)].time
      BY <1>3, <3>1 DEF Sorted
    <3>3. syns[Len(syns)].time <= time /\ time \in Int
      BY <1>1, <2>3, LifecycleAssumption
    <3> QED
      BY <2>1, <3>1, <3>2, <3>3
  <2> QED
    BY <2>2, <2>3
<1>8. Sorted(syns')
  <2> SUFFICES ASSUME NEW j \in 1 .. Len(syns) + 1, NEW k \in 1 .. Len(syns) + 1, j <= k
               PROVE  syns'[j].time <= syns'[k].time
    BY <1>6 DEF Sorted
  <2>1. CASE k \in 1 .. Len(syns)
    <3>1. j \in 1 .. Len(syns) /\ {j, k} \subseteq DOMAIN syns
      BY <1>3, <1>6, <2>1
    <3> QED
      BY <1>3, <1>6, <2>1, <3>1 DEF Sorted
  <2>2. CASE k = Len(syns) + 1 /\ j \in 1 .. Len(syns)
    <3>1. j \in DOMAIN syns
      BY <1>3, <2>2
    <3> QED
      BY <1>4, <1>6, <1>7, <2>2, <3>1
  <2>3. CASE k = Len(syns) + 1 /\ j = k
    <3>1. time \in Int /\ time <= time
      <4>1. time \in Int
        BY LifecycleAssumption
      <4> QED
        BY <4>1
    <3>2. syns'[Len(syns) + 1].time = time
      BY <1>4, <1>6, Zenon
    <3>3. syns'[j].time = time /\ syns'[k].time = time
      <4>1. j = Len(syns) + 1 /\ k = Len(syns) + 1
        BY <2>3
      <4> QED
        BY <3>2, <4>1, Zenon
    <3> QED
      BY <3>1, <3>3
  <2> QED
    BY <1>6, <2>1, <2>2, <2>3
<1>9. ASSUME NEW i \in Run, sniffer[i].state = "run"
      PROVE  /\ sniffer[i] \in Sniffer
             /\ sniffer[i].from <= sniffer[i].pos /\ sniffer[i].pos <= Len(syns')
             /\ \A a \in IP : Tallied(syns', sniffer[i], a)
  <2>1. /\ sniffer[i] \in Sniffer
        /\ sniffer[i].from <= sniffer[i].pos /\ sniffer[i].pos <= Len(syns)
        /\ \A a \in IP : Tallied(syns, sniffer[i], a)
    BY <1>9 DEF SniffInv
  <2>2. sniffer[i].pos \in Nat
    BY <2>1 DEF Sniffer
  <2> QED
    BY <1>3, <1>4, <1>5, <1>6, <2>1, <2>2, MorePackets
<1>10. SniffNext
  BY <1>2, <1>6, <1>8, <1>9 DEF SniffNext, SniffInv
<1> QED
  BY <1>10, SniffNextIs

\* A sniffer is started, and has seen nothing.
LEMMA StartKeeps ==
    ASSUME SniffInv, StartDyn4
    PROVE  SniffInv'
<1>1. sniffer' = [sniffer EXCEPT ![started] = NewSniffer] /\ UNCHANGED syns
  BY DEF StartDyn4, Dyn4Command, traffic
<1>2. syns \in Seq(Syn) /\ Sorted(syns) /\ DOMAIN sniffer = Run
  BY DEF SniffInv
<1>3. /\ NewSniffer \in Sniffer /\ "state" \in DOMAIN NewSniffer
      /\ NewSniffer.from = Len(syns) /\ NewSniffer.pos = Len(syns)
      /\ NewSniffer.blacklisted = {} /\ \A ip \in IP : NewSniffer.data[ip] = NoData
  BY <1>2 DEF NewSniffer, Sniffer
<1>4. ASSUME NEW ip \in IP PROVE Tallied(syns, NewSniffer, ip)
  <2>1. Len(syns) + 1 .. Len(syns) = {}
    BY <1>2
  <2>2. Ports(syns, Len(syns), Len(syns), ip) = {} /\ Firsts(syns, Len(syns), Len(syns), ip) = {}
    BY <2>1 DEF Ports, Firsts
  <2> QED
    BY <1>3, <2>2 DEF Tallied, Sound
<1>5. Len(syns) <= Len(syns)
  BY <1>2
<1> HIDE DEF NewSniffer
<1>6. SniffNext
  BY <1>1, <1>2, <1>3, <1>4, <1>5 DEF SniffNext, SniffInv
<1> QED
  BY <1>6, SniffNextIs

LEMMA KillKeeps ==
    ASSUME SniffInv, KillRest
    PROVE  SniffInv'
<1>1. sniffer' = [i \in Run |-> Dead(sniffer[i])] /\ UNCHANGED syns
  BY DEF KillRest, traffic
<1>2. \A i \in Run : "state" \in DOMAIN sniffer[i]
  BY DEF SniffInv
<1>3. \A i \in Run : "state" \in DOMAIN sniffer'[i] /\ sniffer'[i].state # "run"
  BY <1>1, <1>2 DEF Dead, Alive
<1>4. SniffNext
  BY <1>1, <1>3 DEF SniffNext, SniffInv
<1> QED
  BY <1>4, SniffNextIs

LEMMA SniffKeeps ==
    ASSUME SniffInv, NEW i \in Run, Sniff(i)
    PROVE  SniffInv'
<1> DEFINE s == sniffer[i]
           syn == syns[s.pos + 1]
           d == s.data[syn.ip]
           breaks == ~ whole /\ Compared(d, syn.time, syn.port) # {}
           convict == ~ breaks /\ Convicts(d, syn.time, syn.port) /\ syn.ip \notin s.blacklisted
           r == [s EXCEPT !.pos = @ + 1,
                          !.state = IF breaks THEN "dead" ELSE @,
                          !.data[syn.ip] = dyn4(@, syn.time, syn.port),
                          !.blacklisted = IF convict THEN @ \cup {syn.ip} ELSE @]
<1>1. /\ s.state = "run" /\ s.pos < Len(syns) /\ UNCHANGED syns
      /\ sniffer' = [sniffer EXCEPT
             ![i].pos = @ + 1,
             ![i].state = IF breaks THEN "dead" ELSE @,
             ![i].data[syn.ip] = dyn4(@, syn.time, syn.port),
             ![i].blacklisted = IF convict THEN @ \cup {syn.ip} ELSE @]
  BY DEF Sniff, traffic
<1>2. /\ syns \in Seq(Syn) /\ Sorted(syns) /\ DOMAIN sniffer = Run
      /\ \A j \in Run : "state" \in DOMAIN sniffer[j]
      /\ s \in Sniffer /\ s.from <= s.pos
      /\ \A ip \in IP : Tallied(syns, s, ip)
  BY <1>1 DEF SniffInv
<1>3. sniffer' = [sniffer EXCEPT ![i] = r]
  <2> DEFINE data == dyn4(d, syn.time, syn.port)
  <2>1. sniffer' = [sniffer EXCEPT
             ![i].pos = @ + 1,
             ![i].state = IF breaks THEN "dead" ELSE @,
             ![i].data[syn.ip] = data,
             ![i].blacklisted = IF convict THEN @ \cup {syn.ip} ELSE @]
    BY <1>1
  <2>2. r = [s EXCEPT !.pos = @ + 1,
                      !.state = IF breaks THEN "dead" ELSE @,
                      !.data[syn.ip] = data,
                      !.blacklisted = IF convict THEN @ \cup {syn.ip} ELSE @]
    OBVIOUS
  <2> HIDE DEF breaks, convict, d, syn, data, r
  <2> QED
    BY <2>1, <2>2, ZenonT(40)
<1>4. /\ s.pos \in Nat /\ s.from \in Nat /\ s.data \in [IP -> Data \cup {NoData}]
      /\ s.blacklisted \subseteq IP
      /\ syn.ip \in IP /\ syn.time \in Nat /\ syn.port \in Nat
  <2>1. s.pos \in Nat
    BY <1>2 DEF Sniffer
  <2>2. s.pos + 1 \in DOMAIN syns
    <3>1. s.pos < Len(syns) /\ syns \in Seq(Syn)
      BY <1>1, <1>2
    <3> HIDE DEF s
    <3> QED
      BY <2>1, <3>1
  <2>3. syn \in Syn /\ syn.time \in Nat /\ syn.port \in Nat
    BY <1>2, <2>2, SynTimes
  <2> QED
    BY <1>2, <2>1, <2>3 DEF Sniffer, Syn
<1>5. d \in Data \cup {NoData}
  BY <1>4
<1>6. dyn4(d, syn.time, syn.port) \in Data
  BY <1>4, <1>5, DataType
<1> HIDE DEF s, syn, breaks, d, convict
<1>7. /\ r \in Sniffer /\ r.from = s.from /\ r.pos = s.pos + 1 /\ "state" \in DOMAIN r
      /\ r.state = IF breaks THEN "dead" ELSE "run"
      /\ r.data = [s.data EXCEPT ![syn.ip] = dyn4(@, syn.time, syn.port)]
      /\ r.blacklisted = IF convict THEN s.blacklisted \cup {syn.ip} ELSE s.blacklisted
  <2>1. d = s.data[syn.ip]
    BY DEF d
  <2>2. DOMAIN s = {"state", "pos", "from", "data", "blacklisted"}
    BY <1>2 DEF Sniffer
  <2>3. /\ r.from = s.from /\ r.pos = s.pos + 1
        /\ r.state = IF breaks THEN "dead" ELSE "run"
        /\ r.data = [s.data EXCEPT ![syn.ip] = dyn4(@, syn.time, syn.port)]
        /\ r.blacklisted = IF convict THEN s.blacklisted \cup {syn.ip} ELSE s.blacklisted
    BY <1>1, <2>2
  <2>4. [s.data EXCEPT ![syn.ip] = dyn4(@, syn.time, syn.port)] \in [IP -> Data \cup {NoData}]
    BY <1>4, <1>6, <2>1
  <2>5. (IF convict THEN s.blacklisted \cup {syn.ip} ELSE s.blacklisted) \in SUBSET IP
    BY <1>4
  <2>6. s.pos + 1 \in Nat /\ s.from \in Nat
    BY <1>4
  <2>7. r \in Sniffer
    BY <1>1, <1>2, <2>3, <2>4, <2>5, <2>6 DEF Sniffer
  <2>8. "state" \in DOMAIN r
    BY <2>7 DEF Sniffer
  <2> QED
    BY <2>3, <2>7, <2>8
<1> HIDE DEF r
<1>8. ASSUME r.state = "run"
      PROVE  \A ip \in IP : Tallied(syns, r, ip)
  <2>1. ~ breaks
    BY <1>7, <1>8
  <2> TAKE ip \in IP
  <2>2. r.data[ip] = IF ip = syn.ip THEN dyn4(s.data[ip], syn.time, syn.port) ELSE s.data[ip]
    BY <1>4, <1>7
  <2>3. ip \in r.blacklisted <=>
            ip \in s.blacklisted \/ (ip = syn.ip /\ Convicts(s.data[ip], syn.time, syn.port))
    BY <1>7, <2>1 DEF convict, d
  <2> QED
    BY <1>1, <1>2, <1>7, <2>2, <2>3, PacketTallied DEF syn
<1>9. s.pos + 1 <= Len(syns) /\ s.from <= s.pos + 1
  BY <1>1, <1>2, <1>4
<1>10. SniffNext
  <2>1. /\ DOMAIN sniffer' = Run
        /\ sniffer'[i] = r /\ \A j \in Run \ {i} : sniffer'[j] = sniffer[j]
    BY <1>2, <1>3
  <2>2. syns' = syns
    BY <1>1
  <2>3. ASSUME NEW j \in Run
        PROVE  /\ "state" \in DOMAIN sniffer'[j]
               /\ sniffer'[j].state = "run" =>
                     /\ sniffer'[j] \in Sniffer
                     /\ sniffer'[j].from <= sniffer'[j].pos /\ sniffer'[j].pos <= Len(syns')
                     /\ \A ip \in IP : Tallied(syns', sniffer'[j], ip)
    <3>1. CASE j = i
      BY <1>7, <1>8, <1>9, <2>1, <2>2, <3>1
    <3>2. CASE j # i
      <4>1. sniffer'[j] = sniffer[j]
        BY <2>1, <3>2
      <4> QED
        BY <2>2, <4>1 DEF SniffInv
    <3> QED
      BY <3>1, <3>2
  <2> QED
    BY <1>2, <2>1, <2>2, <2>3 DEF SniffNext
<1> QED
  BY <1>10, SniffNextIs

LEMMA SniffInitially == Init => SniffInv
BY DEF Init, SniffInv, Sorted, NoProcess

LEMMA SniffInductive == SniffInv /\ [Next]_vars => SniffInv'
<1> SUFFICES ASSUME SniffInv, [Next]_vars PROVE SniffInv'
  OBVIOUS
<1>1. CASE StartDyn4
  BY <1>1, StartKeeps
<1>2. CASE KillRest
  BY <1>2, KillKeeps
<1>3. ASSUME NEW i \in Run, Sniff(i) PROVE SniffInv'
  BY <1>3, SniffKeeps
<1>4. ASSUME NEW ip \in IP, Connect(ip) PROVE SniffInv'
  BY <1>4, ConnectKeeps
<1>5. CASE triggerFrade \/ OrderStop \/ (\E ip \in IP : Visit(ip)) \/ UNCHANGED vars
  <2>1. UNCHANGED << syns, sniffer >>
    BY <1>5 DEF triggerFrade, OrderStop, Visit, traffic, vars
  <2> QED
    BY <2>1, SniffSame
<1>6. CASE start_frade \/ StartBldyn4 \/ KillLoops
  <2>1. UNCHANGED << syns, sniffer >>
    BY <1>6 DEF start_frade, RemovePipe, FlushRules, DestroySet, StartRsyslog, StartBlacklistd,
                FradeCommand, StartBldyn4, Dyn4Command, KillLoops, traffic
  <2> QED
    BY <2>1, SniffSame
<1>7. CASE \E i \in Run : Loop(i)
  <2>1. UNCHANGED << syns, sniffer >>
    BY <1>7 DEF Loop, OpenPipe, PipeOpened, ReadLine, traffic
  <2> QED
    BY <2>1, SniffSame
<1>8. CASE \E i \in Run, r \in Role : readPipe(r, i) \/ blacklist(r, i)
  <2>1. UNCHANGED << syns, sniffer >>
    <3> SUFFICES ASSUME NEW i \in Run, NEW r \in Role, readPipe(r, i) \/ blacklist(r, i)
                 PROVE  UNCHANGED << traffic, sniffer >>
      BY <1>8 DEF traffic
    <3>1. MakePipe(r, i) => UNCHANGED << traffic, sniffer >>
      BY DEF MakePipe
    <3>2. ReadPipe(r, i) => UNCHANGED << traffic, sniffer >>
      BY DEF ReadPipe
    <3>3. blacklist(r, i) => UNCHANGED << traffic, sniffer >>
      BY DEF blacklist, CreateSet, MakeRule, AddMember
    <3> QED
      BY <3>1, <3>2, <3>3 DEF readPipe
  <2> QED
    BY <2>1, SniffSame
<1> QED
  BY <1>1, <1>2, <1>3, <1>4, <1>5, <1>6, <1>7, <1>8 DEF Next, Scripts, start_dyn4, stop_frade, Process

\* A sniffer convicts an address only for connections from enough different
\* ports within some window's length, and lets an address go on only while it
\* opens fewer than twice as many in any such length: for any windows and
\* thresholds, however often the sniffers are killed and started, and whatever
\* the packets before a sniffer's start.
THEOREM SniffsJustly == Spec => []SniffedJustly
<1>1. SniffInv => SniffedJustly
  <2> SUFFICES ASSUME SniffInv, NEW i \in Run, NEW ip \in IP, sniffer[i].state = "run"
               PROVE  IF ip \in sniffer[i].blacklisted
                      THEN \E w \in Windows, t \in 0 .. MaxTime :
                              Cardinality(Within(New(i, ip), t, w)) >= thresholds[w]
                      ELSE \A w \in Windows, t \in 0 .. MaxTime :
                              Cardinality(Within(New(i, ip), t, w)) <= 2 * (thresholds[w] - 1)
    BY DEF SniffedJustly
  <2> DEFINE s == sniffer[i]
             N == Firsts(syns, s.from, s.pos, ip)
  <2>1. s \in Sniffer /\ syns \in Seq(Syn) /\ s.pos <= Len(syns) /\ Tallied(syns, s, ip)
    BY DEF SniffInv
  <2>2. New(i, ip) = N
    BY DEF New, Firsts, Ports
  <2>3. N \subseteq DOMAIN syns
    <3>1. s.from \in Nat /\ s.pos \in Nat
      BY <2>1 DEF Sniffer
    <3> QED
      BY <2>1, <3>1 DEF Firsts
  <2>4. \A w \in Windows, t \in 0 .. MaxTime :
            Within(New(i, ip), t, w) = Span(syns, N, t, t + winSizes[w] - 1)
    <3>1. \A k \in N : syns[k].time \in Nat
      BY <2>1, <2>3, SynTimes
    <3> HIDE DEF N
    <3>2. ASSUME NEW w \in Windows, NEW t \in 0 .. MaxTime
          PROVE  Within(N, t, w) = Span(syns, N, t, t + winSizes[w] - 1)
      BY <3>1, WindowType, LifecycleAssumption DEF Within, Span
    <3> QED
      BY <2>2, <3>2
  <2>5. CASE s.data[ip] = NoData
    <3>1. N = {} /\ ip \notin s.blacklisted
      BY <2>1, <2>5 DEF Tallied, Sound
    <3>2. ASSUME NEW w \in Windows, NEW t \in 0 .. MaxTime
          PROVE  Cardinality(Within(New(i, ip), t, w)) <= 2 * (thresholds[w] - 1)
      <4>1. Within(New(i, ip), t, w) = {}
        BY <2>2, <3>1 DEF Within
      <4>2. Cardinality(Within(New(i, ip), t, w)) = 0
        BY <4>1, FS_EmptySet
      <4>3. 0 <= 2 * (thresholds[w] - 1)
        BY WindowType
      <4> QED
        BY <4>2, <4>3
    <3> QED
      BY <3>1, <3>2
  <2>6. CASE s.data[ip] # NoData
    <3>1. IF ip \in s.blacklisted THEN Crowded(syns, N)
          ELSE \A w \in Windows : Calm(syns, N, w, s.data[ip].starts[w], s.data[ip].counts[w])
      BY <2>1, <2>6 DEF Tallied, Sound
    <3>2. 0 .. MaxTime \subseteq Nat
      BY LifecycleAssumption
    <3> HIDE DEF N
    <3> QED
      BY <2>4, <3>1, <3>2 DEF Crowded, Calm
  <2> QED
    BY <2>5, <2>6
<1> QED
  BY <1>1, SniffInitially, SniffInductive, PTL DEF Spec
=============================================================================
