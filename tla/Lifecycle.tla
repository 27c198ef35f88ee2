------------------------------ MODULE Lifecycle ------------------------------
(***************************************************************************)
(* The processes of the defence as the attack detector's scripts start and *)
(* stop them: start_frade.sh, start_dyn4.sh and stop_frade.sh, which run   *)
(* in the background; the log loops and daemons of FRADE; the sniffers and *)
(* daemons of dyn4 (dyn4/dyn4.py, dyn4/bldyn4.py); their pipes; and the    *)
(* firewall.  A start leaves the processes of the last one running, so     *)
(* there may be several of each: number i is that of the i-th start.       *)
(*                                                                         *)
(* What a log loop does with a line is FRADE's affair; here an address is  *)
(* guilty by its number of lines.  What a daemon does between taking an    *)
(* address and adding it is Blacklistd's.                                  *)
(***************************************************************************)
EXTENDS Orders, Dyn4, FiniteSetsExt

CONSTANTS
    IP,
    Threshold,       \* the lines that convict an address
    Options,         \* what the detector is started with: "frade", "dyn4"
    Versions,        \* the versions of the log loop
    Lines,           \* the lines there may be: their number of words and their status
    Starts,          \* bound: the starts in all
    MaxLines, MaxSyns, MaxTime   \* bounds: lines, connection requests, time

ASSUME LifecycleAssumption ==
    /\ \A o \in Options : o \subseteq {"frade", "dyn4"}
    /\ Versions \subseteq {"rsyslog", "rsyslog_tb", "rsyslog-server", "rsyslog_some_ver"}
    /\ {Threshold, Starts, MaxLines, MaxSyns, MaxTime} \subseteq Nat \ {0}

Run == 1 .. Starts
Role == {"frade", "dyn4"}

VARIABLES
    options, version, whole,   \* the command line; whether dyn.conf has whole numbers
    started, killed,           \* starts in all; whether a stop killed any since the last
    frade_script, dyn4_script, \* the commands the start scripts still have to run
    asleep, killing,           \* stop scripts in their sleep; between their two kills
    access_log, syns,          \* the web server's log; the packets tcpdump has seen
    path, inodes,              \* by role: the pipe's file; the files there were
    loop, sniffer, daemon,     \* the processes
    set_exists, members, rule  \* the firewall

orders == << since, stops, started, killed >>
scripts == << frade_script, dyn4_script, asleep, killing >>
traffic == << access_log, syns >>
pipes == << path, inodes >>
firewall == << set_exists, members, rule >>
params == << options, version, whole >>
vars == << params, orders, scripts, traffic, pipes, loop, sniffer, daemon, firewall >>

NoProcess == [state |-> "off"]
NewLoop == [state |-> "open", file |-> 0, p |-> 0, blacklist |-> {}]
NewSniffer ==
    [ state |-> "run", pos |-> Len(syns), from |-> Len(syns),
      data |-> [ip \in IP |-> NoData], blacklisted |-> {} ]
NewDaemon ==
    [ state |-> "mkfifo", setup |-> "create", file |-> 0, pos |-> 0, noted |-> {}, q |-> {} ]

Alive(process) == process.state \notin {"off", "dead"}
Dropped(ip) == set_exists /\ rule /\ ip \in members

Init ==
    /\ OrdersInit
    /\ options \in Options
    /\ version \in IF "frade" \in options THEN Versions ELSE {"rsyslog"}
    /\ whole \in IF "dyn4" \in options THEN BOOLEAN ELSE {TRUE}
    /\ started = 0 /\ killed = FALSE
    /\ frade_script = << >> /\ dyn4_script = << >>
    /\ asleep = 0 /\ killing = 0
    /\ access_log = << >> /\ syns = << >>
    /\ path = [r \in Role |-> 0]
    /\ inodes = [r \in Role |-> << >>]
    /\ loop = [i \in Run |-> NoProcess]
    /\ sniffer = [i \in Run |-> NoProcess]
    /\ daemon = [r \in Role |-> [i \in Run |-> NoProcess]]
    /\ set_exists = FALSE /\ members = {} /\ rule = FALSE

-----------------------------------------------------------------------------
(* The detector's orders. *)

\* The start scripts are done and what they started has opened its pipe and set
\* up the firewall.
Settled ==
    /\ frade_script = << >> /\ dyn4_script = << >>
    /\ \A i \in Run : loop[i].state # "open"
    /\ \A r \in Role, i \in Run :
          Alive(daemon[r][i]) => daemon[r][i].state = "run" /\ daemon[r][i].setup = "add"

\* triggerFrade.  Triggers are a second apart at least, which is taken to be long
\* enough for the last start to settle.
triggerFrade ==
    /\ Start /\ started < Starts /\ Settled
    /\ started' = started + 1
    /\ killed' = FALSE
    /\ frade_script' = IF "frade" \in options
                       THEN << "rm", "iptables -F", "ipset -X", "rsyslog", "blacklistd" >>
                       ELSE << >>
    /\ dyn4_script' = IF "dyn4" \in options THEN << "bldyn4", "dyn4" >> ELSE << >>
    /\ UNCHANGED << params, asleep, killing, traffic, pipes, loop, sniffer, daemon, firewall >>

\* detect stops the defence: stop_frade.sh begins, and sleeps for ten seconds.  The
\* stops of detect_stop are the take-a-break proxy's and no orders for the defence.
OrderStop ==
    /\ Stop
    /\ asleep' = asleep + 1
    /\ UNCHANGED << params, started, killed, frade_script, dyn4_script, killing, traffic, pipes,
                    loop, sniffer, daemon, firewall >>

-----------------------------------------------------------------------------
(* The scripts. *)
FradeCommand(command) ==
    /\ frade_script # << >> /\ Head(frade_script) = command
    /\ frade_script' = Tail(frade_script)
    /\ UNCHANGED << params, orders, dyn4_script, asleep, killing, traffic, inodes, sniffer >>

\* Mutant: the pipe of the last start is kept.
RemovePipeNot ==
    /\ FradeCommand("rm")
    /\ UNCHANGED << path, loop, daemon, firewall >>

RemovePipe ==
    /\ FradeCommand("rm")
    /\ path' = [path EXCEPT !["frade"] = 0]
    /\ UNCHANGED << loop, daemon, firewall >>

FlushRules ==
    /\ FradeCommand("iptables -F")
    /\ rule' = FALSE
    /\ UNCHANGED << path, loop, daemon, set_exists, members >>

\* A set that a rule refers to cannot be destroyed.
DestroySet ==
    /\ FradeCommand("ipset -X")
    /\ set_exists' = (set_exists /\ rule)
    /\ members' = IF rule THEN members ELSE {}
    /\ UNCHANGED << path, loop, daemon, rule >>

StartRsyslog ==
    /\ FradeCommand("rsyslog")
    /\ loop' = [loop EXCEPT ![started] = NewLoop]
    /\ UNCHANGED << path, daemon, firewall >>

StartBlacklistd ==
    /\ FradeCommand("blacklistd")
    /\ daemon' = [daemon EXCEPT !["frade"][started] = NewDaemon]
    /\ UNCHANGED << path, loop, firewall >>

start_frade == RemovePipe \/ FlushRules \/ DestroySet \/ StartRsyslog \/ StartBlacklistd

Dyn4Command(command) ==
    /\ dyn4_script # << >> /\ Head(dyn4_script) = command
    /\ dyn4_script' = Tail(dyn4_script)
    /\ UNCHANGED << params, orders, frade_script, asleep, killing, traffic, pipes, loop,
                    firewall >>

StartBldyn4 ==
    /\ Dyn4Command("bldyn4")
    /\ daemon' = [daemon EXCEPT !["dyn4"][started] = NewDaemon]
    /\ UNCHANGED sniffer

\* The script sleeps for a second, in which the daemon makes its pipe.
StartDyn4 ==
    /\ Dyn4Command("dyn4")
    /\ daemon["dyn4"][started].state # "mkfifo"
    /\ sniffer' = [sniffer EXCEPT ![started] = NewSniffer]
    /\ UNCHANGED daemon

start_dyn4 == StartBldyn4 \/ StartDyn4

Dead(process) == IF Alive(process) THEN [process EXCEPT !.state = "dead"] ELSE process

\* stop_frade.sh, after its sleep: pkill rsyslog.
KillLoops ==
    /\ asleep > 0
    /\ asleep' = asleep - 1
    /\ killing' = killing + 1
    /\ loop' = [i \in Run |-> Dead(loop[i])]
    /\ killed' = TRUE
    /\ UNCHANGED << params, since, stops, started, frade_script, dyn4_script, traffic, pipes,
                    sniffer, daemon, firewall >>

\* Then every process with black or dyn4 in its name: start_dyn4.sh too.
KillRest ==
    /\ killing > 0
    /\ killing' = killing - 1
    /\ daemon' = [r \in Role |-> [i \in Run |-> Dead(daemon[r][i])]]
    /\ sniffer' = [i \in Run |-> Dead(sniffer[i])]
    /\ dyn4_script' = << >>
    /\ killed' = TRUE
    /\ UNCHANGED << params, since, stops, started, frade_script, asleep, traffic, pipes, loop,
                    firewall >>

stop_frade == KillLoops \/ KillRest

-----------------------------------------------------------------------------
(* Pipes: a file is a fifo or, if a writer was there first, a regular file. *)
NewFile(r, fifo) ==
    /\ inodes' = [inodes EXCEPT ![r] = Append(@, [fifo |-> fifo, lines |-> << >>])]
    /\ path' = [path EXCEPT ![r] = Len(inodes[r]) + 1]

\* A daemon reads the file, or will when its open returns.
HasReader(r, f) == \E i \in Run : Alive(daemon[r][i]) /\ daemon[r][i].file = f

PutLine(r, f, ip) == inodes' = [inodes EXCEPT ![r][f].lines = Append(@, ip)]

-----------------------------------------------------------------------------
(* The log loop: rsyslog.cpp and its versions. *)

\* The lines a version hands to its engine: all of them, those that are not
\* redirections, or the well-formed ones among these.
rsyslog(l) == TRUE
rsyslog_tb(l) == TRUE
rsyslog_some_ver(l) == l.status # 301
rsyslog_server(l) == l.tokens = 7 /\ l.status # 301

Passes(l) ==
    CASE version = "rsyslog" -> rsyslog(l)
      [] version = "rsyslog_tb" -> rsyslog_tb(l)
      [] version = "rsyslog_some_ver" -> rsyslog_some_ver(l)
      [] version = "rsyslog-server" -> rsyslog_server(l)

LinesOf(ip, n) == {k \in 1 .. n : access_log[k].ip = ip /\ Passes(access_log[k])}
Guilty(ip, n) == Cardinality(LinesOf(ip, n)) >= Threshold

\* configure opens the pipe for writing: without a file there it makes a regular
\* one, and with a fifo there it waits for a reader.
OpenPipe(i) ==
    /\ loop[i].state = "open"
    /\ IF path["frade"] = 0
       THEN /\ NewFile("frade", FALSE)
            /\ loop' = [loop EXCEPT ![i].state = "run", ![i].file = path'["frade"]]
       ELSE /\ loop' = [loop EXCEPT ![i].state = "wait", ![i].file = path["frade"]]
            /\ UNCHANGED pipes
    /\ UNCHANGED << params, orders, scripts, traffic, sniffer, daemon, firewall >>

PipeOpened(i) ==
    /\ loop[i].state = "wait" /\ HasReader("frade", loop[i].file)
    /\ loop' = [loop EXCEPT ![i].state = "run"]
    /\ UNCHANGED << params, orders, scripts, traffic, pipes, sniffer, daemon, firewall >>

\* A line is read from the position p, which is 0 at the start of the process; a
\* guilty address is written to the pipe once.  A write to a fifo without a reader
\* ends the process.
ReadLine(i) ==
    /\ loop[i].state = "run" /\ loop[i].p < Len(access_log)
    /\ LET l == loop[i]
           ip == access_log[l.p + 1].ip
           convict == Guilty(ip, l.p + 1) /\ ip \notin l.blacklist
           file == inodes["frade"][l.file]
           broken == convict /\ file.fifo /\ ~ HasReader("frade", l.file)
       IN  /\ loop' = [loop EXCEPT ![i].p = @ + 1,
                                   ![i].state = IF broken THEN "dead" ELSE @,
                                   ![i].blacklist = IF convict THEN @ \cup {ip} ELSE @]
           /\ IF convict /\ ~ broken THEN PutLine("frade", l.file, ip) ELSE UNCHANGED inodes
    /\ UNCHANGED << params, orders, scripts, traffic, path, sniffer, daemon, firewall >>

Loop(i) == OpenPipe(i) \/ PipeOpened(i) \/ ReadLine(i)

-----------------------------------------------------------------------------
(* The sniffer: dyn4/dyn4.py. *)

\* A packet.  The pipe is opened for each address that is convicted, which waits
\* for a reader.  A threshold that is not a whole number ends the process when it
\* is compared with.
Sniff(i) ==
    /\ sniffer[i].state = "run" /\ sniffer[i].pos < Len(syns)
    /\ LET s == sniffer[i]
           syn == syns[s.pos + 1]
           d == s.data[syn.ip]
           breaks == ~ whole /\ Compared(d, syn.time, syn.port) # {}
           convict == /\ ~ breaks
                      /\ Convicts(d, syn.time, syn.port) /\ syn.ip \notin s.blacklisted
       IN  /\ convict => HasReader("dyn4", path["dyn4"])
           /\ sniffer' = [sniffer EXCEPT
                 ![i].pos = @ + 1,
                 ![i].state = IF breaks THEN "dead" ELSE @,
                 ![i].data[syn.ip] = dyn4(@, syn.time, syn.port),
                 ![i].blacklisted = IF convict THEN @ \cup {syn.ip} ELSE @]
           /\ IF convict THEN PutLine("dyn4", path["dyn4"], syn.ip) ELSE UNCHANGED inodes
    /\ UNCHANGED << params, orders, scripts, traffic, path, loop, daemon, firewall >>

-----------------------------------------------------------------------------
(* The daemons: blacklistd.py and dyn4/bldyn4.py. *)

\* readPipe makes the fifo unless there is a file, and opens what there is.
MakePipe(r, i) ==
    /\ daemon[r][i].state = "mkfifo"
    /\ IF path[r] = 0 THEN NewFile(r, TRUE) ELSE UNCHANGED pipes
    /\ daemon' = [daemon EXCEPT ![r][i].state = "run", ![r][i].file = path'[r]]
    /\ UNCHANGED << params, orders, scripts, traffic, loop, sniffer, firewall >>

\* Mutant: an address is noted before it is looked up, and so never queued.
ReadPipeNotesFirst(r, i) ==
    /\ daemon[r][i].state = "run"
    /\ LET d == daemon[r][i]
           file == inodes[r][d.file]
       IN  /\ d.pos < Len(file.lines)
           /\ daemon' = [daemon EXCEPT ![r][i].pos = IF file.fifo THEN 0 ELSE @ + 1,
                                       ![r][i].noted = @ \cup {file.lines[d.pos + 1]}]
           /\ inodes' = IF file.fifo THEN [inodes EXCEPT ![r][d.file].lines = Tail(@)] ELSE inodes
    /\ UNCHANGED << params, orders, scripts, traffic, path, loop, sniffer, firewall >>

\* A line of a fifo goes to one reader, of a regular file to every one.
ReadPipe(r, i) ==
    /\ daemon[r][i].state = "run"
    /\ LET d == daemon[r][i]
           file == inodes[r][d.file]
           fresh(ip) == IF ip \in d.noted THEN {} ELSE {ip}
           ip == file.lines[d.pos + 1]
       IN  /\ d.pos < Len(file.lines)
           /\ daemon' = [daemon EXCEPT ![r][i].pos = IF file.fifo THEN 0 ELSE @ + 1,
                                       ![r][i].noted = @ \cup {ip},
                                       ![r][i].q = @ \cup fresh(ip)]
           /\ inodes' = IF file.fifo THEN [inodes EXCEPT ![r][d.file].lines = Tail(@)] ELSE inodes
    /\ UNCHANGED << params, orders, scripts, traffic, path, loop, sniffer, firewall >>

\* Mutant: the rule is made before its set.
CreateSetLate(r, i) ==
    /\ Alive(daemon[r][i]) /\ daemon[r][i].setup = "create"
    /\ set_exists' = TRUE
    /\ rule' = (rule \/ set_exists)
    /\ daemon' = [daemon EXCEPT ![r][i].setup = "add"]
    /\ UNCHANGED << params, orders, scripts, traffic, pipes, loop, sniffer, members >>

\* blacklist makes the set unless there is one, and the rule, which fails without
\* a set; then it adds addresses, which fails without a set too.
CreateSet(r, i) ==
    /\ Alive(daemon[r][i]) /\ daemon[r][i].setup = "create"
    /\ set_exists' = TRUE
    /\ daemon' = [daemon EXCEPT ![r][i].setup = "rule"]
    /\ UNCHANGED << params, orders, scripts, traffic, pipes, loop, sniffer, members, rule >>

MakeRule(r, i) ==
    /\ Alive(daemon[r][i]) /\ daemon[r][i].setup = "rule"
    /\ rule' = (rule \/ set_exists)
    /\ daemon' = [daemon EXCEPT ![r][i].setup = "add"]
    /\ UNCHANGED << params, orders, scripts, traffic, pipes, loop, sniffer, set_exists,
                    members >>

AddMember(r, i) ==
    /\ Alive(daemon[r][i]) /\ daemon[r][i].setup = "add"
    /\ \E ip \in daemon[r][i].q :
         /\ daemon' = [daemon EXCEPT ![r][i].q = @ \ {ip}]
         /\ members' = IF set_exists THEN members \cup {ip} ELSE members
    /\ UNCHANGED << params, orders, scripts, traffic, pipes, loop, sniffer, set_exists, rule >>

readPipe(r, i) == MakePipe(r, i) \/ ReadPipe(r, i)
blacklist(r, i) == CreateSet(r, i) \/ MakeRule(r, i) \/ AddMember(r, i)

-----------------------------------------------------------------------------
(* The clients: a dropped address does not reach the web server, but tcpdump *)
(* sees its packets. *)
Visit(ip) ==
    /\ ~ Dropped(ip) /\ Len(access_log) < MaxLines /\ "frade" \in options
    /\ \E kind \in Lines :
         access_log' = Append(access_log, [ip |-> ip, tokens |-> kind[1], status |-> kind[2]])
    /\ UNCHANGED << params, orders, scripts, syns, pipes, loop, sniffer, daemon, firewall >>

\* Times are those since the first packet, and ports are numbered in the order of
\* their first use; packets that no sniffer sees are left out.
Connect(ip) ==
    /\ Len(syns) < MaxSyns /\ \E i \in Run : Alive(sniffer[i])
    /\ \E time \in 0 .. MaxTime, port \in 1 .. Len(syns) + 1 :
         /\ IF syns = << >> THEN time = 0 ELSE syns[Len(syns)].time <= time
         /\ port > 1 => \E k \in DOMAIN syns : syns[k].port = port - 1
         /\ syns' = Append(syns, [ip |-> ip, time |-> time, port |-> port])
    /\ UNCHANGED << params, orders, scripts, access_log, pipes, loop, sniffer, daemon,
                    firewall >>

Process(i) ==
    \/ Loop(i) \/ Sniff(i)
    \/ \E r \in Role : readPipe(r, i) \/ blacklist(r, i)

Scripts == start_frade \/ start_dyn4 \/ stop_frade

Next ==
    \/ triggerFrade \/ OrderStop
    \/ Scripts
    \/ \E i \in Run : Process(i)
    \/ \E ip \in IP : Visit(ip) \/ Connect(ip)

\* Every script and every thread of every process is scheduled; nothing is assumed
\* of the detector and of the clients.
Fairness ==
    /\ WF_vars(start_frade) /\ WF_vars(start_dyn4) /\ WF_vars(stop_frade)
    /\ \A i \in Run :
          /\ WF_vars(Loop(i)) /\ WF_vars(Sniff(i))
          /\ \A r \in Role : WF_vars(readPipe(r, i)) /\ WF_vars(blacklist(r, i))

Spec == Init /\ [][Next]_vars /\ Fairness

-----------------------------------------------------------------------------
\* A start forgets every address the firewall dropped; but the new log loop reads
\* the whole log again.  So an address that is guilty by the log is dropped in the
\* end after every start, whichever of the two processes comes first to its pipe,
\* however many older ones still run, unless stop_frade.sh kills some of it.
Reblocked ==
    \A ip \in IP :
        ("frade" \in options /\ started > 0 /\ Guilty(ip, Len(access_log)))
            ~> (Dropped(ip) \/ killed)

\* Without FRADE no start flushes the firewall: what a sniffer convicts is dropped in
\* the end, though the daemons of all starts read the same pipe and each remembers
\* only what it read itself.
SniffedBlocked ==
    \A ip \in IP, i \in Run :
        (options = {"dyn4"} /\ sniffer[i].state = "run" /\ ip \in sniffer[i].blacklisted)
            ~> (Dropped(ip) \/ killed)

\* When nothing is being started, the firewall has its set and the rule that
\* refers to it as long as a daemon is there to fill it.
RuleInPlace ==
    Settled /\ (\E r \in Role, i \in Run : Alive(daemon[r][i])) => set_exists /\ rule

\* The packets a sniffer has handled that count: the first ones from their ports.
New(i, ip) ==
    LET s == sniffer[i]
        from(ks) == {syns[k].port : k \in ks}
    IN  {k \in s.from + 1 .. s.pos :
            /\ syns[k].ip = ip
            /\ syns[k].port \notin from({j \in s.from + 1 .. k - 1 : syns[j].ip = ip})}

Within(K, t, w) == {k \in K : syns[k].time \in t .. t + winSizes[w] - 1}

\* dyn4 convicts an address only for as many connections from different ports in
\* a window's length as its threshold says; and as long as it has not, the address
\* opened fewer than twice as many in any such length: the windows do not
\* overlap, and a connection that starts one is never compared.
SniffedJustly ==
    \A i \in Run, ip \in IP :
        sniffer[i].state = "run" =>
            IF ip \in sniffer[i].blacklisted
            THEN \E w \in Windows, t \in 0 .. MaxTime :
                    Cardinality(Within(New(i, ip), t, w)) >= thresholds[w]
            ELSE \A w \in Windows, t \in 0 .. MaxTime :
                    Cardinality(Within(New(i, ip), t, w)) <= 2 * (thresholds[w] - 1)
=============================================================================
