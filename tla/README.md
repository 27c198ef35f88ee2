# FRADE in TLA+

FRADE defends a web server against floods of well-formed requests: it follows
the access log, keeps a record per source address, and has the addresses that
do not behave like people dropped by the firewall. An attack detector starts
and stops it. The repository also holds the tool its attacks were made with, a
changed httperf. This directory holds a model of both, the runs that check the
model, and proofs. Paths are relative to the root of the repository;
`FRADE.cpp` is `FRADE/FRADE.cpp`, `core.c` is `attacker/httperf/src/core.c`.

## Inventory

| part | code | state | operations |
|---|---|---|---|
| configuration | `FRADE.cpp` 62-597 and its copies | the engine's tables | `configure`, `addEdge`, the `get*` functions of one file each |
| semantics model | `FRADE.cpp` 599-833, `SemNode.cpp` | graph of pages with transition probabilities; per user the saved `endNode`, `prevFile`, `seqProb`, `seqLength` | `getTransitionProb2`, `transTo`, `semantics` |
| detection engine | `FRADE.cpp`, `UserData.cpp`; copies `FRADE_tb.cpp`, `FRADE_load_bl.cpp`, `sem.cpp` | `users`, `blacklist`, the pipe it writes | `beAFRADE`: `deception`, `dynamics1and3`, `dynamics2`, `semantics`, `blacklistIP` |
| log loop | `rsyslog.cpp` and three copies | the position `p`, the open stream | open, `seekg`, `getline`, `tellg`, convert, call `beAFRADE`, sleep |
| blacklisting daemon | `blacklistd.py` | `blacklisted`, `q`, `my_mutex`, the ipset | threads `readPipe` and `blacklist` |
| dyn4 | `dyn4/dyn4.py`, `dyn4/bldyn4.py` | connection windows and ports per address; a queue | counts SYN packets; a daemon of its own |
| attack detector | `detector.py` | `isAttack`, `stop_tb_flag`, `count_slow_down`, two averages | `detect`, `detect_stop`, `triggerFrade` |
| scripts | `start_frade.sh`, `start_dyn4.sh`, `stop_frade.sh` | processes, pipes, the firewall | run in the background by the detector |
| transparent proxy | `proxy/transparent_proxy/.../app1.js` | map from address to token | rewrites links, reports addresses to the pipe |
| take-a-break proxy | `proxy/take_a_break_proxy/.../lib1` | challenged addresses | its log lines carry time 1 |
| httperf core | `core.c`, `object.c`, `conn.c`, `call.c`, `localevent.c` | connections, calls, free lists, ports, the descriptors selected | `core_connect`, `core_send`, `do_send`, `do_recv`, `core_close`, `core_loop` |
| httperf timers | `timer.c`, `lib/list.c` | lists of timers | schedule, cancel, tick |
| httperf parser | `http.c` | state of the reply being read | `http_process_reply_bytes` |
| httperf generators | `gen/*.c`, `stat/*.c` | sessions, bursts, URIs, cookies, counters | handlers of the core's events |
| training, clients, data | `learn_all.pl`, `legitimate_client`, ... | files | offline; test bed |

Interaction. The web server appends a line per request to the log; the log loop
reads it and calls the engine in the same process; the engine and the
transparent proxy write addresses to the fifo `/tmp/blacklistpipe`; the daemon
reads them and runs `ipset add`; the firewall drops what is in the set, so those
addresses stop producing lines. dyn4 does the same from tcpdump's packets
through `/tmp/dyn4`, into the same set. The detector starts all of it by scripts
that it does not wait for, and has it killed. In httperf everything is one
thread: the core signals events, generators handle them and call the core, which
frees objects and signals again.

What is hard: the windows of `dynamics1and3` under lines that are late, the
interplay of five modules that convict the same user and return or do not, the
pointers the semantics walk keeps between requests, a reader and a writer at the
end of one file, two threads and a half-locked list, writers that block on a
full pipe, commands whose failure nobody notices, restarts that forget what was
convicted while older processes still run, a pipe that may be a fifo or a file;
in httperf nested callbacks that free what their callers still use, watchdogs
that race replies, and replies cut at any byte. `PROJECT.json` lists the hazards
with their lines.

What makes each part correct:

* engine: no conviction without evidence in the log, no unlimited rate without
  conviction, every embedded object paid for, every address reported once;
* semantics: transitions start from the page the user is on; unknown pages cost;
* log loop: each line handled once, in order, and eventually;
* daemon: no address lost, none added twice, the mutex always released;
* together: a convicted address is dropped, and nobody else;
* detector: no service is stopped that was not started since its last stop, an
  attack is not learned;
* start and stop: after a start what is guilty is dropped again;
* httperf: nothing freed is used, nothing is leaked, statistics add up, the test
  ends.

## Modules

| module | models |
|---|---|
| `Semantics` | the graph and one transition of a walk, `RoundUp` / `LookupIndex` for the threshold |
| `Configure` | what `configure` makes of its files, in each version, as functions of the lines |
| `FRADE` | the engine: one action per path through `beAFRADE` |
| `FRADEBuilds` | extends `FRADE`: the three other versions of the engine |
| `Rsyslog` | extends `FRADE`: the log and the loop that reads it; the web server is the environment |
| `Blacklistd` | the daemon, one step per statement another thread can observe |
| `Mitigation` | abstract: addresses are convicted, only those are dropped, each is dropped in the end |
| `FRADESystem` | `Rsyslog` and an instance of `Blacklistd` over one pipe, the firewall and the proxy |
| `Detector` | the two packet handlers over the flags they share |
| `Orders` | abstract: the starts and stops of one service that its scripts may rely on |
| `Dyn4` | a sniffer's record of an address, as operators |
| `Lifecycle` | extends `Orders` and `Dyn4`: the scripts command by command, and every process they start |
| `HttperfTimer`, `Http` | timers and the reply parser, as operators on records |
| `ReplyStream` | `do_recv` and `recv_done` over a stream of pipelined replies, and which replies keep to HTTP/1.1 |
| `HttperfCore` | extends both: the core |
| `HttperfUri`, `HttperfSeq` | the URI generators; connections at a rate with calls in bursts, and `stat/basic.c` |
| `HttperfSess` | sessions: connections, pending calls, cookies, `stat/sess_stat.c` |
| `Wsess`, `Wsesslog`, `Wsesspage` | the three kinds of sessions, extending it |
| `HttperfWork` | the three together: which functions handle which event |
| `DataFacts` | lemmas: elements of a sequence, induction over numbers and finite sets, sums |
| `*_proofs` | proofs of the module they are named for; `FRADE_proofs` also of `FRADEBuilds`, `FRADESystem_proofs` also of `Rsyslog`, `Lifecycle_proofs` also of `Dyn4` |
| `MC*` | constants for TLC |

### How the code is abstracted

**Engine.** *Probabilities* are costs, -log p: products become sums, `seqProb <=
threshold` becomes `seqCost >= threshold`. Rounding of doubles is not modelled.
*Strings*: a URI is a model value; its part before `?` (`Base`), its folders
(`Folders`, longest first, what `rfind("/")` finds) and its group are constants.
*Times* are milliseconds in unsigned arithmetic modulo `Word`; time 1 marks a
proxy's line. *Lists of embedded objects* are bags. `main_embed` and `proc_time`
are total: `operator[]` inserts an empty list or 0 for a missing page. The
uninitialized `start` of `getTransitionProb2` (line 664) is a choice between a
crash and any node. `hit` are the names that contain `hit.json`: the load
version charges a transition that its graph does not have, to a page it does,
0.01 when one of the two names is such a one, and `NO_FILE_PROB` otherwise
(`load_Missing`; `FRADE_load_bl.cpp` 797-825, the comment ends at 808).

`beAFRADE` is one action per path: `ProxyBlock`, `deception`, `MainRequest`,
`IgnoredRequest`, `AllowedObject`, `UnlistedObject`, each with the conviction it
makes. `MainRequest` returns when a window trips; `UnlistedObject`, the second
half of `dynamics2`, does not. `handled` is a history variable; no guard but its
bound reads it.

`Configure` gives the engine's constants as functions of lines; a word is a
model value, and cutting its last character (`pop_back`) is the
function `chop`. In `FRADE_all` the constants are what the four versions read
from one configuration.

**Log loop.** A position is a number of lines. `ReadPart` is `getline` on a line
without newline: `tellg` returns -1 from then on.

**Daemon.** A write blocks at `MaxPipe` addresses. `Run` is one batch of `ipset
add ...&` lines; with `AddMayFail` any subset of them takes effect. `BatchSize`
stands for the 10000 characters.

**Detector.** Averages are whole numbers of units, rounded down. A packet is
within its second or the first after it; which is the environment's choice, so
seconds without packets are included. An attack starts two services, the defence
(FRADE and dyn4) and the take-a-break proxy. `detect` stops both and
`detect_stop` the proxy alone (`detector.py` 113-115: its stop of FRADE is
commented out), so each has its history (`since`, `stops`): the starts since its
own last stop, the stops since its own last start. A stop changes them even if
nothing runs, so none of them looks like a step without orders, and `Orders`
forbids the stop of what was not started. Since both halves set the one flag,
`detect` does not stop the defence when `detect_stop` has stopped the proxy
before it; then the defence runs on into the next attack, which starts it once
more. So nothing bounds the starts of the defence between two stops
(`MaxTriggers` bounds the model), only those of the proxy. The detector is
modelled with `--frade`: with `--dyn4` alone it starts no proxy and stops one
all the same.

**Lifecycle.** What a log loop does with a line is the engine's affair: here an
address is guilty by its number of lines. The steps a daemon makes between
taking an address and adding it are in `Blacklistd`. A pipe is a file that is a
fifo if a daemon made it and a regular file if the log loop was first: a fifo's
lines go to one reader each, a regular file's to every reader. A start leaves
the processes of the last one running; process `i` is that of the `i`-th start.
`whole` says whether dyn4's thresholds are whole numbers; otherwise `int()` ends
the sniffer. Assumed: starts are far enough apart for the last one to settle
(`Settled`; the detector gives them at least a second apart). The orders are
those of `Orders` for the defence; the proxy's, `detect_stop`'s among them, have
no part in it. Assumed too is that the second
that `start_dyn4.sh` sleeps is enough for `mkfifo`.

**httperf.** The stack of C calls is the variable `todo`: its head is the
function that runs next, an action executes one function up to its next call and
pushes the calls it makes. The loop and the network act only when the stack is
empty. Objects are numbers; a freed object keeps its contents until it is
allocated again, and the last one freed is allocated first, as in `object.c`. An
assertion that fails sets `abort`. There is no clock: any active timer may be
due at a tick, all orders of timeouts and replies occur. What a server sends is
a sequence of units that no read splits. A line that means something to the
parser is two units, so that headers are cut inside lines; any other has as many
as it likes. The last unit of a line is its bare end, CRLF: read alone, with
nothing of its line before it, it is an empty line, which ends headers and
footers (`Meaning`). That happens when `line_buf` was full, and the line taken
for complete, just before it (`get_line`, `http.c` 77-104): the parser as
modelled does so, and the replies that the properties are about have only lines
that fit (`Fits`). `IsReply` tells the
replies that keep to HTTP/1.1 by the positions of their units alone, without the
parser's own operators: headers and an empty line, and then nothing, the units
announced, chunks and footers, or whatever comes before the end of the stream.
TLC evaluates it on the replies of the run (`RepliesAssumption`).

## Runs

| run | question | bounds |
|---|---|---|
| `FRADE_rate` | window counts have requests behind them (`CountsJustified`), convictions have evidence (`ConvictionJustified`), an unconvicted user makes at most twice a window's threshold of page views in any interval of its length (`RateBounded`), every object is listed by a page viewed, or by the user's first request, or charged (`EmbeddedPaid`), addresses are written once | 1 address, a page with an object, windows 2 and 4, 8 ms, 6 requests: both windows roll over, also at different times |
| `FRADE_walk` | the saved node is that of the last known page (`EndNodeTracksKnown`); without a wildcard edge, few unknown pages go unpunished (`UnknownPagesBounded`) | 5 URIs, 5 requests; the thresholds are reached by 3 unknown pages |
| `FRADE_all` | the four versions of the engine from one configuration: evidence (`BuildConvictionJustified`), lists of objects (`ObjectsListed`), pages outside the graph (`StraysBounded`) | 2 addresses, all modules, a wildcard edge, a group without node, 4 requests |
| `Blacklistd` | mutex, nothing lost, nothing added twice, the daemon comes to rest (`Settles`), `Mitigation` implemented | 3 addresses, pipe of 3, batches of 2: full and partial batches, duplicates; commands may fail |
| `System` | lines handled once and in order; conviction to firewall: `Delivered`, `DefenceKept`, `WholeLinesRead` | 2 addresses, 3 lines, pipe of 1, so that the engine blocks; half written lines |
| `Detector` | `KeepsOrders` (implements `Orders` for the defence and for the proxy, whose starts are bounded), `BaselineBounded` | 6 packets a second, 3 calm seconds instead of 6, 4 starts of the defence between its stops |
| `Lifecycle` | after a start guilty addresses are dropped again (`Reblocked`), what dyn4 convicts is dropped (`SniffedBlocked`) and was convicted rightly (`SniffedJustly`), the rule is there (`RuleInPlace`) | FRADE or dyn4, two starts, stops at any time, 1 attacker, 1 line, 3 packets in 2 windows |
| `ReplyStream` | each reply goes to its call, whole, however reads cut the stream (`FramedAsSent`, `BytesHaveACall`, `AllAnswered`) | 2 pipelined replies of every form, with lines up to the size of `line_buf` |
| `HttperfSeq` | no failed assertion (`NoAbort`), no leak (`NothingLeaks`), statistics that add up (`Accounted`), connections that wait are watched (`Watched`), URIs in turn (`UrisInTurn`) | 2 connections from 2 addresses, at a rate and one after the other, or 1 with up to 4 calls; every failure of `core_connect`; a reply of status 204, one of 200 with a length, one without a status line, closes and resets |
| `HttperfSess` | sessions: no failed assertion, each call held once per owner (`RefsHeld`), each session counted once (`Counted`), a page's counts (`PageCounts`), the test ends (`Ends`) | 10 command lines, up to 2 sessions and 6 calls; resets, closes, cut replies, timeouts |
| `FRADE_disorder` | violated: `RateBounded` when a line is 1 ms late | |
| `Rsyslog_partial` | violated: every line read, when a line is seen half written | |

The two violations are disagreements of the code with its own documents;
`PROJECT.json` ("findings") quotes both sides. Deadlock is not checked where a
model stops at its bounds or after a crash or abort; it is checked for the
daemon. The type invariant of the engine is checked with `FRADE_rate` and those
of the engine, the daemon and the detector are proved. Each property has a
mutant: an operator, defined before the one it replaces, with a plausible bug
that the property catches.

Why the bounds are enough. The engine handles addresses apart but for
`blacklist` and the pipe, so one or two are enough; requests suffice to fill,
trip and roll over every window. Two starts are the least with older processes
around, and a third adds only more of the same kind. In `Lifecycle` FRADE and
dyn4 are started one at a time: they share the firewall's set only, and together
they do not fit into a run; with both, a second start empties the set and an old
`bldyn4.py` may swallow what the new sniffer convicts, so `SniffedBlocked` would
not hold.

Where httperf fails. The runs are made for command lines and replies with which
the code keeps its promises; while they were modelled these were found not to,
and are left out, as the notes of the hazards say: bursts that do not divide
the number of calls (`call_seq.c` waits for ever), a browser that asks for a
second page (`num_destroyed` is never reset, the session is given up twice),
pipelined requests with a partial write
and a timeout (the watchdog is cancelled and not armed again), sessions with
bursts and timeouts (calls are made for a dead session), a watchdog armed after
its deadline (`LateRearm`, which turns it into a timer that never expires),
sessions one after the other (a rate of 0) when `core_connect` fails (the next
session begins within the handler of the one that fails, and the test does not
end), a header line longer than
`line_buf` (its end alone is taken for the end of the headers, `http.c` 93 and 213,
and what is left of the reply may meet the assertion at `core.c` 593), and a
status of 600 or more (the assertion at `stat/basic.c` 299). Bounds on `Params`,
`Faults`, `LateRearm` and the replies keep them out. Where the defence fails the
properties say what they leave out: a wildcard edge after which a user has no
saved node (`FRADE.cpp` 753), the last character that `pop_back` takes from a
line that has no blank there (`FRADE.cpp` 186: what is checked is what was
read), and the shorter address of a half line (`rsyslog.cpp` 150).

### Fairness

`System`: the loop goes on (weak fairness of `Loop`), a line begun is finished;
the engine's step is strongly fair, because the kernel serves the writers
waiting for room in a pipe in turn and a proxy that writes for ever cannot keep
the engine out; the daemon's threads are weakly fair. `Blacklistd`: the
interpreter schedules both threads; the second takes the mutex only when the
list is not empty, so the first always gets it. `Mitigation`: what is convicted
is dropped, by weak fairness per address. `Lifecycle`: scripts, log loops,
sniffers and both threads of every daemon are scheduled; nothing is assumed of
the detector and of clients. `HttperfSess`: httperf goes on while it has a
function to finish, a ready descriptor or a timer, which becomes due at last;
nothing is assumed of servers, so `Ends` rests on the timeouts, and is claimed
only when one is given. `ReplyStream`: a pending reply is read.

## Proofs

`Blacklistd_proofs` proves, for any addresses, batch size and pipe, and whether
or not commands fail, type correctness, `MutualExclusion`, `NothingLost`,
`AddedOnce` and the safety half of the refinement, `Spec => SafePromise`. None
is inductive: an address is queued only because it was not in the dictionary,
and not in the set only because the current scan has not reached it. The
invariant adds `Noted` (queue and set are part of the dictionary), `Queueing`
(the address being queued is nowhere else), `Distinct`, and `Batch`: the command
is the part of the list just before `next`, what lies before it has been run,
what lies from it on has not.

`FRADE_proofs` proves, for any site, semantics model, windows and modules,
`TypeOK`, `EmittedOnce` and `CountsJustified`. The type invariant is inductive
once the outcomes of the walk are typed: nodes are nodes and `prevFile` is a
file name or null (`WalkType`), which needs `SemanticsAssumption`; an allowance
stays natural because `AllowedObject` requires it to be positive. `EmittedOnce`
is inductive with the types. `ThresholdExists` shows that `semantics()` never
reads outside `seqThreshes` for the lengths it is called with, at least 2.
`CountsJustified` is inductive with the types: a window that is started anew
holds one request, a running one gains one, and `FRADEAssumption` (the modulus of
`unsigned long` exceeds any time plus any window) excludes that a line older than
the window is charged to it; the extra request is a new record's, which the
constructor and the first charge both count.

`FRADE_proofs` also proves what the engine's properties say of the whole log,
each from an invariant that relates a record to the history of its user:
`EndNodeTracksKnown` (`Tracks`), `UnknownPagesBounded` (`Pays`: the cost of the
walk so far is at least `NoFileCost` per unknown page), `EmbeddedPaid`
(`Covered`: what was fetched plus what may still be fetched is what pages listed
plus what was charged), `ConvictionJustified` (`Costed`: a window's processing
time is that of requests inside it, besides those `CountsJustified` counts;
`Shows`: evidence, once there, stays) and `RateBounded` (`Steady`, `Paced`: at
most one threshold of pages lies in the window that runs, and at most two in
any interval of its length). Every path through `beAFRADE` is first reduced to
what it makes of one user's record (`Paths`), and a line is added to the
history for this user only (`HitsAppend`), so each invariant is proved path by
path without the rest of the state. Three of the properties count bags and sums
over the log, for which `DataFacts` has induction over numbers and finite sets,
stated for a set of values instead of a predicate: an instance is the set of
the values for which the claim holds.

`RateKept` has hypotheses (`RateHypothesis`). `Disorder = 0`: the log is in
order of time; `FRADE_disorder` shows that without it the bound does not hold.
No threshold of a window is zero: with a zero the code convicts at the second
request of a window, since the constructor and the reset of a window do not
compare, so a user that makes its pages one per window is never convicted and
has one page where the bound says none.

`FRADE_proofs` proves of the three other versions, which `FRADEBuilds` models
behind the constant `build`, `StraysBounded` (`Owes`), `ObjectsListed` (`Listed`)
and `BuildConvictionJustified` (`Windowed`, and `Rooted`: what is left of the
list of a user is what its last page listed less what it has asked for since; the
two ways to be convicted are `Proved` by the log or `Strode`, over a threshold of
the walk). The last has the hypothesis
`PagesViewable`: what `FRADE_tb.cpp` and `FRADE_load_bl.cpp` take for a page,
what `MAIN_REQS` matches, is no embedded object by the table `FRADE.cpp` knows
pages by. Nothing in the code relates the two tables, and evidence is stated by
one of them. While the proof was made two statements turned out to be false for
configurations no run has: an object that lists itself (its own request counts
against its list, so `Unlisted` begins with the page itself), and `sem.cpp`
convicting though its list of modules is empty (it reads none); both are now
stated as the code has it.

`FRADESystem_proofs` proves, for any site, proxy, batch size and capacity of the
pipe, `Delivered`; that the system only takes steps of `Blacklistd` on the
daemon's variables, so that what is proved of the daemon holds of it behind the
engine and the proxy; that it only takes steps of `Mitigation`; and, for the log
loop by itself and within the system, `HandledInOrder` (`OrderInv`: the lines
before `p` with a known address are as many as the engine has handled, and the
n-th of them is the n-th; half a line is always the last). The invariant of the rest
has the types of the log and the daemon (`Logged`, `Typed`) and `Reported`: what
the queue, the command and the set hold is in the dictionary. It needs no type of
a user's record: the pipe sees of each path through `beAFRADE` only whether it
convicts.

`Lifecycle_proofs` proves `RuleInPlace` for any options, `--frade` and `dyn4`
together included, and any number of starts. A daemon makes the set and then the
rule, and the start script destroys the set in between when no rule refers to
it, so a daemon's command may fail. The invariant says that a rule has its set
(`RuleHasSet`) and that, once the script has no command left and a daemon runs,
the rule is there or some daemon is still on its way to it, about to make the
set or with the set in place (`RuleComes`, `Underway`). For the sniffers it
proves `SniffedJustly`, for any windows, thresholds and order of starts and
stops: the ports remembered are those of the packets read (`Tallied`), the count
of a window that runs is that of the new ports since it began (`Running`), and
no other interval of its length holds twice the threshold (`Calm`). Assumed is
that the mark of an address never seen is no record (`Dyn4Assumption`), and that
packets come in order of time (`Sorted`, which the model's clock ensures).

`Detector_proofs` proves, for any thresholds, weight and number of calm seconds,
type correctness, the refinement `Spec => KeepsOrders` and `BaselineBounded`.
The refinement is of two instances of `Orders`, the defence's and the proxy's,
and says with them that the proxy is started at most `SlowDowns + 1` times between
its stops. It needs `Paid`: while the proxy runs, its starts are covered by the calm
seconds counted, and the count is below the limit between attacks; when it has
been stopped there are none; and the defence, which is stopped only together with
the proxy, has been started as often at least, so its stop finds a start too. In an attack that begins right after a stop the
count may lie beyond the limit, because calm seconds are counted on while
`stop_tb_flag` is 1, which is why `Paid` bounds the starts there and not the
count. `BaselineBounded` needs that a second the average follows was no spike
(`NoSpikeLearned`), and monotony of the average (`AveragedType`).

`Httperf_proofs` proves of httperf without sessions, for any command lines,
numbers of objects, descriptors, ports and timers, faults and answers of the
server, `UrisInTurn` and `ConnsCounted`, the first part of `Accounted`. An action
executes one C function of a stack of nested callbacks, and any of them may be
interrupted by the events of another connection, so what is counted is behind
what has happened while a handler still waits on the stack. The invariant is
exact about that: `BooksAgree` says by how much, with the number of frames on the
stack (`Waiting`) that will count a connection as made or destroyed, or free it.
It holds because each of the functions of the core and of the generators pushes
no such frame (`QuietSeq`; one lemma per function, `Quiet_` and `Step_`), but for
the handful that do (`Loud`), and because a timer's callback is none
(`TimersOK`). A step replaces the head of the stack, so the frames below keep
their number (`RunWaiting`, which counts them as a set of places). Between two turns of the loop the stack is empty and both sides agree.

For the URIs the same frames show that only the generator that was asked for is
ever called (`OwnUri`). The invariant `UrisOK` then says of each what it has
given: `WlistOK`, an address's place in the list is the number of URIs it was
given; `WlogOK`, no more were given than entries lie before `fcurrent`, until the
test stops or `core_exit` is the next call; `WsetOK`, the misses so far times
one are what the calls owe at the rate of misses, up to the part that
`miss_prob` carries, the first call's miss not being seen. Assumed are the
handlers as `SeqHandlers` registers them (`HandlersAssumption`), a list with an
entry that is not empty, no more clients than files and a rate of at most one
(`UriAssumption`), and positive numbers of connections and calls
(`SeqAssumption`).

`ReplyStream_proofs` proves `FramedAsSent` and `BytesHaveACall` for any replies
that keep to HTTP/1.1 and whose lines fit into `line_buf`, any number of them
pipelined, and reads that cut the stream anywhere. The invariant says where the parser is when `k` units of a
reply have been taken (`ParserAt`): before or inside the status line, in the
headers with what the lines that have ended said of the body (`HeadersSaid`), in
a body with as much counted as has come, inside a chunk or in the line between
two (`InChunk`, `BetweenChunks`), in the footers, or at the end. In a header line
the parser holds what was read of it since its beginning (`LineAt`), and this is
never the whole of `line_buf` (`Fits`). Without that a line is complete before its
end, and the end alone is an empty line: the theorems do not hold. The stream is what has been
taken, the buffer and the wire (`StreamInv`), and while a call is pending the
parser is at its place in the reply of the first one (`PlaceInv`), so what is
left in the buffer when a reply ends is the beginning of the next. `ParserTurn`
is the lemma the rest hangs on: one turn of `http_process_reply_bytes` takes some
units, none beyond the reply, and is again at its place; there is one lemma per
parser state, over lemmas about one line (`get_line`) and about what joining
replies and cutting the stream does to positions. Assumed (`RepliesAssumption`)
are final replies, with statuses from 200 to 599; bodies shorter than the
largest number, which the parser takes for an unknown length; one length and no
chunks, or chunks and no length; lines that `line_buf` holds; and a `line_buf`
that holds the lines that mean something, two units.

Assumptions. Each module names what its proofs assume of its constants
(`FRADEAssumption`, `SemanticsAssumption`, `BuildsAssumption`: costs are natural
numbers; `RepliesAssumption`; ...), TLC evaluates them on the runs, and no theorem has a hypothesis but
`RateKept` and `BuildsJustified`.

Model-checked only: liveness (`Settles`, `WholeLinesRead`, `DefenceKept`,
`Reblocked`, `SniffedBlocked`, `AllAnswered`, `Ends`, the fairness part of
`PromiseKept`), which is beyond the prover; and the rest of httperf (`NoAbort`,
`NothingLeaks`, `RefsHeld`, `Watched`, `Counted`, `PageCounts`, the remaining
parts of `Accounted`). These are about the objects themselves: that no frame on
the stack and no timer refers to one that was freed. An inductive invariant has
to give, for every stack that can occur, the references each of its frames holds.
In `HttperfCore` the replies are read by the parser of `ReplyStream`, but on a
connection that may fail at any moment, so `FramedAsSent` is proved of the
parser and its reader, not of that composition.

## Not modelled

* Engine: `dumpData`, the unused `getTransitionProb` and `hasFolder`, the
  accounting of CPU time, rounding of doubles and overflow of counts.
* Log loops: options, the rewriting of reddit's and wiks' lines, truncation of
  the log. `checkIfAttackStopped` of `blacklistd.py` is never started;
  `blacklistdtb.py` is a copy with another pipe that nothing starts.
* The proxies' rewriting of pages and maps of tokens: edits inside a vendored
  library, which the defence sees only as addresses in the pipe and lines of
  time 1; both are in the model. The scripts of the take-a-break proxy start and
  kill node and write a status text.
* Training scripts: offline text processing; their results are the configuration.
* httperf: SSL, options, distributions of times, histograms, random numbers,
  printed reports, `idleconn.c`, `lib/heap.c` (not used by `timer.c`).
* Clients, vendored libraries (two copies of netifaces), data, the set-up of the
  test bed.
