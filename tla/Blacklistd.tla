----------------------------- MODULE Blacklistd -----------------------------
(***************************************************************************)
(* The blacklisting daemon (FRADE/blacklistd.py): a thread that reads      *)
(* addresses from the pipe into a list, and a thread that turns the list   *)
(* into batches of "ipset add" commands.  They share the list q under      *)
(* my_mutex; the second thread also reads its length without it.           *)
(*                                                                         *)
(* One step per statement that another thread can observe.                 *)
(***************************************************************************)
EXTENDS Integers, Sequences, Functions

CONSTANTS
    IP,
    NONE,        \* nobody holds the mutex; nothing is read yet
    BatchSize,   \* the number of commands that pass 10000 characters
    AddMayFail,  \* whether an ipset add may fail, which nobody notices
    MaxPipe      \* the capacity of the pipe, 64 kilobytes in the kernel

ASSUME BlacklistdAssumption ==
    /\ NONE \notin IP \cup {"readPipe", "blacklist"}
    /\ BatchSize \in Nat \ {0}
    /\ AddMayFail \in BOOLEAN
    /\ MaxPipe \in Nat

VARIABLES
    pipe,         \* addresses written to the pipe and not yet read
    blacklisted,  \* the keys of the dictionary blacklisted
    q,            \* the shared list
    my_mutex,     \* its holder
    readPC,       \* readPipe's control state
    longip,       \* readPipe's local variable
    dropPC,       \* blacklist's control state
    next,         \* how far blacklist's loop over q is
    cmd,          \* the addresses in the command it is building
    ipset,        \* the members of the set the firewall drops
    failed        \* history: the addresses whose ipset add has failed

readVars == << blacklisted, readPC, longip >>
dropVars == << dropPC, next, cmd, ipset, failed >>
vars == << pipe, blacklisted, q, my_mutex, readPC, longip, dropPC, next, cmd, ipset,
           failed >>

TypeOK ==
    /\ pipe \in Seq(IP)
    /\ blacklisted \subseteq IP
    /\ q \in Seq(IP)
    /\ my_mutex \in {NONE, "readPipe", "blacklist"}
    /\ readPC \in {"readline", "acquire", "append", "release"}
    /\ longip \in IP \cup {NONE}
    /\ dropPC \in {"check", "acquire", "scan", "run", "delete", "release"}
    /\ next \in Nat
    /\ cmd \in Seq(IP)
    /\ ipset \subseteq IP
    /\ failed \subseteq IP

Init ==
    /\ pipe = << >>
    /\ blacklisted = {}
    /\ q = << >>
    /\ my_mutex = NONE
    /\ readPC = "readline"
    /\ longip = NONE
    /\ dropPC = "check"
    /\ next = 0
    /\ cmd = << >>
    /\ ipset = {}
    /\ failed = {}

-----------------------------------------------------------------------------
\* A writer of the pipe: the detection engine, or the transparent proxy,
\* which writes an address every time it sees it misbehave.  A full pipe
\* blocks its writer.
Write(ip) ==
    /\ Len(pipe) < MaxPipe
    /\ pipe' = Append(pipe, ip)
    /\ UNCHANGED << readVars, q, my_mutex, dropVars >>

(***************************************************************************)
(* readPipe.  With nothing to read it sleeps and tries again.              *)
(***************************************************************************)
\* Mutants: the dictionary is not looked up; the address is not noted in it; the
\* address read is not the one that is queued.
ReadLineTwice ==
    /\ readPC = "readline"
    /\ pipe # << >>
    /\ pipe' = Tail(pipe)
    /\ longip' = Head(pipe)
    /\ blacklisted' = blacklisted \cup {Head(pipe)}
    /\ readPC' = "acquire"
    /\ UNCHANGED << q, my_mutex, dropVars >>
ReadLineForgets ==
    /\ readPC = "readline"
    /\ pipe # << >>
    /\ pipe' = Tail(pipe)
    /\ longip' = Head(pipe)
    /\ readPC' = IF Head(pipe) \in blacklisted THEN "readline" ELSE "acquire"
    /\ UNCHANGED << blacklisted, q, my_mutex, dropVars >>

ReadLine ==
    /\ readPC = "readline"
    /\ pipe # << >>
    /\ pipe' = Tail(pipe)
    /\ longip' = Head(pipe)
    /\ blacklisted' = blacklisted \cup {Head(pipe)}
    /\ readPC' = IF Head(pipe) \in blacklisted THEN "readline" ELSE "acquire"
    /\ UNCHANGED << q, my_mutex, dropVars >>

\* Mutant: the mutex is not waited for.
ReadAcquireNow ==
    /\ readPC = "acquire"
    /\ my_mutex' = "readPipe"
    /\ readPC' = "append"
    /\ UNCHANGED << pipe, blacklisted, longip, q, dropVars >>

ReadAcquire ==
    /\ readPC = "acquire"
    /\ my_mutex = NONE
    /\ my_mutex' = "readPipe"
    /\ readPC' = "append"
    /\ UNCHANGED << pipe, blacklisted, longip, q, dropVars >>

ReadAppend ==
    /\ readPC = "append"
    /\ q' = Append(q, longip)
    /\ readPC' = "release"
    /\ UNCHANGED << pipe, blacklisted, longip, my_mutex, dropVars >>

ReadRelease ==
    /\ readPC = "release"
    /\ my_mutex' = NONE
    /\ readPC' = "readline"
    /\ UNCHANGED << pipe, blacklisted, longip, q, dropVars >>

readPipe == ReadLine \/ ReadAcquire \/ ReadAppend \/ ReadRelease

(***************************************************************************)
(* blacklist.  With an empty list it sleeps and checks again.              *)
(***************************************************************************)
Check ==
    /\ dropPC = "check"
    /\ q # << >>
    /\ dropPC' = "acquire"
    /\ UNCHANGED << pipe, readVars, q, my_mutex, next, cmd, ipset, failed >>

\* Mutant: the list is scanned and deleted without the mutex.
DropAcquireNone ==
    /\ dropPC = "acquire"
    /\ dropPC' = "scan"
    /\ next' = 0
    /\ cmd' = << >>
    /\ UNCHANGED << pipe, readVars, q, my_mutex, ipset, failed >>

DropAcquire ==
    /\ dropPC = "acquire"
    /\ my_mutex = NONE
    /\ my_mutex' = "blacklist"
    /\ dropPC' = "scan"
    /\ next' = 0
    /\ cmd' = << >>
    /\ UNCHANGED << pipe, readVars, q, ipset, failed >>

\* The loop adds the next address to the command; a long command is run.
Scan ==
    /\ dropPC = "scan"
    /\ next < Len(q)
    /\ next' = next + 1
    /\ cmd' = Append(cmd, q[next + 1])
    /\ dropPC' = IF Len(cmd) + 1 >= BatchSize THEN "run" ELSE "scan"
    /\ UNCHANGED << pipe, readVars, q, my_mutex, ipset, failed >>

\* Mutant: what is left of the command after the loop is not run.
EndScanUnfinished ==
    /\ dropPC = "scan"
    /\ next >= Len(q)
    /\ dropPC' = "delete"
    /\ UNCHANGED << pipe, readVars, q, my_mutex, next, cmd, ipset, failed >>

\* After the loop what is left of the command is run, if anything is.
EndScan ==
    /\ dropPC = "scan"
    /\ next >= Len(q)
    /\ dropPC' = IF cmd # << >> THEN "run" ELSE "delete"
    /\ UNCHANGED << pipe, readVars, q, my_mutex, next, cmd, ipset, failed >>

\* The shell runs each command in the background: some of them may fail and
\* the exception, if there is one, is ignored.
Run ==
    /\ dropPC = "run"
    /\ \E added \in SUBSET Range(cmd) :
          /\ ~ AddMayFail => added = Range(cmd)
          /\ ipset' = ipset \cup added
          /\ failed' = failed \cup (Range(cmd) \ added)
    /\ cmd' = << >>
    /\ dropPC' = "scan"
    /\ UNCHANGED << pipe, readVars, q, my_mutex, next >>

Delete ==
    /\ dropPC = "delete"
    /\ q' = << >>
    /\ dropPC' = "release"
    /\ UNCHANGED << pipe, readVars, my_mutex, next, cmd, ipset, failed >>

\* Mutant: the mutex is kept.
DropReleaseNot ==
    /\ dropPC = "release"
    /\ dropPC' = "check"
    /\ UNCHANGED << pipe, readVars, q, my_mutex, next, cmd, ipset, failed >>

DropRelease ==
    /\ dropPC = "release"
    /\ my_mutex' = NONE
    /\ dropPC' = "check"
    /\ UNCHANGED << pipe, readVars, q, next, cmd, ipset, failed >>

blacklist == Check \/ DropAcquire \/ Scan \/ EndScan \/ Run \/ Delete \/ DropRelease

Daemon == readPipe \/ blacklist

Next == (\E ip \in IP : Write(ip)) \/ Daemon

(***************************************************************************)
(* The interpreter schedules both threads.  Weak fairness is enough for    *)
(* the mutex: the second thread takes it only when the list is not empty,  *)
(* which it empties, and the first one once per new address.               *)
(***************************************************************************)
Fairness == WF_vars(readPipe) /\ WF_vars(blacklist)

Spec == Init /\ [][Next]_vars /\ Fairness

-----------------------------------------------------------------------------
\* The list is changed by one thread at a time.
MutualExclusion ==
    /\ readPC \in {"append", "release"} => my_mutex = "readPipe"
    /\ dropPC \in {"scan", "run", "delete", "release"} => my_mutex = "blacklist"

\* An address the daemon has taken note of is being queued, in the list, or in
\* the firewall's set, unless its own command failed: "del q[:]" throws away
\* nothing that was not run, and an address is not lost between the dictionary
\* and the list.
NothingLost ==
    /\ blacklisted \subseteq
          ipset \cup failed \cup Range(q)
                \cup (IF readPC \in {"acquire", "append"} THEN {longip} ELSE {})
    /\ ~ AddMayFail => failed = {}

\* An address is in at most one of the places on its way to the firewall, once:
\* two writers, or one that writes it again, cause one ipset add.
AddedOnce ==
    /\ \A j, k \in DOMAIN q : q[j] = q[k] => j = k
    /\ \A j, k \in DOMAIN cmd : cmd[j] = cmd[k] => j = k
    /\ Range(cmd) \cap ipset = {}
    /\ dropPC \notin {"delete", "scan", "run"} => Range(q) \cap ipset = {}

\* Whatever fails, the daemon comes to rest when no new address arrives: no
\* error leaves the mutex taken, a thread stuck, or an address in the list.
Settles == <>[](q = << >> /\ my_mutex = NONE /\ readPC = "readline")

\* The safety part of what the whole defence promises, for the addresses that
\* were written to the pipe: the daemon drops no other, for good, whatever fails.
M == INSTANCE Mitigation WITH convicted <- Range(pipe) \cup blacklisted,
                              dropped <- ipset

SafePromise == M!Init /\ [][M!Next]_M!vars

\* Its liveness part: an address that was written to the pipe is in the
\* firewall's set in the end, unless its own command failed.  (It is not tried
\* again: the dictionary keeps it out of the list for ever.)
PromiseKept ==
    \A ip \in IP : (ip \in Range(pipe) \cup blacklisted) ~> (ip \in ipset \cup failed)
=============================================================================
