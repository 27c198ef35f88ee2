----------------------------- MODULE FRADESystem -----------------------------
(***************************************************************************)
(* The defence put together: the web server's log, the process that reads  *)
(* it and runs the detection engine, the pipe, the blacklisting daemon,    *)
(* and the firewall rule that keeps the addresses of the set away from the *)
(* server.  The transparent proxy, a second writer of the pipe, is         *)
(* modelled by what it writes.                                             *)
(***************************************************************************)
EXTENDS Rsyslog

CONSTANTS
    NONE, BatchSize, AddMayFail, MaxPipe,  \* see Blacklistd
    Suspects                               \* addresses the transparent proxy may report

VARIABLES blacklisted, q, my_mutex, readPC, longip, dropPC, next, cmd, ipset, failed

B == INSTANCE Blacklistd

ASSUME SystemAssumption == Suspects \subseteq IP /\ MaxPipe \in Nat

daemonVars == << blacklisted, q, my_mutex, readPC, longip, dropPC, next, cmd, ipset, failed >>
engineVars == << users, blacklist, running, handled >>
systemVars == << rsyslogVars, daemonVars >>

SystemInit == RsyslogInit /\ B!Init

\* iptables drops the packets of an address in the set: its requests no longer
\* reach the server.  Lines already in the log are still read.
Visit(l) ==
    /\ l.ip \notin ipset
    /\ WriteLine(l) \/ WritePart(l)
    /\ UNCHANGED daemonVars

FinishLine == WriteRest /\ UNCHANGED daemonVars

\* A write to a full pipe blocks the process until the daemon has read from it.
Detect ==
    /\ Loop
    /\ Len(pipe') <= MaxPipe
    /\ UNCHANGED daemonVars

\* The token check of the transparent proxy writes an address each time it sees
\* a request it rejects.
ProxyReport(ip) ==
    /\ B!Write(ip)
    /\ UNCHANGED << engineVars, logVars, loopVars >>

Daemon == B!Daemon /\ UNCHANGED << engineVars, logVars, loopVars >>

SystemNext ==
    \/ \E l \in Line : Visit(l)
    \/ FinishLine
    \/ Detect
    \/ \E ip \in Suspects : ProxyReport(ip)
    \/ Daemon

\* Weak fairness for the threads of the daemon, as in Blacklistd.  The kernel
\* serves the writers that wait for room in a pipe in turn, so the engine cannot
\* be kept out by the proxy for ever: strong fairness for its process.
SystemSpec ==
    /\ SystemInit /\ [][SystemNext]_systemVars
    /\ SF_systemVars(Detect)
    /\ WF_systemVars(FinishLine)
    /\ WF_systemVars(B!readPipe /\ UNCHANGED << engineVars, logVars, loopVars >>)
    /\ WF_systemVars(B!blacklist /\ UNCHANGED << engineVars, logVars, loopVars >>)

-----------------------------------------------------------------------------
\* The engine writes an address once and never again: at any time it is in the
\* pipe or the daemon has noted it.
Delivered == blacklist \subseteq Range(pipe) \cup blacklisted

\* The whole defence keeps its promise: only addresses that the engine convicted
\* or the proxy reported are dropped, and each of them is, even when the engine
\* has crashed in the meantime.
M == INSTANCE Mitigation WITH convicted <- Range(pipe) \cup blacklisted,
                              dropped <- ipset

DefenceKept == M!Spec
=============================================================================
