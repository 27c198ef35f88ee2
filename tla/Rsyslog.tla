------------------------------- MODULE Rsyslog -------------------------------
(***************************************************************************)
(* The main loop of the detection process (FRADE/rsyslog.cpp): it follows  *)
(* the web server's access log and calls beAFRADE for every line.  It      *)
(* opens the file, goes to the position p where it stopped the last time,  *)
(* reads lines up to the end of the file, sleeps, and starts again.        *)
(*                                                                         *)
(* A position is a number of lines.  A line may be seen before its newline *)
(* is written; getline returns what there is of it and leaves the stream   *)
(* at its end, where tellg returns -1.                                     *)
(***************************************************************************)
EXTENDS FRADE

CONSTANTS
    Foreign,        \* an address inet_pton cannot convert
    PartialWrites   \* whether a line may be seen without its newline

ASSUME RsyslogAssumption == Foreign \notin IP /\ PartialWrites \in BOOLEAN

VARIABLES
    access_log,  \* the lines of the log
    tail,        \* the line being written at its end, or NULL
    p,           \* the variable p: how far the log is read, or -1
    reading,     \* whether the file is open: the inner loop
    torn         \* history: whether a line was read half written

logVars == << access_log, tail >>
loopVars == << p, reading, torn >>
rsyslogVars == << vars, logVars, loopVars >>

Line == [ip : IP \cup {Foreign}, time : 1 .. MaxTime, uri : URI]

-----------------------------------------------------------------------------
\* The web server: lines as it writes them, MaxRequests at most.
NewLine(l) ==
    /\ Len(access_log) < MaxRequests
    /\ tail = NULL
    /\ l.time # 1 => \A k \in DOMAIN access_log : access_log[k].time <= l.time + Disorder

WriteLine(l) ==
    /\ NewLine(l)
    /\ access_log' = Append(access_log, l)
    /\ UNCHANGED << vars, tail, loopVars >>

WritePart(l) ==
    /\ PartialWrites
    /\ NewLine(l)
    /\ tail' = l
    /\ UNCHANGED << vars, access_log, loopVars >>

WriteRest ==
    /\ tail # NULL
    /\ access_log' = Append(access_log, tail)
    /\ tail' = NULL
    /\ UNCHANGED << vars, loopVars >>

-----------------------------------------------------------------------------
\* Mutant: the file is read from its start each time.
OpenRewinds ==
    /\ running /\ ~ reading
    /\ p # -1
    /\ reading' = TRUE
    /\ p' = 0
    /\ UNCHANGED << vars, logVars, torn >>

\* seekg(-1) fails, and so does every getline after it: nothing changes.
Open ==
    /\ running /\ ~ reading
    /\ p # -1
    /\ reading' = TRUE
    /\ UNCHANGED << vars, logVars, p, torn >>

Handle(l) ==
    IF l.ip = Foreign THEN UNCHANGED vars
    ELSE IF l.time = 1 THEN ProxyBlock(l.ip, l.uri)
    ELSE beAFRADE(l.ip, l.time, l.uri)

ReadLine ==
    /\ running /\ reading
    /\ p < Len(access_log)
    /\ p' = p + 1
    /\ Handle(access_log[p + 1])
    /\ UNCHANGED << logVars, reading, torn >>

\* The part of a line: cut in its address it is skipped, cut in its time or its
\* method it stops the process, cut in its URI it is another request.
ReadPart ==
    /\ running /\ reading
    /\ p = Len(access_log)
    /\ tail # NULL
    /\ p' = -1
    /\ reading' = FALSE
    /\ torn' = TRUE
    /\ \/ UNCHANGED vars
       \/ running' = FALSE /\ UNCHANGED << users, blacklist, pipe, handled >>
       \/ \E f \in URI : Handle([tail EXCEPT !.uri = f])
    /\ UNCHANGED logVars

\* Mutant: the position is taken after the loop has failed.
EndOfFileTold ==
    /\ running /\ reading
    /\ p = Len(access_log)
    /\ tail = NULL
    /\ reading' = FALSE
    /\ p' = -1
    /\ UNCHANGED << vars, logVars, torn >>

EndOfFile ==
    /\ running /\ reading
    /\ p = Len(access_log)
    /\ tail = NULL
    /\ reading' = FALSE
    /\ UNCHANGED << vars, logVars, p, torn >>

RsyslogInit ==
    /\ Init
    /\ access_log = << >>
    /\ tail = NULL
    /\ p = 0
    /\ reading = FALSE
    /\ torn = FALSE

Server == (\E l \in Line : WriteLine(l) \/ WritePart(l)) \/ WriteRest

Loop == Open \/ ReadLine \/ ReadPart \/ EndOfFile

RsyslogNext == Server \/ Loop

\* The process runs until it crashes, and a line begun is finished.
RsyslogSpec ==
    RsyslogInit /\ [][RsyslogNext]_rsyslogVars /\ WF_rsyslogVars(Loop) /\ WF_rsyslogVars(WriteRest)

-----------------------------------------------------------------------------
\* The engine has seen the lines before p, each once and in the order of the
\* log, whatever was appended while the loop was at the end of the file: the
\* n-th of them with an address that can be converted was the n-th it handled.
HandledInOrder ==
    LET Known == {k \in 1 .. p : access_log[k].ip # Foreign}
    IN  p # -1 =>
            /\ Len(handled) = Cardinality(Known)
            /\ \A k \in Known :
                  handled[Cardinality({j \in Known : j <= k})] = access_log[k]

\* The process "continuously reads from the accesslog file and calls beAFRADE
\* method" (README_runIndividualModules.txt): every line is read in the end.
EveryLineRead ==
    \A n \in 1 .. MaxRequests : (Len(access_log) >= n) ~> (p >= n \/ ~ running)

\* What is left of it when a line may be seen half written: every line is read
\* in the end, unless such a line was.
WholeLinesRead ==
    \A n \in 1 .. MaxRequests : (Len(access_log) >= n) ~> (p >= n \/ ~ running \/ torn)
=============================================================================
