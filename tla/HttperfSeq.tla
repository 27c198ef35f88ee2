------------------------------ MODULE HttperfSeq ------------------------------
(***************************************************************************)
(* httperf without sessions: connections are created at a fixed rate or    *)
(* one after the other, and each of them performs a sequence of calls in   *)
(* bursts (attacker/httperf/src/gen/conn_rate.c, gen/rate.c,               *)
(* gen/call_seq.c), while the basic statistics are collected               *)
(* (stat/basic.c).  The handlers are registered in the order               *)
(* statistics, call_seq, conn_rate, and rate_generator_start adds its own  *)
(* last when the rate is 0.                                                *)
(***************************************************************************)
EXTENDS HttperfUri

\* A command line gives the number of connections to make, of the calls on each
\* of them and of the calls that are made at once.
ASSUME SeqAssumption ==
    \A p \in Params : {p.num_conns, p.num_calls, p.burst_len} \subseteq Nat \ {0}

VARIABLES
    priv,                   \* call_seq's private data of each connection
    num_conns_generated, num_conns_destroyed,
    done,                   \* rg.done
    basic                   \* the counters of stat/basic.c

genVars == << num_conns_generated, num_conns_destroyed, done >>
vars == << coreVars, uriVars, priv, genVars, basic >>
allButPriv == << conn, call, timers, sockets, net, result, running, abort, genVars, basic >>

NewPriv == [num_calls |-> 0, num_completed |-> 0, num_destroyed |-> 0]

\* The functions registered for each event.
SeqHandlers(p, event) ==
    CASE event = "EV_CONN_NEW" -> << "conn_created" >>
      [] event = "EV_CONN_CONNECTING" -> << "count_issued" >>
      [] event = "EV_CONN_CONNECTED" -> << "count_connect", "conn_connected" >>
      [] event = "EV_CONN_FAILED" -> << "conn_fail" >>
      [] event = "EV_CONN_TIMEOUT" -> << "count_timeout" >>
      [] event = "EV_CONN_DESTROYED" ->
             << "conn_destroyed", "destroyed", "done" >>
      [] event = "EV_CALL_NEW" -> UriHandlers(p)
      [] event = "EV_CALL_SEND_STOP" -> << "send_stop" >>
      [] event = "EV_CALL_RECV_START" -> << "recv_start" >>
      [] event = "EV_CALL_RECV_STOP" -> << "recv_stop", "call_done" >>
      [] event = "EV_CALL_DESTROYED" -> << "call_destroyed" >>
      [] OTHER -> << >>

Events ==
    {"EV_CONN_NEW", "EV_CONN_CONNECTING", "EV_CONN_CONNECTED", "EV_CONN_FAILED",
     "EV_CONN_TIMEOUT", "EV_CONN_CLOSE", "EV_CONN_DESTROYED", "EV_CALL_NEW",
     "EV_CALL_ISSUE", "EV_CALL_SEND_START", "EV_CALL_SEND_STOP", "EV_CALL_RECV_START",
     "EV_CALL_RECV_HDR", "EV_CALL_RECV_DATA", "EV_CALL_RECV_FOOTER", "EV_CALL_RECV_STOP",
     "EV_CALL_DESTROYED"}

ASSUME HandlersAssumption ==
    \A p \in Params, event \in Events : Handlers(p, event) = SeqHandlers(p, event)

-----------------------------------------------------------------------------
(* stat/basic.c *)
Count(name, counter) ==
    /\ Step(name)
    /\ basic' = [basic EXCEPT ![counter] = @ + 1]
    /\ Run(<< >>)
    /\ UNCHANGED << objects, timers, sockets, net, result, running, abort, priv, genVars >>

\* The connections that are alive, and the most there ever were.
conn_created ==
    /\ Step("conn_created")
    /\ basic' = [basic EXCEPT !.active = @ + 1,
                              !.max_conns = IF basic.active + 1 > @ THEN basic.active + 1 ELSE @]
    /\ Run(<< >>)
    /\ UNCHANGED << objects, timers, sockets, net, result, running, abort, priv, genVars >>

conn_destroyed ==
    /\ Step("conn_destroyed")
    /\ basic' = [basic EXCEPT !.active = @ - 1]
    /\ Run(<< >>)
    /\ Require(basic.active > 0, "num_active_conns > 0")
    /\ UNCHANGED << objects, timers, sockets, net, result, running, priv, genVars >>

\* What became of a connection, by the reason it failed for.
conn_fail ==
    /\ Step("conn_fail")
    /\ basic' = [basic EXCEPT !.failed[Arg(2)] = @ + 1]
    /\ Run(<< >>)
    /\ UNCHANGED << objects, timers, sockets, net, result, running, abort, priv, genVars >>

\* The reply to a call begins, and ends.
recv_start ==
    /\ note_recv_start
    /\ basic' = [basic EXCEPT !.num_responses = @ + 1]
    /\ UNCHANGED << priv, genVars >>

recv_stop ==
    /\ note_recv_stop
    /\ basic' = [basic EXCEPT !.num_replies = @ + 1]
    /\ UNCHANGED << priv, genVars >>

Statistics ==
    \/ conn_created \/ conn_destroyed \/ conn_fail \/ recv_start \/ recv_stop
    \/ Count("count_issued", "num_conns_issued")
    \/ Count("count_connect", "num_connects")
    \/ Count("count_timeout", "num_client_timeouts")
    \/ Count("send_stop", "num_sent")

-----------------------------------------------------------------------------
(* gen/call_seq.c *)

\* issue_calls starts a burst: it makes its calls one at a time.
issue_calls(s) == << << "issue_calls", s >>, << "issue_call", s, param.burst_len >> >>

start_burst ==
    /\ Step("issue_calls")
    /\ priv' = [priv EXCEPT ![Arg(1)].num_completed = 0, ![Arg(1)].num_destroyed = 0]
    /\ Run(<< >>)
    /\ UNCHANGED << allButPriv, free, used >>

issue_call ==
    /\ Step("issue_call")
    /\ LET s == Arg(1)
           left == Arg(2)
           c == object_new("call")
           more_calls == left > 0 /\ priv[s].num_calls < param.num_calls
       IN  /\ priv' = IF left > 0 THEN [priv EXCEPT ![s].num_calls = @ + 1] ELSE priv
           /\ IF more_calls
              THEN /\ c \in Call
                   /\ call' = [call EXCEPT ![c] = [NewCall EXCEPT !.myip = conn[s].myip]]
                   /\ Take("call")
              ELSE UNCHANGED << call, free, used >>
           /\ Run((IF more_calls
                   THEN Signal("EV_CALL_NEW", c)
                          \o << << "core_send", s, c >>, << "call_dec_ref", c >> >>
                   ELSE << >>)
                  \o (IF left > 0 THEN << << "issue_call", s, left - 1 >> >> ELSE << >>))
    /\ UNCHANGED << conn, timers, sockets, net, result, running, abort, genVars, basic >>

conn_connected ==
    /\ Step("conn_connected")
    /\ Run(issue_calls(Arg(1)))
    /\ UNCHANGED << allButPriv, free, used, priv >>

call_done ==
    /\ Step("call_done")
    /\ priv' = [priv EXCEPT ![call[Arg(1)].conn].num_completed = @ + 1]
    /\ Run(<< >>)
    /\ UNCHANGED << allButPriv, free, used >>

MIN(a, b) == IF a < b THEN a ELSE b

\* Mutant: the last burst of a connection is never made.
call_destroyedEarly ==
    /\ Step("call_destroyed")
    /\ LET s == call[Arg(1)].conn
           destroyed == priv[s].num_destroyed + 1
       IN  /\ priv' = [priv EXCEPT ![s].num_destroyed = destroyed]
           /\ Run(IF destroyed < MIN(param.burst_len, param.num_calls)
                  THEN << >>
                  ELSE IF priv[s].num_completed = destroyed /\ priv[s].num_calls + param.burst_len < param.num_calls
                  THEN issue_calls(s)
                  ELSE << << "core_close", s >> >>)
    /\ UNCHANGED << allButPriv, free, used >>

\* A burst is over when as many calls are destroyed as a burst has.  The next
\* one is issued if all of them were answered and the connection has calls
\* left; otherwise the connection is closed.
call_destroyed ==
    /\ Step("call_destroyed")
    /\ LET s == call[Arg(1)].conn
           destroyed == priv[s].num_destroyed + 1
       IN  /\ priv' = [priv EXCEPT ![s].num_destroyed = destroyed]
           /\ Run(IF destroyed < MIN(param.burst_len, param.num_calls)
                  THEN << >>
                  ELSE IF priv[s].num_completed = destroyed /\ priv[s].num_calls < param.num_calls
                  THEN issue_calls(s)
                  ELSE << << "core_close", s >> >>)
    /\ UNCHANGED << allButPriv, free, used >>

-----------------------------------------------------------------------------
(* gen/conn_rate.c *)

\* make_conn, the tick of the rate generator: whether it is done is decided
\* by what it returns.
make_conn ==
    /\ Step("make_conn")
    /\ num_conns_generated' = num_conns_generated + 1
    /\ IF num_conns_generated >= param.num_conns
       THEN done' = TRUE /\ Run(<< >>) /\ UNCHANGED << conn, free, used, priv >>
       ELSE LET s == object_new("conn")
            IN  /\ s \in Conn
                /\ conn' = [conn EXCEPT ![s] = NewConn]
                /\ priv' = [priv EXCEPT ![s] = NewPriv]
                /\ Take("conn")
                /\ Run(Signal("EV_CONN_NEW", s) \o << << "core_connect", s >>, << "made" >> >>)
                /\ UNCHANGED done
    /\ UNCHANGED << call, timers, sockets, net, result, running, abort, num_conns_destroyed,
                    basic >>

\* The value make_conn returns is assigned when everything it started is done.
made ==
    /\ Step("made")
    /\ done' = FALSE
    /\ Run(<< >>)
    /\ UNCHANGED << objects, timers, sockets, net, result, running, abort, priv, basic,
                    num_conns_generated, num_conns_destroyed >>

destroyed ==
    /\ Step("destroyed")
    /\ num_conns_destroyed' = num_conns_destroyed + 1
    /\ Run(IF num_conns_destroyed + 1 >= param.num_conns THEN << << "core_exit" >> >> ELSE << >>)
    /\ UNCHANGED << objects, timers, sockets, net, result, running, abort, priv,
                    num_conns_generated, done, basic >>

-----------------------------------------------------------------------------
(* gen/rate.c *)

\* The completion of a connection starts the next one when the rate is 0; only
\* then is this handler registered.
done_handler ==
    /\ Step("done")
    /\ Run(IF done \/ param.rate THEN << >> ELSE << << "make_conn" >> >>)
    /\ UNCHANGED << objects, timers, sockets, net, result, running, abort, priv, genVars, basic >>

\* The timer's callback makes the connections that are due and schedules the
\* next tick.
tick ==
    /\ Step("tick")
    /\ Run(IF done THEN << >> ELSE << << "make_conn" >>, << "tick_again" >> >>)
    /\ UNCHANGED << objects, timers, sockets, net, result, running, abort, priv, genVars, basic >>

tick_again ==
    /\ Step("tick_again")
    /\ \/ /\ done
          /\ Run(<< >>)
          /\ UNCHANGED timers
       \/ /\ ~ done
          /\ Run(<< << "make_conn" >>, << "tick_again" >> >>)
          /\ UNCHANGED timers
       \/ /\ ~ done /\ CanSchedule(timers)
          /\ timers' = timer_schedule(timers, << "tick", 0, 0 >>, FALSE)
          /\ Run(<< >>)
    /\ UNCHANGED << objects, sockets, net, result, running, abort, priv, genVars, basic >>

\* rate_generator_start: the first tick is made at once.
Init ==
    /\ CoreInit /\ UriInit
    /\ free = [type \in {"conn", "call"} |-> << >>]
    /\ used = [type \in {"conn", "call"} |-> 0]
    /\ todo = << << "start" >>, << "make_conn" >> >>
    /\ priv = [s \in Conn |-> NewPriv]
    /\ num_conns_generated = 0 /\ num_conns_destroyed = 0
    /\ done = FALSE
    /\ basic = [active |-> 0, max_conns |-> 0, num_conns_issued |-> 0, num_connects |-> 0,
                num_client_timeouts |-> 0, num_sent |-> 0, num_responses |-> 0,
                num_replies |-> 0,
                failed |-> [e \in {"nofd", "reset", "refused", "other"} |-> 0]]

rate_generator_start ==
    /\ Step("start")
    /\ timers' = IF param.rate THEN timer_schedule(timers, << "tick", 0, 0 >>, FALSE) ELSE timers
    /\ Run(<< >>)
    /\ UNCHANGED << objects, sockets, net, result, running, abort, priv, genVars, basic >>

-----------------------------------------------------------------------------
Core ==
    /\ CoreFunction \/ \E due \in SUBSET Pending(timers) : core_loop(due)
    /\ UNCHANGED << param, drops, uriVars, priv, genVars, basic >>

Calls == start_burst \/ issue_call \/ conn_connected \/ call_done \/ call_destroyed
Conns ==
    make_conn \/ made \/ destroyed \/ done_handler \/ tick \/ tick_again \/ rate_generator_start

Generator ==
    /\ \/ Statistics /\ UNCHANGED uriVars
       \/ SetUri /\ UNCHANGED << priv, genVars, basic >>
       \/ (Calls \/ Conns) /\ UNCHANGED uriVars
    /\ UNCHANGED << param, drops >>

Server == Network /\ UNCHANGED << param, uriVars, priv, genVars, basic >>

Next == Core \/ Generator \/ Server

\* httperf goes on while it has something to do: a function to finish, a ready
\* descriptor, or a timer, which becomes due at last.  Nothing is assumed of
\* the server.
Fairness == WF_vars(Core \/ Generator)

Spec == Init /\ [][Next]_vars /\ Fairness

-----------------------------------------------------------------------------
Failed == LET f == basic.failed IN f["nofd"] + f["reset"] + f["refused"] + f["other"]

\* num_active_conns is the number of connections that are allocated and not free,
\* and with those destroyed it makes up all that make_conn made: the events of
\* one connection are signalled while those of another are still being handled.
ConnsCounted ==
    Idle => /\ basic.active = used["conn"] - Len(free["conn"])
            /\ basic.active + num_conns_destroyed = MIN(num_conns_generated, param.num_conns)

\* The statistics add up: a connection that was made is alive or destroyed, there
\* are no more replies than responses and no more responses than requests, and a
\* test without a failure ends with every call of every connection answered,
\* unless it stopped at the end of a list of URIs.
Accounted ==
    /\ ConnsCounted
    /\ Idle => /\ basic.num_replies <= basic.num_responses
               /\ basic.num_responses <= basic.num_sent
    /\ Idle /\ ~ running /\ param.uri # "wlog" /\ Failed + basic.num_client_timeouts = 0 =>
            basic.num_replies = param.num_conns * param.num_calls

\* No connection is forgotten: between two turns of the loop its watchdog is
\* armed, so that it times out at last, or its descriptor is ready.
Watched ==
    Idle /\ param.timeout =>
        \A s \in Allocated("conn") : ~ IsFree("conn", s) =>
            \/ conn[s].watchdog \in Pending(timers)
            \/ conn[s].sd \in Readable \cup Writable

\* The test ends, if httperf does not wait for ever.
Ends == param.timeout => <>(~ running)
=============================================================================
