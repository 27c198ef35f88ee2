------------------------------ MODULE HttperfSess ------------------------------
(***************************************************************************)
(* httperf with sessions: what the three generators of sessions share      *)
(* (modules Wsess, Wsesslog and Wsesspage).  A session's calls go over     *)
(* connections that are opened when they are needed, filled with pipelined *)
(* calls and opened again when the server closes them (gen/session.c,      *)
(* sess.c); the statistics of sessions are those of stat/sess_stat.c.      *)
(* Sessions are created at a rate or one after the other (gen/rate.c), and *)
(* keep a cookie (gen/sess_cookie.c).                                      *)
(***************************************************************************)
EXTENDS HttperfCore

CONSTANTS
    Sess,            \* the sessions that may be allocated: 1 .. some number
    MAX_PIPED        \* the size of the ring of pending calls

\* A command line gives the generator, the number of sessions, the connections
\* of a session and the calls pending on one of them.
ASSUME SessAssumption ==
    /\ Sess = 1 .. Cardinality(Sess)
    /\ MAX_PIPED \in Nat
    /\ \A p \in Params :
         /\ p.workload \in {"wsess", "wsesslog", "wsesspage"}
         /\ {p.num_sessions, p.max_conns, p.max_piped} \subseteq Nat \ {0}
         /\ p.max_piped <= MAX_PIPED
         /\ {p.think_time, p.retry_on_failure, p.http10, p.cookie} \subseteq BOOLEAN

VARIABLES
    sess,                   \* the sessions, with the private data of each module
    owner,                  \* the session and conn_info of each connection
    cpriv,                  \* the private data of each call: its session, its headers
    num_sessions_generated, num_sessions_destroyed,
    done,                   \* rg.done
    st                      \* the counters of sess_stat

genVars == << num_sessions_generated, num_sessions_destroyed, done >>
private == << owner, cpriv >>
sessVars == << coreVars, sess, private, genVars, st >>

CI == 0 .. param.max_conns - 1
NewInfo ==
    [ conn |-> NULL, is_connected |-> FALSE, is_successful |-> FALSE, num_pending |-> 0,
      num_sent |-> 0, rd |-> 0, wr |-> 0, call |-> [k \in 0 .. MAX_PIPED - 1 |-> NULL] ]

\* A new session, with the private data of its generator; a new call.
NewSess(work) ==
    [ ref |-> 1, failed |-> FALSE, info |-> [i \in CI |-> NewInfo],
      timer |-> NULL, cookie |-> NULL, completed |-> 0, conns |-> 0, work |-> work ]

NewPriv ==
    [ sess |-> NULL, cookies |-> 0, scan |-> "P_INITIAL", buf |-> << >>, dirty |-> FALSE ]

coreOnly == << timers, sockets, net, result, running >>
same == << conn, call, free, used, coreOnly, abort >>

-----------------------------------------------------------------------------
(* sess.c *)
\* Mutant: that the session has failed is forgotten.
sess_failureForgotten ==
    /\ Step("sess_failure")
    /\ Run(IF sess[Arg(1)].failed THEN << >>
           ELSE Signal("EV_SESS_FAILED", Arg(1)) \o << << "sess_dec_ref", Arg(1) >> >>)
    /\ UNCHANGED << same, sess, private, genVars, st >>

sess_failure ==
    /\ Step("sess_failure")
    /\ sess' = [sess EXCEPT ![Arg(1)].failed = TRUE]
    /\ Run(IF sess[Arg(1)].failed THEN << >>
           ELSE Signal("EV_SESS_FAILED", Arg(1)) \o << << "sess_dec_ref", Arg(1) >> >>)
    /\ UNCHANGED << same, private, genVars, st >>

sess_dec_ref ==
    /\ Step("sess_dec_ref")
    /\ LET x == Arg(1)
       IN  /\ sess' = [sess EXCEPT ![x].ref = @ - 1]
           /\ Run(IF sess[x].ref = 1
                  THEN Signal("EV_SESS_DESTROYED", x) \o << << "free", "sess", x >> >>
                  ELSE << >>)
           /\ Require(sess[x].ref > 0 /\ ~ IsFree("sess", x), "sess->ref_count > 0")
    /\ UNCHANGED << conn, call, free, used, coreOnly, private, genVars, st >>

-----------------------------------------------------------------------------
(* gen/session.c *)

\* A new connection, on which all the pending calls are to be sent again.
create_conn ==
    /\ Step("create_conn")
    /\ LET x == Arg(1)
           s == object_new("conn")
       IN  /\ s \in Conn
           /\ conn' = [conn EXCEPT ![s] = NewConn]
           /\ owner' = [owner EXCEPT ![s] = [sess |-> x, ci |-> Arg(2)]]
           /\ Take("conn")
           /\ sess' = [sess EXCEPT ![x].info[Arg(2)] =
                         [@ EXCEPT !.conn = s, !.is_connected = FALSE,
                                   !.is_successful = FALSE, !.num_sent = 0]]
           /\ Run(Signal("EV_CONN_NEW", s) \o << << "core_connect", s >>, << "created", x >> >>)
    /\ UNCHANGED << call, coreOnly, abort, cpriv, genVars, st >>

created ==
    /\ Step("created")
    /\ Run(IF result < 0 THEN << << "sess_failure", Arg(1) >> >> ELSE << >>)
    /\ UNCHANGED << same, sess, private, genVars, st >>

\* The calls that are pending and not sent are sent when there is a connection
\* and it is connected.
send_calls(x, i) ==
    LET ci == sess[x].info[i]
    IN  CASE ci.conn = NULL -> << << "create_conn", x, i >> >>
          [] ci.conn # NULL /\ ~ ci.is_connected -> << >>
          [] OTHER -> << << "send_call", x, i, (ci.rd + ci.num_sent) % MAX_PIPED, ci.num_sent >> >>

send_pending ==
    /\ Step("send_calls")
    /\ Run(send_calls(Arg(1), Arg(2)))
    /\ UNCHANGED << same, sess, private, genVars, st >>

send_call ==
    /\ Step("send_call")
    /\ LET ci == sess[Arg(1)].info[Arg(2)]
       IN  Run(IF Arg(4) < ci.num_pending
               THEN << << "core_send", ci.conn, ci.call[Arg(3)] >>,
                       << "call_sent", Arg(1), Arg(2), Arg(3), Arg(4) >> >>
               ELSE << >>)
    /\ UNCHANGED << same, sess, private, genVars, st >>

call_sent ==
    /\ Step("call_sent")
    /\ sess' = [sess EXCEPT ![Arg(1)].info[Arg(2)].num_sent = @ + 1]
    /\ Run(<< << "send_call", Arg(1), Arg(2), (Arg(3) + 1) % MAX_PIPED, Arg(4) + 1 >> >>)
    /\ UNCHANGED << same, private, genVars, st >>

\* A session that ends closes its connections and gives up its pending calls.
sess_destroyed ==
    /\ Step("sess_destroyed")
    /\ Run(<< << "close_info", Arg(1), 0 >> >>)
    /\ UNCHANGED << same, sess, private, genVars, st >>

close_info ==
    /\ Step("close_info")
    /\ LET x == Arg(1)
           i == Arg(2)
       IN  Run(IF i \notin CI THEN << >>
               ELSE (IF sess[x].info[i].conn = NULL THEN << >>
                     ELSE << << "core_close", sess[x].info[i].conn >> >>)
                    \o << << "drop_pending", x, i, 0 >>, << "close_info", x, i + 1 >> >>)
    /\ UNCHANGED << same, sess, private, genVars, st >>

drop_pending ==
    /\ Step("drop_pending")
    /\ LET x == Arg(1)
           ci == sess[x].info[Arg(2)]
           j == Arg(3)
       IN  Run(IF j < ci.num_pending
               THEN << << "call_dec_ref", ci.call[(ci.rd + j) % MAX_PIPED] >>,
                       << "drop_pending", x, Arg(2), j + 1 >> >>
               ELSE << >>)
    /\ UNCHANGED << same, sess, private, genVars, st >>

conn_connected ==
    /\ Step("conn_connected")
    /\ LET o == owner[Arg(1)]
       IN  /\ sess' = [sess EXCEPT ![o.sess].info[o.ci].is_connected = TRUE,
                                   ![o.sess].conns = @ + 1]
           /\ Run(<< << "send_calls", o.sess, o.ci >> >>)
    /\ UNCHANGED << same, private, genVars, st >>

\* A connection that brought a reply is replaced, to issue the remaining calls;
\* without a reply the session is dead.
conn_failed ==
    /\ Step("conn_failed")
    /\ LET o == owner[Arg(1)]
       IN  Run(IF sess[o.sess].info[o.ci].is_successful \/ param.retry_on_failure
               THEN << << "create_conn", o.sess, o.ci >> >>
               ELSE << << "sess_failure", o.sess >> >>)
    /\ UNCHANGED << same, sess, private, genVars, st >>

sess_timeout ==
    /\ Step("sess_timeout")
    /\ Run(<< << "sess_failure", owner[Arg(1)].sess >> >>)
    /\ UNCHANGED << same, sess, private, genVars, st >>

\* A reply: its call is the first that is pending.
call_done ==
    /\ Step("call_done")
    /\ LET c == Arg(1)
           o == owner[call[c].conn]
           x == o.sess
           ci == sess[x].info[o.ci]
           bad == param.failure_status # NULL /\ call[c].status = param.failure_status
       IN  /\ Require(ci.call[ci.rd] = c /\ ci.num_pending > 0 /\ ci.num_sent > 0,
                      "ci->call[ci->rd] == call")
           /\ sess' = [sess EXCEPT ![cpriv[c].sess].completed = @ + 1,
                        ![x].info[o.ci] =
                          [ci EXCEPT !.is_successful = TRUE, !.call[ci.rd] = NULL,
                                     !.rd = (@ + 1) % MAX_PIPED,
                                     !.num_pending = @ - 1, !.num_sent = @ - 1]]
           /\ Run((IF ~ bad THEN << >>
                   ELSE IF param.retry_on_failure THEN << << "session_issue_call", x, c >> >>
                   ELSE << << "sess_failure", x >> >>)
                  \o << << "call_dec_ref", c >> >>
                  \o (IF param.http10 THEN << << "close_10", x, o.ci >> >> ELSE << >>))
    /\ UNCHANGED << conn, call, free, used, coreOnly, private, genVars, st >>

\* With HTTP/1.0 the connection is closed after each reply.
close_10 ==
    /\ Step("close_10")
    /\ Run(<< << "core_close", sess[Arg(1)].info[Arg(2)].conn >>,
              << "closed_10", Arg(1), Arg(2) >> >>)
    /\ UNCHANGED << same, sess, private, genVars, st >>

closed_10 ==
    /\ Step("closed_10")
    /\ sess' = [sess EXCEPT ![Arg(1)].info[Arg(2)].conn = NULL]
    /\ Run(<< >>)
    /\ UNCHANGED << same, private, genVars, st >>

\* The call becomes pending on the first connection that has room.
session_issue_call ==
    /\ Step("session_issue_call")
    /\ LET x == Arg(1)
           c == Arg(2)
           room == {i \in CI : sess[x].info[i].num_pending < param.max_piped}
           i == Min(room)
           ci == sess[x].info[i]
       IN  /\ Require(room # {}, "too many calls pending")
           /\ cpriv' = [cpriv EXCEPT ![c].sess = x]
           /\ IF room = {}
              THEN Run(<< >>) /\ UNCHANGED << sess, call >>
              ELSE /\ sess' = [sess EXCEPT ![x].info[i] =
                                 [ci EXCEPT !.num_pending = @ + 1, !.call[ci.wr] = c,
                                            !.wr = (@ + 1) % MAX_PIPED]]
                   /\ call' = [call EXCEPT ![c].ref = @ + 1]
                   /\ Run(<< << "send_calls", x, i >> >>)
    /\ UNCHANGED << conn, free, used, coreOnly, owner, genVars, st >>

-----------------------------------------------------------------------------
(* gen/sess_cookie.c *)

\* The cookie is added to the headers of a call, once however often the call
\* is issued.
cookie_issue ==
    /\ Step("cookie_issue")
    /\ LET c == Arg(1)
           has == sess[cpriv[c].sess].cookie # NULL
       IN  cpriv' = IF has /\ cpriv[c].cookies = 0 THEN [cpriv EXCEPT ![c].cookies = 1] ELSE cpriv
    /\ Run(<< >>)
    /\ UNCHANGED << same, sess, owner, genVars, st >>

\* One cookie is kept for each session, the last one the server set.
cookie_hdr ==
    /\ Step("cookie_hdr")
    /\ sess' = IF Arg(2)[1] = "cookie"
               THEN [sess EXCEPT ![cpriv[Arg(1)].sess].cookie = Arg(2)[2]] ELSE sess
    /\ Run(<< >>)
    /\ UNCHANGED << same, private, genVars, st >>

-----------------------------------------------------------------------------
(* What the three generators have in common. *)

\* The room for calls on the connections of a session, and what is taken of it.
session_max_qlen == param.max_conns * param.max_piped
session_current_qlen(x) ==
    LET pending(i) == sess[x].info[i].num_pending IN MapThenSumSet(pending, CI)

\* call_new.
NewCallIs(c) ==
    /\ c \in Call
    /\ call' = [call EXCEPT ![c] = NewCall]
    /\ Take("call")

\* A session begins to think; a delay that is not positive never ends.
Think(x, name, positive) ==
    /\ CanSchedule(timers)
    /\ timers' = timer_schedule(timers, << name, x, 0 >>, ~ positive)

\* The pause is over, and the next burst is issued.
ThinkTimeExpired(name, issue) ==
    /\ Step(name)
    /\ sess' = [sess EXCEPT ![Arg(1)].timer = NULL]
    /\ Run(<< << issue, Arg(1) >> >>)
    /\ Require(~ IsFree("sess", Arg(1)), "object_is_sess (sess)")
    /\ UNCHANGED << conn, call, free, used, coreOnly, private, genVars, st >>

\* The tick of the rate generator creates a session with the private data work.
CreateSession(work, issue) ==
    /\ Step("sess_create")
    /\ num_sessions_generated' = num_sessions_generated + 1
    /\ IF num_sessions_generated >= param.num_sessions
       THEN done' = TRUE /\ Run(<< >>) /\ UNCHANGED << sess, free, used >>
       ELSE LET x == object_new("sess")
            IN  /\ x \in Sess
                /\ sess' = [sess EXCEPT ![x] = NewSess(work)]
                /\ Take("sess")
                /\ Run(<< << issue, x >>, << "made" >> >>)
                /\ UNCHANGED done
    /\ UNCHANGED << conn, call, coreOnly, abort, private, num_sessions_destroyed, st >>

made ==
    /\ Step("made")
    /\ done' = FALSE
    /\ Run(<< >>)
    /\ UNCHANGED << same, sess, private, num_sessions_generated, num_sessions_destroyed, st >>

\* Mutant: the pause of a session that ends is not cancelled.
EndSessionNoCancel(name) ==
    /\ Step(name)
    /\ num_sessions_destroyed' = num_sessions_destroyed + 1
    /\ Run(IF num_sessions_destroyed + 1 >= param.num_sessions THEN << << "core_exit" >> >> ELSE << >>)
    /\ UNCHANGED << conn, call, free, used, coreOnly, abort, sess, private,
                    num_sessions_generated, done, st >>

\* Mutant: the test goes on after the last session.
EndSessionLate(name) ==
    /\ Step(name)
    /\ LET x == Arg(1)
           t == sess[x].timer
       IN  /\ timers' = IF t = NULL THEN timers ELSE timer_cancel(timers, t)
           /\ sess' = [sess EXCEPT ![x].timer = NULL]
    /\ num_sessions_destroyed' = num_sessions_destroyed + 1
    /\ Run(IF num_sessions_destroyed + 1 > param.num_sessions THEN << << "core_exit" >> >> ELSE << >>)
    /\ UNCHANGED << conn, call, free, used, sockets, net, result, running, abort, private,
                    num_sessions_generated, done, st >>

\* A session ends: its pause is cancelled, and the test stops after the last.
EndSession(name) ==
    /\ Step(name)
    /\ LET x == Arg(1)
           t == sess[x].timer
       IN  /\ timers' = IF t = NULL THEN timers ELSE timer_cancel(timers, t)
           /\ sess' = [sess EXCEPT ![x].timer = NULL]
    /\ num_sessions_destroyed' = num_sessions_destroyed + 1
    /\ Run(IF num_sessions_destroyed + 1 >= param.num_sessions THEN << << "core_exit" >> >> ELSE << >>)
    /\ UNCHANGED << conn, call, free, used, sockets, net, result, running, abort, private,
                    num_sessions_generated, done, st >>

-----------------------------------------------------------------------------
(* stat/sess_stat.c and gen/rate.c *)
count_sess ==
    /\ Step("count_sess")
    /\ LET x == Arg(1)
       IN  st' = [ num_completed |-> st.num_completed + (IF sess[x].failed THEN 0 ELSE 1),
                   num_failed |-> st.num_failed + (IF sess[x].failed THEN 1 ELSE 0),
                   num_conns |-> st.num_conns + (IF sess[x].failed THEN 0 ELSE sess[x].conns),
                   len_hist |-> IF sess[x].completed \in DOMAIN st.len_hist
                                THEN [st.len_hist EXCEPT ![sess[x].completed] = @ + 1]
                                ELSE st.len_hist @@ (sess[x].completed :> 1) ]
    /\ Run(<< >>)
    /\ UNCHANGED << same, sess, private, genVars >>

\* The handler of rate.c is registered only when the rate is 0.
done_handler ==
    /\ Step("done")
    /\ Run(IF done \/ param.rate THEN << >> ELSE << << "sess_create" >> >>)
    /\ UNCHANGED << same, sess, private, genVars, st >>

tick ==
    /\ Step("tick")
    /\ Run(IF done THEN << >> ELSE << << "sess_create" >>, << "tick_again" >> >>)
    /\ UNCHANGED << same, sess, private, genVars, st >>

tick_again ==
    /\ Step("tick_again")
    /\ \/ /\ done
          /\ Run(<< >>)
          /\ UNCHANGED timers
       \/ /\ ~ done
          /\ Run(<< << "sess_create" >>, << "tick_again" >> >>)
          /\ UNCHANGED timers
       \/ /\ ~ done /\ CanSchedule(timers)
          /\ timers' = timer_schedule(timers, << "tick", 0, 0 >>, FALSE)
          /\ Run(<< >>)
    /\ UNCHANGED << conn, call, free, used, sockets, net, result, running, abort, sess, private,
                    genVars, st >>

rate_generator_start ==
    /\ Step("start")
    /\ timers' = IF param.rate THEN timer_schedule(timers, << "tick", 0, 0 >>, FALSE) ELSE timers
    /\ Run(<< >>)
    /\ UNCHANGED << conn, call, free, used, sockets, net, result, running, abort, sess, private,
                    genVars, st >>

SessInit ==
    /\ CoreInit
    /\ free = [type \in {"conn", "call", "sess"} |-> << >>]
    /\ used = [type \in {"conn", "call", "sess"} |-> 0]
    /\ todo = << << "start" >>, << "sess_create" >> >>
    /\ sess = [x \in Sess |-> [NewSess(NULL) EXCEPT !.ref = 0]]
    /\ owner = [s \in Conn |-> [sess |-> NULL, ci |-> 0]]
    /\ cpriv = [c \in Call |-> NewPriv]
    /\ num_sessions_generated = 0 /\ num_sessions_destroyed = 0
    /\ done = FALSE
    /\ st = [num_completed |-> 0, num_failed |-> 0, num_conns |-> 0, len_hist |-> << >>]

\* The handlers of stat/basic.c that note something of a call.
Basic ==
    /\ note_recv_start \/ note_recv_stop
    /\ UNCHANGED << sess, private, genVars, st >>

Session ==
    \/ Basic
    \/ sess_failure \/ sess_dec_ref
    \/ create_conn \/ created \/ send_pending \/ send_call \/ call_sent
    \/ sess_destroyed \/ close_info \/ drop_pending
    \/ conn_connected \/ conn_failed \/ sess_timeout
    \/ call_done \/ close_10 \/ closed_10 \/ session_issue_call
    \/ cookie_issue \/ cookie_hdr \/ count_sess
    \/ made \/ done_handler \/ tick \/ tick_again \/ rate_generator_start
=============================================================================
