------------------------------ MODULE HttperfWork ------------------------------
(***************************************************************************)
(* httperf with sessions of any of the three kinds: which functions each   *)
(* registers for an event, in the order in which they are registered (the  *)
(* statistics first), and what holds of all of them.                       *)
(***************************************************************************)
EXTENDS Wsess, Wsesslog, Wsesspage

WorkloadHandlers(p, event) ==
    CASE p.workload = "wsess" -> WsessHandlers(event)
      [] p.workload = "wsesslog" -> WsesslogHandlers(event)
      [] p.workload = "wsesspage" -> WsesspageHandlers(event)

\* wsesslog calls session_init when its own handlers are registered, the others
\* before.
SessDestroyed(p) ==
    LET mine == WorkloadHandlers(p, "EV_SESS_DESTROYED")
    IN  << "count_sess" >>
        \o (IF p.workload = "wsesslog" THEN mine \o << "sess_destroyed" >>
                                       ELSE << "sess_destroyed" >> \o mine)
        \o << "done" >>

WorkHandlers(p, event) ==
    CASE event = "EV_SESS_DESTROYED" -> SessDestroyed(p)
      [] event = "EV_CONN_CONNECTED" -> << "conn_connected" >>
      [] event = "EV_CONN_FAILED" -> << "conn_failed" >>
      [] event = "EV_CONN_TIMEOUT" -> << "sess_timeout" >>
      [] event = "EV_CALL_RECV_START" -> << "recv_start" >>
      [] event = "EV_CALL_RECV_STOP" -> << "recv_stop", "call_done" >>
      [] event = "EV_CALL_ISSUE" -> IF p.cookie THEN << "cookie_issue" >> ELSE << >>
      [] event = "EV_CALL_RECV_HDR" ->
             WorkloadHandlers(p, event) \o IF p.cookie THEN << "cookie_hdr" >> ELSE << >>
      [] OTHER -> WorkloadHandlers(p, event)

vars == << sessVars, next_session_template >>

Init == SessInit /\ next_session_template = 1

Core ==
    /\ CoreFunction \/ \E due \in SUBSET Pending(timers) : core_loop(due)
    /\ UNCHANGED << param, drops, sess, private, genVars, st, next_session_template >>

Generator ==
    /\ \/ (Session \/ WsessStep \/ WsesspageStep) /\ UNCHANGED next_session_template
       \/ WsesslogStep
    /\ UNCHANGED << param, drops >>

Server == Network /\ UNCHANGED << param, sess, private, genVars, st, next_session_template >>

Next == Core \/ Generator \/ Server

\* httperf goes on while it has something to do, and timers become due at last.
Fairness == WF_vars(Core \/ Generator)

Spec == Init /\ [][Next]_vars /\ Fairness

-----------------------------------------------------------------------------
LiveSess == {x \in Allocated("sess") : ~ IsFree("sess", x)}
Ring(ci) == [k \in 1 .. ci.num_pending |-> ci.call[(ci.rd + k - 1) % MAX_PIPED]]
Thinking(t) == timers.callback[t][1] \in {"wsess_think", "log_think", "page_think"}

\* Between two turns of the loop, the calls of a session are exactly its
\* pending ones, in at most one ring and one queue, and each is held once for
\* each of the two; no more are pending or sent than there may be; and a pause
\* ends only for a session that is alive.
RefsHeld ==
    Idle =>
        /\ \A s \in Allocated("conn") : ~ IsFree("conn", s) =>
              /\ conn[s].ref = 1
              /\ owner[s].sess \in LiveSess
              /\ sess[owner[s].sess].info[owner[s].ci].conn = s
        /\ \A x \in LiveSess, i \in CI :
              LET ci == sess[x].info[i]
              IN  /\ ci.num_sent <= ci.num_pending /\ ci.num_pending <= param.max_piped
                  /\ \A k \in DOMAIN Ring(ci) :
                       LET c == Ring(ci)[k]
                       IN  /\ ~ IsFree("call", c) /\ cpriv[c].sess = x
                           /\ call[c].ref = IF k <= ci.num_sent THEN 2 ELSE 1
                           /\ k <= ci.num_sent => call[c].conn = ci.conn
        /\ \A c \in Allocated("call") : ~ IsFree("call", c) =>
              \E i \in CI : c \in Range(Ring(sess[cpriv[c].sess].info[i]))
        /\ \A t \in Pending(timers) : Thinking(t) =>
              LET x == timers.callback[t][2] IN x \in LiveSess /\ sess[x].timer = t

\* The replies that complete a session: all the calls of the command line or of
\* its description; a page and the objects it embeds, for each page asked for.
Lengths ==
    CASE param.workload = "wsess" -> {param.num_calls}
      [] param.workload = "wsesslog" ->
             {total_num_reqs(session_templates[i]) : i \in DOMAIN session_templates}
      [] param.workload = "wsesspage" -> {param.num_reqs * (1 + param.embeds)}

\* A session is counted once, and as completed only with a reply to every call;
\* a session that browses has then fetched each object of its page, if the page
\* was not cut short: the end of the stream completes any body.
Counted ==
    /\ Idle => /\ st.num_completed + st.num_failed = num_sessions_destroyed
               /\ num_sessions_destroyed + Cardinality(LiveSess)
                    = IF num_sessions_generated < param.num_sessions
                      THEN num_sessions_generated ELSE param.num_sessions
    /\ LET counted(n) == IF n \in DOMAIN st.len_hist THEN st.len_hist[n] ELSE 0
       IN  \/ MapThenSumSet(counted, Lengths) >= st.num_completed
           \/ param.workload = "wsesspage" /\ drops > 0

\* A browsing session knows which of its calls are under way, and leaves no
\* object waiting while there is room.
PageCounts ==
    Idle /\ param.workload = "wsesspage" =>
        \A x \in LiveSess :
            LET w == sess[x].work
            IN  /\ w.created - w.destroyed = session_current_qlen(x)
                /\ w.uri_list # << >> => session_current_qlen(x) = session_max_qlen

\* The test ends, if httperf does not wait for ever.
Ends == param.timeout => <>(~ running)
=============================================================================
