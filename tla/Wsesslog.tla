------------------------------ MODULE Wsesslog ------------------------------
(***************************************************************************)
(* Sessions that are described in a file: each session takes the next      *)
(* description, a sequence of bursts, and issues no more calls at a time   *)
(* than fit on its connections (attacker/httperf/src/gen/wsesslog.c).      *)
(* The methods and contents of the requests are left out.                  *)
(***************************************************************************)
EXTENDS HttperfSess

VARIABLE next_session_template

\* A line of the file: a comment, a blank line, or a request.  A request that
\* is not indented begins a burst; it may say how long to think after the
\* burst ("", "none" or "some").
Lines == [kind : {"comment", "blank"}] \cup
         [kind : {"request"}, indented : BOOLEAN, think : {"", "none", "some"}]

new_burst(think) == [num_reqs |-> 0, think |-> think]

\* The common steps for all requests.
new_request(bursts, line) ==
    [bursts EXCEPT ![Len(bursts)] =
        [num_reqs |-> @.num_reqs + 1,
         think |-> IF line.think = "" THEN @.think ELSE line.think = "some"]]

\* P is the list of descriptions so far, and whether the last is still open.
ParseLine(P, line, think) ==
    CASE line.kind = "comment" -> P
      [] line.kind = "blank" -> [P EXCEPT !.open = FALSE]
      [] line.kind = "request" /\ ~ P.open ->
           [ open |-> TRUE,
             templates |-> Append(P.templates, new_request(<< new_burst(think) >>, line)) ]
      [] line.kind = "request" /\ P.open /\ ~ line.indented ->
           [P EXCEPT !.templates[Len(P.templates)] =
               new_request(Append(@, new_burst(think)), line)]
      [] line.kind = "request" /\ P.open /\ line.indented ->
           [P EXCEPT !.templates[Len(P.templates)] = new_request(@, line)]

\* parse_config; think is the time given on the command line.
parse_config(lines, think) ==
    LET Line(P, line) == ParseLine(P, line, think)
    IN  FoldLeft(Line, [templates |-> << >>, open |-> FALSE], lines).templates

session_templates == parse_config(param.file, param.think_time)

total_num_reqs(bursts) ==
    LET reqs(b) == bursts[b].num_reqs IN MapThenSumSet(reqs, DOMAIN bursts)

ASSUME WsesslogAssumption ==
    \A p \in Params : p.workload = "wsesslog" =>
        /\ p.file \in Seq(Lines)
        /\ parse_config(p.file, p.think_time) # << >>

-----------------------------------------------------------------------------
\* bursts holds the current burst and those after it, current_req the number of
\* requests of the current one that are still to be issued.
NewWsesslog(bursts) ==
    [ in_burst |-> 0, target |-> bursts[1].num_reqs, destroyed |-> 0,
      total |-> total_num_reqs(bursts), bursts |-> bursts, current_req |-> bursts[1].num_reqs ]

\* How many calls fit on the connections.
log_room(x) == session_max_qlen - session_current_qlen(x)

log_issue_calls ==
    /\ Step("log_issue_calls")
    /\ LET x == Arg(1)
           w == sess[x].work
           wanted == IF w.in_burst > 0 THEN w.bursts[1].num_reqs - w.in_burst ELSE 1
           n == Min({wanted, log_room(x)})
       IN  /\ sess' = [sess EXCEPT ![x].work.in_burst = @ + n]
           /\ Run(<< << "log_issue_call", x, n >> >>)
    /\ UNCHANGED << same, private, genVars, st, next_session_template >>

log_issue_call ==
    /\ Step("log_issue_call")
    /\ LET x == Arg(1)
           left == Arg(2)
           c == object_new("call")
       IN  IF left = 0
           THEN Run(<< >>) /\ UNCHANGED << call, free, used, cpriv, sess, abort >>
           ELSE /\ NewCallIs(c)
                /\ cpriv' = [cpriv EXCEPT ![c] = NewPriv]
                /\ sess' = [sess EXCEPT ![x].work.current_req = @ - 1]
                /\ Require(sess[x].work.current_req > 0, "requests ran past end of burst")
                /\ Run(<< << "session_issue_call", x, c >>, << "call_dec_ref", c >>,
                          << "log_issue_call", x, left - 1 >> >>)
    /\ UNCHANGED << conn, coreOnly, owner, genVars, st, next_session_template >>

log_think_time_expired ==
    /\ ThinkTimeExpired("log_think", "log_issue_calls")
    /\ UNCHANGED next_session_template

\* A session takes the descriptions in turn.
log_sess_create ==
    /\ param.workload = "wsesslog"
    /\ CreateSession(NewWsesslog(session_templates[next_session_template]), "log_issue_calls")
    /\ next_session_template' =
         IF num_sessions_generated >= param.num_sessions THEN next_session_template
         ELSE (next_session_template % Len(session_templates)) + 1

\* The session goes on with its next burst, after the pause of the last one.
prepare_for_next_burst(x, w) ==
    LET bursts == Tail(w.bursts)
    IN  /\ Require(sess[x].timer = NULL, "!priv->timer")
        /\ sess' = [sess EXCEPT ![x].timer = NextTimer(timers),
                                ![x].work = [w EXCEPT !.bursts = bursts, !.in_burst = 0,
                                                      !.current_req = bursts[1].num_reqs,
                                                      !.target = @ + bursts[1].num_reqs]]
        /\ Think(x, "log_think", Head(w.bursts).think)

\* The calls of a session that has failed are not counted.
log_call_destroyed ==
    /\ Step("log_call_destroyed")
    /\ LET x == cpriv[Arg(1)].sess
           w == [sess[x].work EXCEPT !.destroyed = @ + 1]
           over == w.destroyed >= w.total
           rest == ~ over /\ w.in_burst < w.bursts[1].num_reqs
           pause == ~ over /\ ~ rest /\ w.destroyed >= w.target
       IN  IF sess[x].failed
           THEN Run(<< >>) /\ UNCHANGED << sess, timers, abort >>
           ELSE /\ Run(IF over THEN << << "sess_dec_ref", x >> >>
                       ELSE IF rest THEN << << "log_issue_calls", x >> >>
                       ELSE << >>)
                /\ IF pause
                   THEN prepare_for_next_burst(x, w)
                   ELSE sess' = [sess EXCEPT ![x].work = w] /\ UNCHANGED << timers, abort >>
    /\ UNCHANGED << conn, call, free, used, sockets, net, result, running, private, genVars, st,
                    next_session_template >>

log_sess_destroyed == EndSession("log_destroyed") /\ UNCHANGED next_session_template

WsesslogHandlers(event) ==
    CASE event = "EV_SESS_DESTROYED" -> << "log_destroyed" >>
      [] event = "EV_CALL_DESTROYED" -> << "log_call_destroyed" >>
      [] OTHER -> << >>

WsesslogStep ==
    \/ log_issue_calls \/ log_issue_call \/ log_think_time_expired
    \/ log_call_destroyed \/ log_sess_create \/ log_sess_destroyed
=============================================================================
