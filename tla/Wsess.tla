-------------------------------- MODULE Wsess --------------------------------
(***************************************************************************)
(* Sessions of bursts: each session issues a fixed number of calls, in     *)
(* bursts of a fixed length with a pause after each                        *)
(* (attacker/httperf/src/gen/wsess.c).                                     *)
(***************************************************************************)
EXTENDS HttperfSess

\* A command line gives the calls of a session and of a burst.
ASSUME WsessAssumption ==
    \A p \in Params : p.workload = "wsess" => {p.num_calls, p.burst_len} \subseteq Nat \ {0}

NewWsess == [in_burst |-> 0, target |-> param.burst_len, destroyed |-> 0]

\* The first call of a burst is issued alone, and the others when its reply
\* has come.
wsess_issue_calls ==
    /\ Step("wsess_issue_calls")
    /\ LET x == Arg(1)
           n == IF sess[x].work.in_burst > 0 THEN param.burst_len - sess[x].work.in_burst ELSE 1
       IN  /\ sess' = [sess EXCEPT ![x].work.in_burst = @ + n]
           /\ Run(<< << "wsess_issue_call", x, n >> >>)
    /\ UNCHANGED << same, private, genVars, st >>

wsess_issue_call ==
    /\ Step("wsess_issue_call")
    /\ LET x == Arg(1)
           left == Arg(2)
           c == object_new("call")
       IN  IF left = 0
           THEN Run(<< >>) /\ UNCHANGED << call, free, used, cpriv >>
           ELSE /\ NewCallIs(c)
                /\ cpriv' = [cpriv EXCEPT ![c] = NewPriv]
                /\ Run(<< << "session_issue_call", x, c >>, << "call_dec_ref", c >>,
                          << "wsess_issue_call", x, left - 1 >> >>)
    /\ UNCHANGED << conn, coreOnly, abort, sess, owner, genVars, st >>

wsess_think_time_expired == ThinkTimeExpired("wsess_think", "wsess_issue_calls")

\* What a session does when one of its calls is gone: it ends, it issues the
\* rest of its burst, or it pauses when the burst is over.
wsess_call_destroyed ==
    /\ Step("wsess_call_destroyed")
    /\ LET x == cpriv[Arg(1)].sess
           w == sess[x].work
           gone == w.destroyed + 1
           over == gone >= param.num_calls
           rest == ~ over /\ w.in_burst < param.burst_len
           pause == ~ over /\ ~ rest /\ gone >= w.target
       IN  /\ Require(pause => sess[x].timer = NULL, "!priv->timer")
           /\ Run(IF over /\ ~ sess[x].failed THEN << << "sess_dec_ref", x >> >>
                  ELSE IF rest THEN << << "wsess_issue_calls", x >> >>
                  ELSE << >>)
           /\ IF pause
              THEN /\ sess' = [sess EXCEPT ![x].timer = NextTimer(timers),
                                           ![x].work = [in_burst |-> 0, destroyed |-> gone,
                                                        target |-> w.target + param.burst_len]]
                   /\ Think(x, "wsess_think", param.think_time)
              ELSE /\ sess' = [sess EXCEPT ![x].work.destroyed = gone]
                   /\ UNCHANGED timers
    /\ UNCHANGED << conn, call, free, used, sockets, net, result, running, private, genVars, st >>

wsess_sess_create ==
    param.workload = "wsess" /\ CreateSession(NewWsess, "wsess_issue_calls")

wsess_sess_destroyed == EndSession("wsess_destroyed")

WsessHandlers(event) ==
    CASE event = "EV_SESS_DESTROYED" -> << "wsess_destroyed" >>
      [] event = "EV_CALL_DESTROYED" -> << "wsess_call_destroyed" >>
      [] OTHER -> << >>

WsessStep ==
    \/ wsess_issue_calls \/ wsess_issue_call \/ wsess_think_time_expired
    \/ wsess_call_destroyed \/ wsess_sess_create \/ wsess_sess_destroyed
=============================================================================
