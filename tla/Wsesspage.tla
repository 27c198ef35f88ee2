------------------------------ MODULE Wsesspage ------------------------------
(***************************************************************************)
(* Sessions that behave like a browser: a page is fetched, its text is     *)
(* scanned as it arrives, and the objects it embeds are fetched over the   *)
(* connections of the session (attacker/httperf/src/gen/wsesspage.c).      *)
(*                                                                         *)
(* A unit of body is one token of the text: << "<" >>, << ">" >>,          *)
(* << "sp" >>, << "quote" >>, << "-" >>, << "!--" >>, << "img" >> (or      *)
(* frame, iframe, or another word), << "src=" >>, or a URI                 *)
(* << "uri", kind, name >> whose kind is "relative", "absolute", "own"     *)
(* (with the name of the server) or "other" (of another server).           *)
(***************************************************************************)
EXTENDS HttperfSess

CONSTANT prefix      \* what precedes the last part of the page's URI

ASSUME WsesspageAssumption ==
    \A p \in Params : p.workload = "wsesspage" => p.num_reqs \in Nat \ {0}

NewWsesspage == [created |-> 0, destroyed |-> 0, num_reqs |-> 0, uri_list |-> << >>]

\* Mutant: one place is kept free.
page_roomLess(x) == session_max_qlen - session_current_qlen(x) - 1

\* How many calls fit on the connections.
page_room(x) == session_max_qlen - session_current_qlen(x)

\* The page itself, or as many of the objects that wait as there is room for.
page_issue_calls ==
    /\ Step("page_issue_calls")
    /\ LET x == Arg(1)
           embedded == sess[x].work.created > 0
       IN  Run(<< << "page_issue_call", x, IF embedded THEN page_room(x) ELSE 1, embedded >> >>)
    /\ UNCHANGED << same, sess, private, genVars, st >>

page_issue_call ==
    /\ Step("page_issue_call")
    /\ LET x == Arg(1)
           left == Arg(2)
           embedded == Arg(3)
           waiting == sess[x].work.uri_list
           c == object_new("call")
       IN  IF left <= 0 \/ (embedded /\ waiting = << >>)
           THEN Run(<< >>) /\ UNCHANGED << call, free, used, sess, cpriv >>
           ELSE /\ c \in Call
                /\ call' = [call EXCEPT ![c] = [NewCall EXCEPT !.uri = IF embedded THEN Head(waiting)
                                                                       ELSE NULL]]
                /\ Take("call")
                /\ cpriv' = [cpriv EXCEPT ![c] = NewPriv]
                /\ sess' = [sess EXCEPT ![x].work.created = @ + 1,
                                        ![x].work.uri_list = IF embedded THEN Tail(@) ELSE @]
                /\ Run(<< << "session_issue_call", x, c >>, << "call_dec_ref", c >>,
                          << "page_issue_call", x, left - 1, embedded >> >>)
    /\ UNCHANGED << conn, coreOnly, abort, owner, genVars, st >>

\* A URI of another server is ignored; the others are put in front of those
\* that wait, a relative one after the prefix.
Resolve(uri) == IF uri[2] = "relative" THEN << prefix, uri[3] >> ELSE << uri[3] >>

page_fetch_uri ==
    /\ Step("page_fetch_uri")
    /\ LET x == Arg(1)
           uri == Arg(2)
       IN  IF uri[2] = "other"
           THEN Run(<< >>) /\ UNCHANGED sess
           ELSE /\ sess' = [sess EXCEPT ![x].work.uri_list = << Resolve(uri) >> \o @]
                /\ Run(<< << "page_issue_calls", x >> >>)
    /\ UNCHANGED << same, private, genVars, st >>

page_think_time_expired == ThinkTimeExpired("page_think", "page_issue_calls")

\* A reply that is text is scanned; a redirection is followed.
page_hdr ==
    /\ Step("page_hdr")
    /\ LET c == Arg(1)
           m == Arg(2)
       IN  /\ cpriv' = IF m = << "type", "html" >> THEN [cpriv EXCEPT ![c].scan = "P_HTML"] ELSE cpriv
           /\ Run(IF m[1] = "location" THEN << << "page_fetch_uri", cpriv[c].sess, m[2] >> >>
                                       ELSE << >>)
    /\ UNCHANGED << same, sess, owner, genVars, st >>

-----------------------------------------------------------------------------
\* The characters of a token, those of a word or a URI being more than three.
Size(token) ==
    CASE token[1] \in {"!--", "img"} -> 3
      [] token[1] \in {"<", ">", "sp", "quote", "-"} -> 1
      [] OTHER -> 4

Sizes(tokens) == LET size(i) == Size(tokens[i]) IN MapThenSumSet(size, DOMAIN tokens)

\* A token joins the buffer; dirty says that the buffer's fourth character has
\* been written.
Keep(p, token) ==
    LET buf == Append(p.buf, token)
    IN  [p EXCEPT !.buf = buf, !.dirty = @ \/ Sizes(buf) > 3]

\* The command of a tag is complete.  The buffer has no end of its own: "!--" is
\* compared with all it holds.
Command(p) ==
    CASE p.buf = << << "!--" >> >> /\ ~ p.dirty -> "P_DASH_ONE"
      [] p.buf \in {<< << "img" >> >>, << << "frame" >> >>, << << "iframe" >> >>} -> "P_SRC"
      [] p.buf = << >> -> "P_HTML"
      [] OTHER -> "P_CMD"

UriEnds(p, token) ==
    \/ p.scan = "P_QUOTED_URI" /\ token = << "quote" >>
    \/ p.scan = "P_NAKED_URI" /\ token = << "sp" >>

\* One turn of the loop of call_recv_data.
Scan(p, token) ==
    CASE p.scan = "P_HTML" ->
             [p EXCEPT !.buf = << >>, !.scan = IF token = << "<" >> THEN "P_CMD" ELSE @]
      [] p.scan = "P_CMD" /\ token = << "sp" >> ->
             [p EXCEPT !.buf = << >>, !.scan = Command(p)]
      [] p.scan = "P_CMD" /\ token = << "src=" >> -> [p EXCEPT !.buf = << >>]
      [] p.scan \in {"P_CMD", "P_SRC", "P_RANGLE"} /\ token = << ">" >> ->
             [p EXCEPT !.scan = "P_HTML"]
      [] p.scan = "P_CMD" /\ token[1] \notin {"sp", "src=", ">"} -> Keep(p, token)
      [] p.scan = "P_DASH_ONE" ->
             [p EXCEPT !.scan = IF token = << "-" >> THEN "P_DASH_TWO" ELSE @]
      [] p.scan = "P_DASH_TWO" ->
             [p EXCEPT !.scan = IF token = << "-" >> THEN "P_RANGLE" ELSE "P_DASH_ONE"]
      [] p.scan = "P_SRC" /\ token = << "src=" >> ->
             [p EXCEPT !.scan = "P_LQUOTE", !.buf = << >>, !.dirty = TRUE]
      [] p.scan = "P_SRC" /\ token[1] \notin {"src=", ">"} -> Keep(p, token)
      [] p.scan = "P_LQUOTE" /\ token = << "quote" >> -> [p EXCEPT !.scan = "P_QUOTED_URI"]
      [] p.scan = "P_LQUOTE" /\ token[1] \notin {"quote", "sp"} ->
             Keep([p EXCEPT !.scan = "P_NAKED_URI"], token)
      [] UriEnds(p, token) -> [p EXCEPT !.scan = "P_HTML", !.buf = << >>]
      [] p.scan \in {"P_QUOTED_URI", "P_NAKED_URI"} /\ ~ UriEnds(p, token) -> Keep(p, token)
      [] OTHER -> p

\* A body that is no text is skipped.
page_data ==
    /\ Step("page_data")
    /\ Run(IF cpriv[Arg(1)].scan = "P_INITIAL" THEN << >> ELSE << << "page_scan", Arg(1), Arg(2) >> >>)
    /\ UNCHANGED << same, sess, private, genVars, st >>

page_scan ==
    /\ Step("page_scan")
    /\ LET c == Arg(1)
           p == cpriv[c]
           token == Head(Arg(2))[2]
       IN  IF Arg(2) = << >>
           THEN Run(<< >>) /\ UNCHANGED cpriv
           ELSE /\ cpriv' = [cpriv EXCEPT ![c] = Scan(p, token)]
                /\ Run((IF UriEnds(p, token) THEN << << "page_fetch_uri", p.sess, p.buf[1] >> >>
                                             ELSE << >>)
                       \o << << "page_scan", c, Tail(Arg(2)) >> >>)
    /\ UNCHANGED << same, sess, owner, genVars, st >>

-----------------------------------------------------------------------------
\* What a session does when one of its calls is gone: it fetches the objects
\* that wait or, when there are none and no calls, ends or pauses.  The number
\* of calls destroyed is never set back.
page_call_destroyed ==
    /\ Step("page_call_destroyed")
    /\ LET x == cpriv[Arg(1)].sess
           w == [sess[x].work EXCEPT !.destroyed = @ + 1]
           waiting == w.uri_list # << >>
           over == ~ sess[x].failed /\ ~ waiting /\ w.destroyed >= w.created
           last == w.num_reqs + 1 >= param.num_reqs
           pause == over /\ ~ last
       IN  /\ Require(pause => sess[x].timer = NULL, "!priv->timer")
           /\ Run(IF ~ sess[x].failed /\ waiting THEN << << "page_issue_calls", x >> >>
                  ELSE IF over /\ last THEN << << "sess_dec_ref", x >> >>
                  ELSE << >>)
           /\ IF pause
              THEN /\ sess' = [sess EXCEPT ![x].timer = NextTimer(timers),
                                           ![x].work = [w EXCEPT !.created = 0, !.num_reqs = @ + 1]]
                   /\ Think(x, "page_think", param.think_time)
              ELSE /\ sess' = [sess EXCEPT ![x].work =
                                 IF over THEN [w EXCEPT !.num_reqs = @ + 1] ELSE w]
                   /\ UNCHANGED timers
    /\ UNCHANGED << conn, call, free, used, sockets, net, result, running, private, genVars, st >>

page_sess_create ==
    param.workload = "wsesspage" /\ CreateSession(NewWsesspage, "page_issue_calls")

page_sess_destroyed == EndSession("page_destroyed")

WsesspageHandlers(event) ==
    CASE event = "EV_SESS_DESTROYED" -> << "page_destroyed" >>
      [] event = "EV_CALL_DESTROYED" -> << "page_call_destroyed" >>
      [] event = "EV_CALL_RECV_HDR" -> << "page_hdr" >>
      [] event = "EV_CALL_RECV_DATA" -> << "page_data" >>
      [] OTHER -> << >>

WsesspageStep ==
    \/ page_issue_calls \/ page_issue_call \/ page_fetch_uri \/ page_think_time_expired
    \/ page_hdr \/ page_data \/ page_scan
    \/ page_call_destroyed \/ page_sess_create \/ page_sess_destroyed
=============================================================================
