---------------------------- MODULE MCHttperfSess ----------------------------
(***************************************************************************)
(* Values for the models of httperf with sessions: the command lines, the  *)
(* files and the site.                                                     *)
(***************************************************************************)
EXTENDS HttperfWork

\* One session that makes its calls one at a time, on one connection.
Plain ==
    [ workload |-> "wsess", cookie |-> FALSE, num_sessions |-> 1, num_calls |-> 2,
      burst_len |-> 1, think_time |-> TRUE, max_conns |-> 1, max_piped |-> 1,
      retry_on_failure |-> FALSE, failure_status |-> NULL,
      http10 |-> FALSE, rate |-> TRUE, timeout |-> TRUE, hog |-> FALSE, addresses |-> 1,
      file |-> << >>, num_reqs |-> 1, embeds |-> 0 ]

\* The same with HTTP/1.0; two sessions, at a rate and one after the other; a reply
\* that fails the session.
Old == [Plain EXCEPT !.http10 = TRUE]
Two == [Plain EXCEPT !.num_sessions = 2, !.num_calls = 1, !.timeout = FALSE]
InTurn == [Two EXCEPT !.rate = FALSE]
Choosy == [Plain EXCEPT !.num_calls = 1, !.failure_status = 204]

\* Bursts: the calls of one are pipelined, or spread over two connections; a
\* call that fails is made again, and nothing times out.
Pipelined ==
    [Plain EXCEPT !.num_calls = 4, !.burst_len = 3, !.max_piped = 2, !.hog = TRUE,
                  !.retry_on_failure = TRUE, !.timeout = FALSE, !.cookie = TRUE]
Spread ==
    [Plain EXCEPT !.num_calls = 3, !.burst_len = 3, !.max_conns = 2, !.http10 = TRUE,
                  !.retry_on_failure = TRUE, !.timeout = FALSE]

\* A file of two sessions: bursts of two requests and of one, and one of one.
request(indented, think) == [kind |-> "request", indented |-> indented, think |-> think]
Logged ==
    [Plain EXCEPT !.workload = "wsesslog", !.file =
        << [kind |-> "comment"], request(FALSE, ""), request(TRUE, "some"), request(FALSE, "none"),
           [kind |-> "blank"], request(FALSE, "") >>]
LoggedWide == [Logged EXCEPT !.num_sessions = 2, !.max_piped = 2, !.timeout = FALSE]

\* A browser that asks for a page once.
Browsing ==
    [Plain EXCEPT !.workload = "wsesspage", !.max_piped = 2, !.embeds = 2, !.cookie = TRUE]

Mixed == {Plain, Old, Two, InTurn, Choosy, Pipelined, Spread, Logged, LoggedWide, Browsing}

-----------------------------------------------------------------------------
\* The site: a page with a comment, an image of another server and two of its
\* own; everything else has no content.
NoContent == << << "status", 204, 1 >>, << "status", 204, 2 >>, << "blank", 0, 2 >> >>

Line(kind, what) == << << kind, what, 1 >>, << kind, what, 2 >> >>
Text(tokens) == [i \in DOMAIN tokens |-> << "data", tokens[i], 1 >>]
Img(uri) == << << "<" >>, << "img" >>, << "sp" >>, << "src=" >>, << "quote" >>, uri, << "quote" >>,
               << ">" >> >>

Comment == << << "<" >>, << "!--" >>, << "sp" >> >> \o Img(<< "uri", "own", "no" >>)
           \o << << "-" >>, << "-" >>, << ">" >> >>
Html == Comment \o Img(<< "uri", "other", "far" >>) \o Img(<< "uri", "relative", "pic" >>)
        \o << << "<" >>, << "frame" >>, << "sp" >>, << "src=" >>, << "uri", "own", "top" >>,
              << "sp" >>, << ">" >> >>

Page ==
    Line("status", 200) \o Line("length", Len(Html)) \o Line("type", "html")
    \o Line("cookie", "id") \o << << "blank", 0, 2 >> >> \o Text(Html)

SiteReplies(uri) == IF param.workload = "wsesspage" /\ uri = NULL THEN {Page} ELSE {NoContent}
===============================================================================
