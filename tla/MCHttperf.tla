------------------------------ MODULE MCHttperf ------------------------------
(***************************************************************************)
(* Values for the models of httperf without sessions: the command lines    *)
(* and the replies.                                                        *)
(***************************************************************************)
EXTENDS HttperfSeq

\* Two connections at a rate, from two local addresses.
Single ==
    [ num_conns |-> 2, num_calls |-> 1, burst_len |-> 1, rate |-> TRUE, timeout |-> TRUE,
      hog |-> TRUE, addresses |-> 2, uri |-> "wlist", do_loop |-> TRUE,
      miss_rate |-> 0, id |-> 0, num_clients |-> 1, num_files |-> 2 ]

\* The same one after the other, the next one made when one is gone.
Sequential == [Single EXCEPT !.rate = FALSE]

\* One connection: its calls one after the other, or pipelined in two bursts, with
\* a timeout and without.
Serial == [Single EXCEPT !.num_conns = 1, !.num_calls = 2, !.uri = "wlog", !.do_loop = FALSE]
Timed == [Single EXCEPT !.num_conns = 1, !.num_calls = 2, !.burst_len = 2, !.uri = "fixed"]
Pipelined ==
    [Timed EXCEPT !.num_calls = 4, !.timeout = FALSE, !.uri = "wset", !.miss_rate = 2]
Plain == [Serial EXCEPT !.num_calls = 1, !.uri = "fixed"]

UriList == << "a", "", "b" >>

Even == {Single, Sequential, Serial, Pipelined, Plain}

Blank == << << "blank", 0, 2 >> >>
TheLine(kind, n) == << << kind, n, 1 >>, << kind, n, 2 >> >>

\* A server without content, with some of announced length, and one whose status
\* line is none: httperf takes what follows its headers for content.
NoContent == TheLine("status", 204) \o Blank
Content ==
    TheLine("status", 200) \o TheLine("length", 1) \o Blank \o << << "data", 0, 1 >> >>
Invalid == TheLine("other", 0) \o Blank

Answers(uri) == {NoContent, Content, Invalid}
===============================================================================
