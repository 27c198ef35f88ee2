---------------------------- MODULE MCReplyStream ----------------------------
(***************************************************************************)
(* Replies of every form the parser tells apart, two of them pipelined.    *)
(***************************************************************************)
EXTENDS ReplyStream

TheLine(kind, n) == << << kind, n, 1 >>, << kind, n, 2 >> >>
Blank == << << "blank", 0, 1 >>, << "blank", 0, 2 >> >>
Data(n) == [i \in 1 .. n |-> << "data", 0, 1 >>]

\* As long a line as line_buf holds.
LongLine == [i \in 1 .. MaxLine - 2 |-> << "other", 0, 1 >>] \o << << "other", 0, 2 >> >>

Reply(units, body, untilEof) == [units |-> units, body |-> body, untilEof |-> untilEof]

Sized == Reply(TheLine("status", 200) \o TheLine("length", 2) \o Blank \o Data(2), 2, FALSE)
Empty == Reply(TheLine("status", 200) \o TheLine("length", 0) \o Blank, 0, FALSE)
NoContent == Reply(TheLine("status", 204) \o LongLine \o Blank, 0, FALSE)
Chunked ==
    Reply(TheLine("status", 200) \o TheLine("chunked", 0) \o Blank
          \o TheLine("size", 1) \o Data(1) \o Blank \o TheLine("size", 2) \o Data(2) \o Blank
          \o TheLine("size", 0) \o Blank, 3, FALSE)
Footers ==
    Reply(TheLine("status", 500) \o TheLine("chunked", 0) \o Blank
          \o TheLine("size", 1) \o Data(1) \o Blank \o TheLine("size", 0)
          \o TheLine("other", 0) \o Blank, 1, FALSE)
UntilEof == Reply(TheLine("status", 404) \o TheLine("other", 0) \o Blank \o Data(2), 2, TRUE)

WellFormed == {Sized, Empty, NoContent, Chunked, Footers, UntilEof}
=============================================================================
