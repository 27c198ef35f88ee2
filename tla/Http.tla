--------------------------------- MODULE Http ---------------------------------
(***************************************************************************)
(* The reply parser of the traffic generator (attacker/httperf/src/http.c).*)
(* What a server sends is a sequence of units, runs of bytes that no read  *)
(* splits: a unit is << kind, n, part >>.  Part 1 is text, part 2 is the   *)
(* end of the line (it holds the line feed) and nothing else; a line that  *)
(* means something is one of each.  A unit of body has kind "data" and no  *)
(* line feed.  Lengths count units, and a size_t holds 0 .. Word - 1,      *)
(* "infinite" being the largest.                                           *)
(*                                                                         *)
(* The parser's state is a record: the fields of the connection            *)
(*   state, line, content_length, has_body, is_chunked                     *)
(* and of the call whose reply comes next                                  *)
(*   got (reply.content_bytes), status (reply.status).                     *)
(* One step takes one line or one run of body, as one turn of the C loops  *)
(* does; it yields the new record, the units left, and the event that is   *)
(* signalled on the way with its argument, the line or the body.           *)
(***************************************************************************)
EXTENDS Integers, Sequences, SequencesExt

CONSTANTS
    Word,      \* how many values a size_t has
    MaxLine    \* the size of line_buf, in units

ASSUME HttpAssumption == Word \in Nat \ {0, 1} /\ MaxLine \in Nat \ {0, 1}

Inf == Word - 1

NoReply ==
    [line |-> << >>, content_length |-> 0, has_body |-> FALSE, is_chunked |-> FALSE]

Ended(unit) == unit[3] = 2

\* What a complete line says: its kind and number, that it is empty, or that it
\* is no line the parser knows.  An end of line without its text is an empty line
\* too: what is left of a line that was complete without its end.
Meaning(line) ==
    CASE Len(line) = 2 /\ line[1] = << line[2][1], line[2][2], 1 >> ->
             << line[2][1], line[2][2] >>
      [] Len(line) = 1 /\ Ended(line[1]) -> << "blank", 0 >>
      [] OTHER -> << "junk", 0 >>

\* Takes the units up to the next line feed, and drops what the buffer of a
\* line cannot hold.  A line that fills the buffer is complete, and what a later
\* read brings of it is taken for the next line.
get_line(s, buf) ==
    LET eol == SelectInSeq(buf, Ended)
        taken == IF eol = 0 THEN Len(buf) ELSE eol
        room == MaxLine - 1 - Len(s.line)
        line == s.line \o SubSeq(buf, 1, IF taken <= room THEN taken ELSE room)
    IN  [ line |-> line,
          rest |-> SubSeq(buf, taken + 1, Len(buf)),
          complete |-> Ended(Last(line)) \/ Len(line) = MaxLine - 1 ]

Outcome(s, rest, event, arg) == [s |-> s, rest |-> rest, event |-> event, arg |-> arg]

Incomplete(s, l) == Outcome([s EXCEPT !.line = l.line], l.rest, "none", << >>)

-----------------------------------------------------------------------------
\* Mutant: a reply without content is expected to have some.
HasBodyAlways(status) == status \div 100 # 1

\* Whether a reply of this status has a body.
HasBody(status) == ~ (status \div 100 = 1 \/ status \in {204, 205, 304})

\* The status line.  When it cannot be parsed the reply is recorded as 599,
\* and whether it has a body is decided by a variable nothing has been
\* assigned to: undefined.
parse_status_line(s, buf, undefined) ==
    LET l == get_line(s, buf)
        m == Meaning(l.line)
        valid == m[1] = "status"
        status == IF valid THEN m[2] ELSE undefined
        fresh == [s EXCEPT !.is_chunked = FALSE, !.content_length = Inf]
    IN  IF ~ l.complete
        THEN Incomplete(fresh, l)
        ELSE Outcome(
               [fresh EXCEPT !.status = IF valid THEN status ELSE 599,
                             !.has_body = HasBody(status),
                             !.state = IF status = 100 THEN "S_REPLY_CONTINUE"
                                                       ELSE "S_REPLY_HEADER",
                             !.line = << >>],
               l.rest, "EV_CALL_RECV_START", << >>)

\* The empty line: what follows the headers.
EndOfHeaders(s) ==
    CASE s.has_body /\ s.is_chunked ->
             [s EXCEPT !.content_length = 0, !.state = "S_REPLY_CHUNKED"]
      [] s.has_body /\ ~ s.is_chunked -> [s EXCEPT !.state = "S_REPLY_DATA"]
      [] ~ s.has_body /\ s.state = "S_REPLY_CONTINUE" ->
             [s EXCEPT !.state = "S_REPLY_HEADER"]
      [] OTHER -> [s EXCEPT !.state = "S_REPLY_DONE"]

Header(s, m) ==
    CASE m[1] = "length" ->
             [s EXCEPT !.content_length = m[2], !.has_body = @ /\ m[2] # 0]
      [] m[1] = "chunked" -> [s EXCEPT !.is_chunked = TRUE]
      [] OTHER -> s

parse_headers(s, buf) ==
    LET l == get_line(s, buf)
        m == Meaning(l.line)
        next == [s EXCEPT !.line = << >>]
    IN  CASE ~ l.complete -> Incomplete(s, l)
          [] l.complete /\ m[1] = "blank" -> Outcome(EndOfHeaders(next), l.rest, "none", << >>)
          [] OTHER -> Outcome(Header(next, m), l.rest, "EV_CALL_RECV_HDR", m)

parse_footers(s, buf) ==
    LET l == get_line(s, buf)
        next == [s EXCEPT !.line = << >>]
    IN  CASE ~ l.complete -> Incomplete(s, l)
          [] l.complete /\ Meaning(l.line)[1] = "blank" ->
                 Outcome([next EXCEPT !.state = "S_REPLY_DONE"], l.rest, "none", << >>)
          [] OTHER -> Outcome(next, l.rest, "EV_CALL_RECV_FOOTER", << >>)

\* The units of body this buffer holds, and no more than are needed.
Needed(s) == (s.content_length - s.got) % Word

Body(s, buf) ==
    LET n == IF Len(buf) > Needed(s) THEN Needed(s) ELSE Len(buf)
    IN  Outcome([s EXCEPT !.got = (@ + n) % Word], SubSeq(buf, n + 1, Len(buf)),
                "EV_CALL_RECV_DATA", SubSeq(buf, 1, n))

parse_data(s, buf) ==
    LET b == Body(s, buf)
    IN  IF Len(buf) >= Needed(s)
        THEN [b EXCEPT !.s.state = "S_REPLY_DONE"]
        ELSE b

\* Mutant: the line feed that ends a chunk is taken for a line that is wrong.
xfer_chunkedNoSkip(s, buf) ==
    LET l == get_line(s, buf)
        m == Meaning(l.line)
        next == [s EXCEPT !.line = << >>]
    IN  CASE s.got < s.content_length -> Body(s, buf)
          [] s.got >= s.content_length /\ ~ l.complete -> Incomplete(s, l)
          [] s.got >= s.content_length /\ l.complete /\ (m[1] = "blank" \/ m = << "size", 0 >>) ->
                 Outcome([next EXCEPT !.state = "S_REPLY_FOOTER"], l.rest, "none", << >>)
          [] s.got >= s.content_length /\ l.complete /\ m[1] = "size" /\ m[2] # 0 ->
                 Outcome([next EXCEPT !.content_length = (@ + m[2]) % Word], l.rest, "none", << >>)
          [] OTHER -> Outcome(next, l.rest, "none", << >>)

\* A chunk, or the line that announces the next one.  Empty lines and lines
\* that are no number are skipped; a chunk of length zero is the last.
xfer_chunked(s, buf) ==
    LET l == get_line(s, buf)
        m == Meaning(l.line)
        next == [s EXCEPT !.line = << >>]
    IN  CASE s.got < s.content_length -> Body(s, buf)
          [] s.got >= s.content_length /\ ~ l.complete -> Incomplete(s, l)
          [] s.got >= s.content_length /\ l.complete /\ m = << "size", 0 >> ->
                 Outcome([next EXCEPT !.state = "S_REPLY_FOOTER"], l.rest, "none", << >>)
          [] s.got >= s.content_length /\ l.complete /\ m[1] = "size" /\ m[2] # 0 ->
                 Outcome([next EXCEPT !.content_length = (@ + m[2]) % Word], l.rest, "none", << >>)
          [] OTHER -> Outcome(next, l.rest, "none", << >>)

ParserStates ==
    {"S_REPLY_STATUS", "S_REPLY_HEADER", "S_REPLY_CONTINUE", "S_REPLY_DATA",
     "S_REPLY_CHUNKED", "S_REPLY_FOOTER", "S_REPLY_DONE"}

\* One turn of the loop; the C function goes on while the buffer is not empty
\* and the reply is not complete.
http_process_reply_bytes(s, buf, undefined) ==
    CASE s.state = "S_REPLY_STATUS" -> parse_status_line(s, buf, undefined)
      [] s.state \in {"S_REPLY_HEADER", "S_REPLY_CONTINUE"} -> parse_headers(s, buf)
      [] s.state = "S_REPLY_DATA" -> parse_data(s, buf)
      [] s.state = "S_REPLY_CHUNKED" -> xfer_chunked(s, buf)
      [] s.state = "S_REPLY_FOOTER" -> parse_footers(s, buf)
      [] s.state = "S_REPLY_DONE" -> Outcome(s, buf, "none", << >>)
=============================================================================
