------------------------------ MODULE ReplyStream ------------------------------
(***************************************************************************)
(* The receiving half of a connection (do_recv and recv_done of            *)
(* attacker/httperf/src/core.c) with the parser of module Http: several    *)
(* requests are pending, their replies arrive one after the other on one   *)
(* stream, and a read returns any part of what has not been read yet.      *)
(***************************************************************************)
EXTENDS Http, TLC, Functions, FiniteSets

CONSTANTS
    Replies,    \* the replies a server sends: records of their units, the
                \* length of their body, and whether only the end of the
                \* stream ends it
    Pipelined,  \* how many requests are pending
    Undefined   \* what an unassigned status may hold

ASSUME ReplyStreamAssumption == Pipelined \in Nat \ {0}

-----------------------------------------------------------------------------
(***************************************************************************)
(* What a server sends that keeps to HTTP/1.1 and to the length of         *)
(* line_buf (1024 bytes in the code), told by the positions of the units   *)
(* and not by what the parser does with them.  Of a longer line, the       *)
(* parser may take the end for the empty line that ends the headers.       *)
(***************************************************************************)
Unit ==
    {"status", "length", "chunked", "other", "blank", "size", "data"} \X Nat \X {1, 2}

\* Units k and k + 1 are a line that says kind and n.
Line(u, k, kind, n) == u[k] = << kind, n, 1 >> /\ u[k + 1] = << kind, n, 2 >>

\* Every line of units a .. b fits into line_buf, its end included.
Fits(u, a, b) ==
    \A k \in a .. b : \E j \in k .. b : j - k <= MaxLine - 2 /\ Ended(u[j])

\* Units a .. b are header or footer lines and the empty line after them.  A
\* line that means something has two units; the others have text and an end.
Fields(u, a, b) ==
    /\ a < b /\ Line(u, b - 1, "blank", 0) /\ Fits(u, a, b)
    /\ \A k \in a .. b - 2 : u[k][1] \in {"length", "chunked", "other"}
    /\ \A k \in a .. b :
          \/ u[k][1] = "other" /\ (Ended(u[k]) => k > a /\ ~ Ended(u[k - 1]))
          \/ k < b /\ Line(u, k, u[k][1], u[k][2]) /\ (k > a => Ended(u[k - 1]))
          \/ k > a /\ Line(u, k - 1, u[k][1], u[k][2])

AllData(u, a, b) == \A k \in a .. b : u[k][1] = "data"

\* Units a .. b are chunks: a line with the size, as many units, a line feed.
Chunks(u, a, b) ==
    \A k \in a .. b :
        \/ k < b /\ Line(u, k, "blank", 0)
        \/ k > a /\ Line(u, k - 1, "blank", 0)
        \/ k < b /\ Line(u, k, "size", u[k][2])
        \/ LET n == u[k][2]
           IN  /\ k > a /\ Line(u, k - 1, "size", n)
               /\ n # 0 /\ k + n + 1 < b
               /\ AllData(u, k + 1, k + n) /\ Line(u, k + n + 1, "blank", 0)
        \/ u[k][1] = "data" /\ k > a /\ (u[k - 1][1] = "data" \/ Line(u, k - 2, "size", u[k - 1][2]))

Lengths(u, h) == {u[k][2] : k \in {j \in 3 .. h : u[j][1] = "length"}}
SaysChunked(u, h) == \E k \in 3 .. h : u[k][1] = "chunked"

\* The final replies that end with their headers.
Bodiless == {204, 205, 304}

\* What follows the headers: nothing, the announced number of units, chunks
\* up to z and footers, or whatever comes before the end of the stream.
NoBody(u, h) ==
    /\ u[1][2] \notin Bodiless => Lengths(u, h) = {0} /\ ~ SaysChunked(u, h)
    /\ Len(u) = h

SizedBody(u, h) ==
    /\ u[1][2] \notin Bodiless /\ Lengths(u, h) = {Len(u) - h} /\ ~ SaysChunked(u, h)
    /\ Len(u) > h /\ AllData(u, h + 1, Len(u))

ChunkedBody(u, h, z) ==
    /\ u[1][2] \notin Bodiless /\ Lengths(u, h) = {} /\ SaysChunked(u, h)
    /\ h + 2 <= z /\ Chunks(u, h + 1, z - 2) /\ Line(u, z - 1, "size", 0)
    /\ Fields(u, z + 1, Len(u))

OpenBody(u, h) ==
    /\ u[1][2] \notin Bodiless /\ Lengths(u, h) = {} /\ ~ SaysChunked(u, h)
    /\ AllData(u, h + 1, Len(u))

\* How many units of body are among the first k.
DataUpTo(u, k) == Cardinality({j \in 1 .. k : u[j][1] = "data"})

\* A reply whose headers end at h and whose chunks end at z.
IsReply(r, h, z) ==
    /\ r.units \in Seq(Unit) /\ h \in 4 .. Len(r.units) /\ z \in h .. Len(r.units)
    /\ r.units[1][2] \in 200 .. 599 /\ Line(r.units, 1, "status", r.units[1][2])
    /\ Fields(r.units, 3, h)
    /\ \/ NoBody(r.units, h)
       \/ SizedBody(r.units, h)
       \/ ChunkedBody(r.units, h, z)
       \/ OpenBody(r.units, h)
    /\ r.untilEof <=> OpenBody(r.units, h)
    /\ r.body = DataUpTo(r.units, Len(r.units)) /\ r.body < Inf

\* line_buf holds a line that means something.
ASSUME RepliesAssumption ==
    /\ MaxLine > 2
    /\ \A r \in Replies : \E h, z \in DOMAIN r.units : IsReply(r, h, z)

VARIABLES
    sent,      \* the replies, in the order they are sent
    wire,      \* their units that have not been read
    buf,       \* the units read and not yet processed
    s,         \* the parser
    answered,  \* for each call that is done: its body, and the units read so far
    failed     \* NULL or how the connection ended: "assert" or "reset"

vars == << sent, wire, buf, s, answered, failed >>

AllUnits(rs) == FlattenSeq([i \in DOMAIN rs |-> rs[i].units])

Init ==
    /\ sent \in [1 .. Pipelined -> Replies]
    /\ \A i \in 1 .. Pipelined - 1 : ~ sent[i].untilEof
    /\ wire = AllUnits(sent)
    /\ buf = << >>
    /\ s = [ line |-> << >>, content_length |-> 0, has_body |-> FALSE, is_chunked |-> FALSE,
             state |-> "S_REPLY_STATUS", got |-> 0, status |-> 0 ]
    /\ answered = << >>
    /\ failed = "no"

Pending == Len(answered) < Pipelined
Consumed == Len(AllUnits(sent)) - Len(wire) - Len(buf)

-----------------------------------------------------------------------------
\* read() returns the next n units.
Read(n) ==
    /\ failed = "no" /\ Pending
    /\ buf = << >> /\ s.state # "S_REPLY_DONE"
    /\ buf' = SubSeq(wire, 1, n)
    /\ wire' = SubSeq(wire, n + 1, Len(wire))
    /\ UNCHANGED << sent, s, answered, failed >>

\* The server has closed the connection: that ends a body of unknown length,
\* and is a failure in any other state.
ReadEof ==
    /\ failed = "no" /\ Pending
    /\ buf = << >> /\ wire = << >> /\ s.state # "S_REPLY_DONE"
    /\ IF s.state = "S_REPLY_DATA"
       THEN s' = [s EXCEPT !.state = "S_REPLY_DONE"] /\ UNCHANGED failed
       ELSE failed' = "reset" /\ UNCHANGED s
    /\ UNCHANGED << sent, wire, buf, answered >>

\* do_recv asserts that there is a call for what is left in the buffer.
Process ==
    /\ failed = "no"
    /\ buf # << >> /\ s.state # "S_REPLY_DONE"
    /\ IF Pending
       THEN \E undefined \in Undefined :
            \E o \in {http_process_reply_bytes(s, buf, undefined)} :
                s' = o.s /\ buf' = o.rest /\ UNCHANGED failed
       ELSE failed' = "assert" /\ UNCHANGED << s, buf >>
    /\ UNCHANGED << sent, wire, answered >>

\* Mutant: the next call goes on counting where this one stopped.
recv_doneKeepsCount ==
    /\ failed = "no"
    /\ s.state = "S_REPLY_DONE" /\ Pending
    /\ answered' = Append(answered, [body |-> s.got, read |-> Consumed])
    /\ s' = [s EXCEPT !.state = "S_REPLY_STATUS"]
    /\ UNCHANGED << sent, wire, buf, failed >>

\* The call at the head of the queue is done; the next reply is the next call's.
recv_done ==
    /\ failed = "no"
    /\ s.state = "S_REPLY_DONE" /\ Pending
    /\ answered' = Append(answered, [body |-> s.got, read |-> Consumed])
    /\ s' = [s EXCEPT !.state = "S_REPLY_STATUS", !.got = 0, !.status = 0]
    /\ UNCHANGED << sent, wire, buf, failed >>

do_recv ==
    \/ \E n \in 1 .. Len(wire) : Read(n)
    \/ ReadEof
    \/ Process
    \/ recv_done

Spec == Init /\ [][do_recv]_vars /\ WF_vars(do_recv)

-----------------------------------------------------------------------------
\* A call is done with the body its reply has, when every unit up to the end
\* of its reply is consumed and none after it, wherever the reads cut the
\* stream, within lines and at the end of one that just fits into line_buf.
FramedAsSent ==
    \A i \in DOMAIN answered :
        /\ answered[i].body = sent[i].body
        /\ answered[i].read = Len(AllUnits(SubSeq(sent, 1, i)))

\* do_recv's assertion: what is left in the buffer belongs to a pending call.
BytesHaveACall == failed # "assert"

\* Every pending call is answered once its reply is there to be read.
AllAnswered == <>(~ Pending)
=============================================================================
