------------------------------ MODULE HttperfCore ------------------------------
(***************************************************************************)
(* The core of the traffic generator: connections, calls, their reference  *)
(* counts and free lists, ports, timers and the event loop                 *)
(* (attacker/httperf/src/core.c, object.c, conn.c, call.c, localevent.c).  *)
(*                                                                         *)
(* httperf is one thread in which everything happens inside nested calls:  *)
(* core.c signals an event, a handler calls back into core.c, which frees  *)
(* an object and signals again.  The stack of these calls is the variable  *)
(* todo: its head is the function that runs next, with its arguments.  An  *)
(* action executes one function up to its next call, and puts the calls it *)
(* makes and the rest of itself in front of what its callers still have to *)
(* do.  The loop and the network act only when the stack is empty.         *)
(*                                                                         *)
(* Which functions handle an event is the constant Handlers; a module that *)
(* extends this one defines them as actions.                               *)
(*                                                                         *)
(* Objects are numbered and, as in the C code, an object that is freed     *)
(* keeps its contents until it is allocated again, and the last one freed  *)
(* is the first one allocated.                                             *)
(***************************************************************************)
EXTENDS HttperfTimer, Http, TLC

CONSTANTS
    NULL,
    Conn, Call,      \* the objects that may be allocated: 1 .. some number
    SD,              \* the descriptors sockets may have
    Port, WordBits,  \* the ports that may be bound, and how many share a word
    Params,          \* the command lines httperf may be started with
    LateRearm,       \* whether a watchdog may be armed after its deadline
    ReqParts,        \* the parts a request can be written in
    Faults,          \* the faults of system calls and peers that may occur
    MaxDrops,        \* how often servers close or reset a connection
    Replies(_),      \* the replies a server may send to a request, as sequences of units
                     \* (their statuses below 600: any other stops httperf)
    Undefined,       \* what an unassigned status may hold
    Handlers(_, _)   \* the functions a command line registers for an event, in order

ASSUME CoreAssumption ==
    /\ Conn = 1 .. Cardinality(Conn)
    /\ Call = 1 .. Cardinality(Call)
    /\ SD \subseteq Nat /\ Port \subseteq Nat
    /\ WordBits \in Nat \ {0} /\ ReqParts \in Nat \ {0} /\ MaxDrops \in Nat
    /\ LateRearm \in BOOLEAN
    /\ \A p \in Params : {p.hog, p.timeout, p.rate} \subseteq BOOLEAN /\ p.addresses \in Nat \ {0}
    /\ Faults \subseteq {"sockopt", "inuse", "notavail", "refused", "immediate", "again",
                         "partial", "reset", "close", "cut"}

VARIABLES
    param,                   \* the command line (whether a time or a rate is given)
    conn, call,              \* the objects
    free, used,              \* the free lists; how many objects were ever allocated
    timers,                  \* the timers
    sd_to_conn, rdfds, wrfds,   \* by descriptor: its connection; the descriptors selected
    ports,                   \* port_free_map, the two variables of port_get, and cnt
    net, drops,              \* the network's side of each descriptor; see MaxDrops
    todo, result,            \* the stack of calls; the value returned last
    running, abort           \* the loop's flag; NULL, or the assertion that failed

objects == << conn, call, free, used >>
sockets == << sd_to_conn, rdfds, wrfds, ports >>
coreVars == << param, objects, timers, sockets, net, drops, todo, result, running, abort >>

-----------------------------------------------------------------------------
(* The stack. *)
Step(name) == abort = NULL /\ todo # << >> /\ Head(todo)[1] = name
Arg(i) == Head(todo)[i + 1]
Run(frames) == todo' = frames \o Tail(todo)

\* event_signal calls the functions that are registered for the event.
event_signal(event, obj, arg) ==
    [i \in DOMAIN Handlers(param, event) |-> << Handlers(param, event)[i], obj, arg >>]

Signal(event, obj) == event_signal(event, obj, 0)

\* assert(): the program ends when the condition does not hold.
Require(condition, message) == abort' = IF condition THEN NULL ELSE message

-----------------------------------------------------------------------------
(* Objects. *)
NewConn ==
    [ ref |-> 1, state |-> "S_INITIAL", sd |-> NULL, myport |-> NULL, myip |-> 0,
      watchdog |-> NULL,
      sendq |-> NULL, sendq_tail |-> NULL, recvq |-> NULL, recvq_tail |-> NULL ] @@ NoReply

NewCall ==
    [ ref |-> 1, myip |-> 0, conn |-> NULL, sendq_next |-> NULL, recvq_next |-> NULL, timed |-> FALSE,
      received |-> FALSE, unsent |-> 0, uri |-> NULL, got |-> 0, status |-> 0 ]

Closing(s) == conn[s].state \in {"S_CLOSING", "S_FREE"}
Allocated(type) == 1 .. used[type]
IsFree(type, o) == o \in Range(free[type])

\* object_new takes the object freed last, and asks for memory when there is
\* none; it clears it.
object_new(type) == IF free[type] # << >> THEN Head(free[type]) ELSE used[type] + 1

Take(type) ==
    /\ free' = [free EXCEPT ![type] = IF @ = << >> THEN @ ELSE Tail(@)]
    /\ used' = [used EXCEPT ![type] = IF free[type] = << >> THEN @ + 1 ELSE @]

call_dec_ref ==
    /\ Step("call_dec_ref")
    /\ LET c == Arg(1)
       IN  /\ call' = [call EXCEPT ![c].ref = @ - 1]
           /\ Run(IF call[c].ref = 1
                  THEN Signal("EV_CALL_DESTROYED", c) \o << << "free", "call", c >> >>
                  ELSE << >>)
           /\ Require(call[c].ref > 0 /\ ~ IsFree("call", c), "call->ref_count > 0")
    /\ UNCHANGED << conn, free, used, timers, sockets, net, result, running >>

\* conn_deinit asserts that the connection holds nothing any more.
conn_deinit(s) ==
    /\ conn[s].sd = NULL /\ conn[s].state # "S_FREE"
    /\ conn[s].sendq = NULL /\ conn[s].recvq = NULL /\ conn[s].watchdog = NULL

conn_dec_ref ==
    /\ Step("conn_dec_ref")
    /\ LET s == Arg(1)
           last == conn[s].ref = 1
       IN  /\ conn' = [conn EXCEPT ![s].ref = @ - 1,
                                   ![s].state = IF last THEN "S_FREE" ELSE @]
           /\ Run(IF last
                  THEN Signal("EV_CONN_DESTROYED", s) \o << << "free", "conn", s >> >>
                  ELSE << >>)
           /\ Require(/\ conn[s].ref > 0 /\ ~ IsFree("conn", s)
                      /\ last => conn_deinit(s), "conn_deinit")
    /\ UNCHANGED << call, free, used, timers, sockets, net, result, running >>

\* The end of object_destroy: the object goes on the free list.
object_destroy ==
    /\ Step("free")
    /\ free' = [free EXCEPT ![Arg(1)] = << Arg(2) >> \o @]
    /\ Run(<< >>)
    /\ UNCHANGED << conn, call, used, timers, sockets, net, result, running, abort >>

-----------------------------------------------------------------------------
(* Ports: one bit each, in words. *)
WordOf(p) == p \div WordBits
Words == {WordOf(p) : p \in Port}
FreeIn(w) == {p \in ports.free : WordOf(p) = w}
Above(w) == {p \in FreeIn(w) : p >= ports.from}

\* The word port_get takes the next port from: the one it used last, above
\* the port it took last, or the next word in turn that has a free port.
Turn(w, k) == (w + k) % Cardinality(Words)

NextWord ==
    IF Above(ports.previous) # {}
    THEN ports.previous
    ELSE LET others == {k \in 1 .. Cardinality(Words) - 1 : FreeIn(Turn(ports.previous, k)) # {}}
         IN  IF others = {} THEN NULL ELSE Turn(ports.previous, Min(others))

PortGot ==
    IF NextWord = NULL THEN NULL
    ELSE IF NextWord = ports.previous THEN Min(Above(NextWord)) ELSE Min(FreeIn(NextWord))

port_get(p) == [ports EXCEPT !.free = @ \ {p}, !.previous = WordOf(p), !.from = p + 1]
port_put(P, p) == [P EXCEPT !.free = @ \cup {p}]

-----------------------------------------------------------------------------
(* Sending. *)

\* Mutant: the call that waits for its reply has no deadline.
HasDeadlineOfRequest(s) == conn[s].sendq # NULL /\ call[conn[s].sendq].timed

\* The descriptor is selected, and the watchdog is armed for the deadline of
\* the call at the head of the send queue or of the receive queue.
HasDeadline(s) ==
    \/ conn[s].sendq # NULL /\ call[conn[s].sendq].timed
    \/ conn[s].recvq # NULL /\ call[conn[s].recvq].timed

set_active ==
    /\ Step("set_active")
    /\ LET s == Arg(1)
           arm == conn[s].watchdog = NULL /\ HasDeadline(s)
       IN  /\ rdfds' = IF Arg(2) = "rdfds" THEN rdfds \cup {conn[s].sd} ELSE rdfds
           /\ wrfds' = IF Arg(2) = "wrfds" THEN wrfds \cup {conn[s].sd} ELSE wrfds
           /\ arm => CanSchedule(timers)
           /\ conn' = IF arm THEN [conn EXCEPT ![s].watchdog = NextTimer(timers)] ELSE conn
           /\ \E late \in IF arm /\ LateRearm THEN BOOLEAN ELSE {FALSE} :
                timers' = IF arm
                          THEN timer_schedule(timers, << "conn_timeout", s, 0 >>, late)
                          ELSE timers
    /\ Run(<< >>)
    /\ UNCHANGED << call, free, used, sd_to_conn, ports, net, result, running, abort >>

conn_failure ==
    /\ Step("conn_failure")
    /\ Run(event_signal("EV_CONN_FAILED", Arg(1), Arg(2)) \o << << "core_close", Arg(1) >> >>)
    /\ UNCHANGED << objects, timers, sockets, net, result, running, abort >>

\* The watchdog's callback.
conn_timeout ==
    /\ Step("conn_timeout")
    /\ conn' = [conn EXCEPT ![Arg(1)].watchdog = NULL]
    /\ Run(Signal("EV_CONN_TIMEOUT", Arg(1)) \o << << "core_close", Arg(1) >> >>)
    /\ Require(~ IsFree("conn", Arg(1)), "object_is_conn (s)")
    /\ UNCHANGED << call, free, used, timers, sockets, net, result, running >>

\* core_send, up to the event EV_CALL_ISSUE.
core_send ==
    /\ Step("core_send")
    /\ Run(Signal("EV_CALL_ISSUE", Arg(2)) \o << << "enqueue", Arg(1), Arg(2) >> >>)
    /\ UNCHANGED << objects, timers, sockets, net, result, running, abort >>

\* The rest of core_send: the call joins the send queue.  Writing to it starts
\* when it is the only one.
enqueue ==
    /\ Step("enqueue")
    /\ LET s == Arg(1)
           c == Arg(2)
           queued == [call[c] EXCEPT !.conn = s, !.unsent = ReqParts,
                                     !.ref = @ + 1, !.sendq_next = NULL]
           first == conn[s].sendq = NULL
       IN  /\ conn' = [conn EXCEPT ![s].sendq = IF first THEN c ELSE @, ![s].sendq_tail = c]
           /\ call' = IF first
                      THEN [call EXCEPT ![c] = queued]
                      ELSE [call EXCEPT ![c] = queued, ![conn[s].sendq_tail].sendq_next = c]
           /\ Run(IF first
                  THEN Signal("EV_CALL_SEND_START", c) \o << << "start_send", s, c >> >>
                  ELSE << >>)
    /\ UNCHANGED << free, used, timers, sockets, net, result, running, abort >>

start_send ==
    /\ Step("start_send")
    /\ LET s == Arg(1)
       IN  IF Closing(s)
           THEN Run(<< >>) /\ UNCHANGED call
           ELSE /\ call' = [call EXCEPT ![Arg(2)].timed = param.timeout]
                /\ Run(<< << "set_active", s, "wrfds" >> >>)
    /\ UNCHANGED << conn, free, used, timers, sockets, net, result, running, abort >>

\* writev on the socket of s: what it returns.  There is no room at all only
\* when the socket still holds something that was written before.
Unread(s) ==
    net[conn[s].sd].asked # << >> \/ call[conn[s].sendq].unsent < ReqParts

Writes(s) ==
    IF net[conn[s].sd].peer = "reset" THEN {"error"}
    ELSE {"all"} \cup (Faults \cap ({"partial"} \cup IF Unread(s) THEN {"again"} ELSE {}))

\* How much of a part is written is left out: only whole parts count.
do_send ==
    /\ Step("do_send")
    /\ LET s == Arg(1)
           c == conn[s].sendq
           sd == conn[s].sd
       IN  /\ Require(c # NULL, "do_send: call")
           /\ \E written \in Writes(s) :
                \/ /\ written = "again"
                   /\ Run(<< >>)
                   /\ UNCHANGED << conn, call, wrfds, net >>
                \/ /\ written = "error"
                   /\ Run(<< << "conn_failure", s, "reset" >> >>)
                   /\ UNCHANGED << conn, call, wrfds, net >>
                \/ /\ written = "partial" /\ call[c].unsent > 1
                   /\ call' = [call EXCEPT ![c].unsent = @ - 1, ![c].timed = param.timeout]
                   /\ Run(<< << "set_active", s, "wrfds" >> >>)
                   /\ UNCHANGED << conn, wrfds, net >>
                \/ /\ written = "all"
                   /\ call' = [call EXCEPT ![c].unsent = 0]
                   /\ net' = [net EXCEPT ![sd].asked = Append(@, call[c].uri)]
                   /\ conn' = [conn EXCEPT ![s].sendq = call[c].sendq_next,
                                           ![s].sendq_tail = IF call[c].sendq_next = NULL
                                                             THEN NULL ELSE @]
                   /\ wrfds' = IF call[c].sendq_next = NULL THEN wrfds \ {sd} ELSE wrfds
                   /\ Run(Signal("EV_CALL_SEND_STOP", c) \o << << "sent", s, c >> >>)
    /\ UNCHANGED << free, used, timers, sd_to_conn, rdfds, ports, result, running >>

\* The request is sent: the call goes to the receive queue.
sent ==
    /\ Step("sent")
    /\ LET s == Arg(1)
           c == Arg(2)
           first == conn[s].recvq = NULL
       IN  IF Closing(s)
           THEN Run(<< << "call_dec_ref", c >> >>) /\ UNCHANGED << conn, call >>
           ELSE /\ call' = IF first
                           THEN [call EXCEPT ![c].recvq_next = NULL, ![c].timed = param.timeout]
                           ELSE [call EXCEPT ![c].recvq_next = NULL, ![c].timed = param.timeout,
                                             ![conn[s].recvq_tail].recvq_next = c]
                /\ conn' = [conn EXCEPT ![s].recvq = IF first THEN c ELSE @,
                                        ![s].recvq_tail = c]
                /\ Run(<< << "set_active", s, "rdfds" >>, << "expect", s >> >>)
    /\ UNCHANGED << free, used, timers, sockets, net, result, running, abort >>

\* The connection expects a status line, unless it is in the middle of a
\* reply; the next request is sent.
expect ==
    /\ Step("expect")
    /\ LET s == Arg(1)
           next == conn[s].sendq
       IN  /\ conn' = [conn EXCEPT ![s].state =
                          IF @ \in {"S_INITIAL", "S_CONNECTING", "S_CONNECTED"}
                          THEN "S_REPLY_STATUS" ELSE @]
           /\ Run(IF next = NULL
                  THEN << >>
                  ELSE Signal("EV_CALL_SEND_START", next) \o << << "send_next", s >> >>)
    /\ UNCHANGED << call, free, used, timers, sockets, net, result, running, abort >>

send_next ==
    /\ Step("send_next")
    /\ Run(IF Closing(Arg(1)) THEN << >> ELSE << << "do_send", Arg(1) >> >>)
    /\ UNCHANGED << objects, timers, sockets, net, result, running, abort >>

-----------------------------------------------------------------------------
(* Receiving. *)

\* The call at the head of the receive queue is done.
recv_done ==
    /\ Step("recv_done")
    /\ LET c == Arg(1)
           s == call[c].conn
           next == call[c].recvq_next
       IN  /\ conn' = [conn EXCEPT ![s].recvq = next,
                                   ![s].recvq_tail = IF next = NULL THEN NULL ELSE @]
           /\ rdfds' = IF next = NULL THEN rdfds \ {conn[s].sd} ELSE rdfds
           /\ Run(Signal("EV_CALL_RECV_STOP", c) \o << << "call_dec_ref", c >> >>)
    /\ UNCHANGED << call, free, used, timers, sd_to_conn, wrfds, ports, net, result, running,
                    abort >>

\* read returns what has arrived.  The end of the stream ends a body of
\* unknown length, and is a failure in any other state.
do_recv ==
    /\ Step("do_recv")
    /\ LET s == Arg(1)
           c == conn[s].recvq
           n == net[conn[s].sd]
       IN  /\ net' = [net EXCEPT ![conn[s].sd].in = << >>]
           /\ \/ /\ n.in # << >>
                 /\ Run(<< << "reply", s, n.in >> >>)
                 /\ UNCHANGED conn
              \/ /\ n.in = << >> /\ n.peer = "up"
                 /\ Run(<< >>)
                 /\ UNCHANGED conn
              \/ /\ n.in = << >> /\ n.peer = "closed" /\ conn[s].state = "S_REPLY_DATA"
                 /\ conn' = [conn EXCEPT ![s].state = "S_REPLY_DONE"]
                 /\ Run(<< << "recv_done", c >> >>)
              \/ /\ n.in = << >>
                 /\ n.peer = "closed" => conn[s].state # "S_REPLY_DATA"
                 /\ n.peer \in {"closed", "reset"}
                 /\ Run(<< << "conn_failure", s, "reset" >> >>)
                 /\ UNCHANGED conn
    /\ UNCHANGED << call, free, used, timers, sockets, result, running, abort >>

\* The parser's record: the fields of the connection and of the call.
Parser(s, c) ==
    [ state |-> conn[s].state, line |-> conn[s].line,
      content_length |-> conn[s].content_length, has_body |-> conn[s].has_body,
      is_chunked |-> conn[s].is_chunked, got |-> call[c].got, status |-> call[c].status ]

\* The loop of do_recv: the bytes of the buffer are for the call at the head
\* of the receive queue until its reply is done, and then for the next call.
reply ==
    /\ Step("reply")
    /\ LET s == Arg(1)
           c == conn[s].recvq
           bad == conn[s].state \notin ParserStates
       IN  /\ abort' = IF c = NULL THEN "do_recv: c" ELSE IF bad THEN "bad state" ELSE NULL
           /\ IF c = NULL \/ bad
              THEN Run(<< >>) /\ UNCHANGED << conn, call >>
              ELSE \E undefined \in Undefined :
                   \E o \in {http_process_reply_bytes(Parser(s, c), Arg(2), undefined)} :
                   LET p == o.s
                       event == IF o.event = "none" THEN << >> ELSE event_signal(o.event, c, o.arg)
                   IN  /\ conn' = [conn EXCEPT ![s] =
                             [@ EXCEPT !.state = p.state, !.line = p.line,
                                       !.content_length = p.content_length,
                                       !.has_body = p.has_body, !.is_chunked = p.is_chunked]]
                       /\ call' = [call EXCEPT ![c].got = p.got, ![c].status = p.status,
                                     ![c].timed = IF conn[s].state = "S_REPLY_STATUS"
                                                  THEN param.timeout ELSE @]
                       /\ Run(event \o << << "more", s, o.rest >> >>)
    /\ UNCHANGED << free, used, timers, sockets, net, result, running >>

\* The end of the loop's body: a reply that is complete, unless a handler has
\* closed the connection meanwhile, and what is left in the buffer.
more ==
    /\ Step("more")
    /\ LET s == Arg(1)
       IN  Run(IF conn[s].state = "S_REPLY_DONE"
               THEN << << "recv_done", conn[s].recvq >>, << "next_reply", s, Arg(2) >> >>
               ELSE IF Arg(2) # << >> THEN << << "reply", s, Arg(2) >> >>
               ELSE IF conn[s].recvq # NULL THEN << << "set_active", s, "rdfds" >> >>
               ELSE << >>)
    /\ UNCHANGED << objects, timers, sockets, net, result, running, abort >>

next_reply ==
    /\ Step("next_reply")
    /\ LET s == Arg(1)
       IN  IF Closing(s)
           THEN Run(<< >>) /\ UNCHANGED conn
           ELSE /\ conn' = [conn EXCEPT ![s].state = "S_REPLY_STATUS"]
                /\ Run(<< << "more", s, Arg(2) >> >>)
    /\ UNCHANGED << call, free, used, timers, sockets, net, result, running, abort >>

-----------------------------------------------------------------------------
(* Connecting. *)
NoPeer == [peer |-> "none", asked |-> << >>, in |-> << >>]
Unopened == {sd \in SD : net[sd].peer = "none"}

Fail(s, err) == Run(<< << "conn_failure", s, err >>, << "return", -1 >> >>)

return ==
    /\ Step("return")
    /\ result' = Arg(1)
    /\ Run(<< >>)
    /\ UNCHANGED << objects, timers, sockets, net, running, abort >>

\* core_connect, up to the event EV_CONN_CONNECTING.  A descriptor whose
\* options cannot be set is never closed.
core_connect ==
    /\ Step("core_connect")
    /\ LET s == Arg(1)
           sd == Min(Unopened)
       IN  \/ /\ Unopened = {}
              /\ Fail(s, "nofd")
              /\ UNCHANGED << conn, sd_to_conn, ports, net, abort >>
           \/ /\ Unopened # {} /\ "sockopt" \in Faults
              /\ net' = [net EXCEPT ![sd].peer = "leaked"]
              /\ Fail(s, "other")
              /\ UNCHANGED << conn, sd_to_conn, ports, abort >>
           \/ /\ Unopened # {}
              /\ net' = [net EXCEPT ![sd].peer = "open"]
              /\ conn' = [conn EXCEPT ![s].sd = sd]
              /\ sd_to_conn' = [sd_to_conn EXCEPT ![sd] = s]
              /\ ports' = [ports EXCEPT !.cnt = (@ + 1) % param.addresses]
              /\ Require(sd_to_conn[sd] = NULL, "!sd_to_conn[sd]")
              /\ Run(Signal("EV_CONN_CONNECTING", s) \o
                     << IF param.hog THEN << "bind", s, ports.cnt >> ELSE << "connect", s >> >>)
    /\ UNCHANGED << call, free, used, timers, rdfds, wrfds, result, running >>

\* The ports of the local address are tried one after the other; one that could
\* not be bound is not put back.
bind ==
    /\ Step("bind")
    /\ LET s == Arg(1)
       IN  \/ /\ NextWord = NULL
              /\ Fail(s, "other")
              /\ UNCHANGED << conn, ports >>
           \/ /\ NextWord # NULL
              /\ ports' = port_get(PortGot)
              /\ \/ /\ conn' = [conn EXCEPT ![s].myport = PortGot, ![s].myip = Arg(2)]
                    /\ Run(<< << "connect", s >> >>)
                 \/ /\ "inuse" \in Faults
                    /\ Run(<< << "bind", s, Arg(2) >> >>)
                    /\ UNCHANGED conn
                 \/ /\ "notavail" \in Faults
                    /\ Fail(s, "other")
                    /\ UNCHANGED conn
    /\ UNCHANGED << call, free, used, timers, sd_to_conn, rdfds, wrfds, net, result, running,
                    abort >>

\* The rest of core_connect.
connect ==
    /\ Step("connect")
    /\ LET s == Arg(1)
           sd == conn[s].sd
       IN  \/ /\ "immediate" \in Faults
              /\ net' = [net EXCEPT ![sd].peer = "up"]
              /\ conn' = [conn EXCEPT ![s].state = "S_CONNECTED"]
              /\ Run(Signal("EV_CONN_CONNECTED", s) \o << << "return", 0 >> >>)
              /\ UNCHANGED << wrfds, timers, abort >>
           \/ /\ net' = [net EXCEPT ![sd].peer = "syn"]
              /\ wrfds' = wrfds \cup {sd}
              /\ param.timeout => CanSchedule(timers)
              /\ timers' = IF param.timeout
                           THEN timer_schedule(timers, << "conn_timeout", s, 0 >>, FALSE)
                           ELSE timers
              /\ conn' = [conn EXCEPT ![s].state = "S_CONNECTING",
                                      ![s].watchdog = IF param.timeout THEN NextTimer(timers) ELSE @]
              /\ Require(conn[s].watchdog = NULL, "!s->watchdog")
              /\ Run(<< << "return", 0 >> >>)
           \/ /\ "refused" \in Faults
              /\ Fail(s, "refused")
              /\ UNCHANGED << conn, wrfds, timers, net, abort >>
    /\ UNCHANGED << call, free, used, sd_to_conn, rdfds, ports, result, running >>

-----------------------------------------------------------------------------
(* What stat/basic.c asserts of every reply, whichever generator asked for it. *)

\* The classes of status it counts: a reply of another one stops httperf.
ReplyClasses == 6

note_recv_start ==
    /\ Step("recv_start")
    /\ call' = [call EXCEPT ![Arg(1)].received = TRUE]
    /\ Run(<< >>)
    /\ UNCHANGED << conn, free, used, timers, sockets, net, result, running, abort >>

note_recv_stop ==
    /\ Step("recv_stop")
    /\ Run(<< >>)
    /\ Require(call[Arg(1)].received /\ call[Arg(1)].status \div 100 < ReplyClasses,
               "index < NELEMS (basic.num_replies)")
    /\ UNCHANGED << objects, timers, sockets, net, result, running >>

-----------------------------------------------------------------------------
(* Closing. *)

\* Mutant: nothing stops a handler from closing a connection that is closing.
core_closeAgain ==
    /\ Step("core_close")
    /\ LET s == Arg(1)
           w == conn[s].watchdog
       IN  /\ conn' = [conn EXCEPT ![s].state = "S_CLOSING", ![s].watchdog = NULL]
           /\ timers' = IF w = NULL THEN timers ELSE timer_cancel(timers, w)
           /\ Run(<< << "drop_sendq", s, conn[s].sendq >> >>)
    /\ UNCHANGED << call, free, used, sockets, net, result, running, abort >>

\* core_close does nothing when the connection is closing already.
core_close ==
    /\ Step("core_close")
    /\ LET s == Arg(1)
           w == conn[s].watchdog
       IN  IF Closing(s)
           THEN Run(<< >>) /\ UNCHANGED << conn, timers >>
           ELSE /\ conn' = [conn EXCEPT ![s].state = "S_CLOSING", ![s].watchdog = NULL]
                /\ timers' = IF w = NULL THEN timers ELSE timer_cancel(timers, w)
                /\ Run(<< << "drop_sendq", s, conn[s].sendq >> >>)
    /\ UNCHANGED << call, free, used, sockets, net, result, running, abort >>

\* The calls of the two queues are given up; the next one is read before the
\* call is freed.
drop_sendq ==
    /\ Step("drop_sendq")
    /\ LET s == Arg(1)
           c == Arg(2)
       IN  IF c # NULL
           THEN /\ Run(<< << "call_dec_ref", c >>, << "drop_sendq", s, call[c].sendq_next >> >>)
                /\ UNCHANGED conn
           ELSE /\ conn' = [conn EXCEPT ![s].sendq = NULL]
                /\ Run(<< << "drop_recvq", s, conn[s].recvq >> >>)
    /\ UNCHANGED << call, free, used, timers, sockets, net, result, running, abort >>

drop_recvq ==
    /\ Step("drop_recvq")
    /\ LET s == Arg(1)
           c == Arg(2)
       IN  IF c # NULL
           THEN /\ Run(<< << "call_dec_ref", c >>, << "drop_recvq", s, call[c].recvq_next >> >>)
                /\ UNCHANGED conn
           ELSE /\ conn' = [conn EXCEPT ![s].recvq = NULL]
                /\ Run(<< << "closed", s >> >>)
    /\ UNCHANGED << call, free, used, timers, sockets, net, result, running, abort >>

\* Mutant: its descriptor stays selected.
closedKeepsSelected ==
    /\ Step("closed")
    /\ LET s == Arg(1)
           sd == conn[s].sd
           has == sd # NULL
       IN  /\ conn' = [conn EXCEPT ![s].sd = NULL]
           /\ sd_to_conn' = IF has THEN [sd_to_conn EXCEPT ![sd] = NULL] ELSE sd_to_conn
           /\ net' = IF has THEN [net EXCEPT ![sd] = NoPeer] ELSE net
           /\ UNCHANGED << rdfds, wrfds >>
           /\ ports' = IF conn[s].myport = NULL THEN ports ELSE port_put(ports, conn[s].myport)
           /\ Require(conn[s].state = "S_CLOSING", "conn->state == S_CLOSING")
           /\ Run(Signal("EV_CONN_CLOSE", s) \o << << "conn_dec_ref", s >> >>)
    /\ UNCHANGED << call, free, used, timers, result, running >>

\* The end of core_close: the socket and the port are released, and then the
\* reference the connection was made with.
closed ==
    /\ Step("closed")
    /\ LET s == Arg(1)
           sd == conn[s].sd
           has == sd # NULL
       IN  /\ conn' = [conn EXCEPT ![s].sd = NULL]
           /\ sd_to_conn' = IF has THEN [sd_to_conn EXCEPT ![sd] = NULL] ELSE sd_to_conn
           /\ net' = IF has THEN [net EXCEPT ![sd] = NoPeer] ELSE net
           /\ rdfds' = rdfds \ {sd}
           /\ wrfds' = wrfds \ {sd}
           /\ ports' = IF conn[s].myport = NULL THEN ports ELSE port_put(ports, conn[s].myport)
           /\ Require(conn[s].state = "S_CLOSING", "conn->state == S_CLOSING")
           /\ Run(Signal("EV_CONN_CLOSE", s) \o << << "conn_dec_ref", s >> >>)
    /\ UNCHANGED << call, free, used, timers, result, running >>

-----------------------------------------------------------------------------
(* Time and the event loop. *)
Readable == {sd \in rdfds : net[sd].in # << >> \/ net[sd].peer \in {"closed", "reset"}}
Writable == {sd \in wrfds : net[sd].peer \in {"up", "closed", "reset"}}

\* timer_tick, with the timers that are due and have not been called back.
Tick(due) == << "timer_tick", due >>

timer_tick ==
    /\ Step("timer_tick")
    /\ \/ /\ Arg(1) = {}
          /\ timers' = timer_deactivate(timers)
          /\ Run(<< >>)
       \/ \E t \in Timer :
            /\ NextDue(timers, Arg(1), t)
            /\ LET rest == Tick(Arg(1) \ {t})
               IN  IF timers.expired[t]
                   THEN Run(<< rest >>) /\ UNCHANGED timers
                   ELSE /\ timers' = timer_has_expired(timers, t)
                        /\ Run(<< timers.callback[t], rest >>)
    /\ UNCHANGED << objects, sockets, net, result, running, abort >>

\* One turn of core_loop: the timers, then select.  A turn in which nothing
\* happens is not modelled.
core_loop(due) ==
    /\ abort = NULL /\ running /\ todo = << >>
    /\ due # {} \/ Readable \cup Writable # {}
    /\ todo' = << Tick(due), << "select" >> >>
    /\ UNCHANGED << objects, timers, sockets, net, result, running, abort >>

\* select counts a descriptor that can be read and written twice, and the loop
\* goes through the descriptors until it has served as many as that: if one
\* counts twice, it goes through them all again.
select ==
    /\ Step("select")
    /\ LET all == SetToSortSeq(Readable \cup Writable, <)
           n == Cardinality(Readable) + Cardinality(Writable)
       IN  Run(<< << "serve", IF n > Len(all) THEN all \o all ELSE all, Readable, Writable, n >> >>)
    /\ UNCHANGED << objects, timers, sockets, net, result, running, abort >>

\* A descriptor is served when it was found ready and is still selected: the
\* connection it has now is held, and its watchdog cancelled.
serve ==
    /\ Step("serve") /\ Arg(1) # << >>
    /\ LET sd == Head(Arg(1))
           s == sd_to_conn[sd]
           n == Arg(4) - 1
           rest == << << "serve", Tail(Arg(1)), Arg(2), Arg(3), n >> >>
           readable == sd \in Arg(2) \cap rdfds
           writable == sd \in Arg(3) \cap wrfds
           w == conn[s].watchdog
           connecting == conn[s].state = "S_CONNECTING"
       IN  IF ~ readable /\ ~ writable
           THEN Run(rest) /\ UNCHANGED << conn, timers, wrfds >>
           ELSE /\ timers' = IF w = NULL THEN timers ELSE timer_cancel(timers, w)
                /\ conn' = [conn EXCEPT ![s].ref = @ + 1, ![s].watchdog = NULL,
                              ![s].state = IF connecting /\ writable THEN "S_CONNECTED" ELSE @]
                /\ wrfds' = IF connecting /\ writable THEN wrfds \ {sd} ELSE wrfds
                /\ Run((IF connecting
                        THEN IF writable THEN Signal("EV_CONN_CONNECTED", s) ELSE << >>
                        ELSE << << "send_recv", s, writable, readable >> >>)
                       \o << << "conn_dec_ref", s >>, << "between", n >> >> \o rest)
    /\ UNCHANGED << call, free, used, sd_to_conn, rdfds, ports, net, result, running, abort >>

served ==
    /\ Step("serve") /\ Arg(1) = << >>
    /\ Run(<< >>)
    /\ UNCHANGED << objects, timers, sockets, net, result, running, abort >>

send_recv ==
    /\ Step("send_recv")
    /\ LET s == Arg(1)
       IN  Run((IF Arg(2) /\ conn[s].sendq # NULL THEN << << "do_send", s >> >> ELSE << >>)
               \o << << "recv_if", s, Arg(3) >> >>)
    /\ UNCHANGED << objects, timers, sockets, net, result, running, abort >>

recv_if ==
    /\ Step("recv_if")
    /\ LET s == Arg(1)
       IN  Run(IF Arg(2) /\ conn[s].recvq # NULL THEN << << "do_recv", s >> >> ELSE << >>)
    /\ UNCHANGED << objects, timers, sockets, net, result, running, abort >>

\* A tick between two descriptors, when select found more of them.
between(due) ==
    /\ Step("between")
    /\ Run(IF Arg(1) > 0 THEN << Tick(due) >> ELSE << >>)
    /\ UNCHANGED << objects, timers, sockets, net, result, running, abort >>

core_exit ==
    /\ Step("core_exit")
    /\ running' = FALSE
    /\ Run(<< >>)
    /\ UNCHANGED << objects, timers, sockets, net, result, abort >>

-----------------------------------------------------------------------------
(* The network and the server at the other end of each socket. *)
Peer(sd, state) ==
    /\ abort = NULL /\ running /\ todo = << >>
    /\ net' = [net EXCEPT ![sd] = state]
    /\ UNCHANGED << objects, timers, sockets, todo, result, running, abort >>

Accept(sd) ==
    /\ net[sd].peer = "syn"
    /\ \/ Peer(sd, [net[sd] EXCEPT !.peer = "up"])
       \/ "refused" \in Faults /\ Peer(sd, [net[sd] EXCEPT !.peer = "reset"])

\* The server answers a request.
Answer(sd) ==
    /\ net[sd].peer = "up" /\ net[sd].asked # << >>
    /\ \E r \in Replies(Head(net[sd].asked)) : Peer(sd, [net[sd] EXCEPT !.in = @ \o r, !.asked = Tail(@)])

\* It may close or reset the connection whenever it likes, in the middle of an
\* answer too.
Disconnect(sd) ==
    /\ net[sd].peer = "up" /\ drops < MaxDrops
    /\ drops' = drops + 1
    /\ \/ "close" \in Faults /\ Peer(sd, [net[sd] EXCEPT !.peer = "closed"])
       \/ "reset" \in Faults /\ Peer(sd, [net[sd] EXCEPT !.peer = "reset", !.in = << >>])
       \/ /\ "cut" \in Faults /\ net[sd].asked # << >>
          /\ \E r \in Replies(Head(net[sd].asked)) : \E n \in 1 .. Len(r) - 1 :
               Peer(sd, [peer |-> "closed", in |-> net[sd].in \o SubSeq(r, 1, n),
                         asked |-> Tail(net[sd].asked)])

Network ==
    \E sd \in SD :
        \/ (Accept(sd) \/ Answer(sd)) /\ UNCHANGED drops
        \/ Disconnect(sd)

-----------------------------------------------------------------------------
CoreInit ==
    /\ param \in Params
    /\ conn = [s \in Conn |-> [NewConn EXCEPT !.ref = 0, !.state = "S_FREE"]]
    /\ call = [c \in Call |-> [NewCall EXCEPT !.ref = 0]]
    /\ timers = timer_init
    /\ sd_to_conn = [sd \in SD |-> NULL]
    /\ rdfds = {} /\ wrfds = {}
    /\ ports = [free |-> Port, previous |-> 0, from |-> 0, cnt |-> 0]
    /\ net = [sd \in SD |-> NoPeer] /\ drops = 0
    /\ result = 0
    /\ running = TRUE
    /\ abort = NULL

CoreFunction ==
    \/ call_dec_ref \/ conn_dec_ref \/ object_destroy
    \/ conn_failure \/ conn_timeout \/ set_active
    \/ core_send \/ enqueue \/ start_send \/ do_send \/ sent \/ expect \/ send_next
    \/ do_recv \/ reply \/ recv_done \/ next_reply \/ more
    \/ core_connect \/ bind \/ connect \/ return
    \/ core_close \/ drop_sendq \/ drop_recvq \/ closed
    \/ timer_tick \/ select \/ serve \/ served \/ send_recv \/ recv_if \/ core_exit
    \/ \E due \in SUBSET Pending(timers) : between(due)

-----------------------------------------------------------------------------

\* Between two turns of the loop, which objects and resources are in use:
Idle == todo = << >> /\ abort = NULL

\* Every connection that is not free holds what it is on record with: its
\* descriptor leads back to it, its port is taken and its own, its watchdog is
\* a timer that was set for it and is not cancelled.  And nothing else is held,
\* the ports that could not be bound excepted.
NothingLeaks ==
    Idle =>
        LET live == {s \in Allocated("conn") : ~ IsFree("conn", s)}
        IN  /\ \A s \in live : conn[s].state # "S_FREE" /\ sd_to_conn[conn[s].sd] = s
            /\ {sd \in SD : sd_to_conn[sd] # NULL} = {conn[s].sd : s \in live}
            /\ rdfds \cup wrfds \subseteq {conn[s].sd : s \in live}
            /\ param.hog => /\ Cardinality({conn[s].myport : s \in live}) = Cardinality(live)
                      /\ {conn[s].myport : s \in live} \subseteq Port \ ports.free
            /\ param.hog /\ Faults \cap {"inuse", "notavail"} = {} =>
                 Cardinality(Port \ ports.free) = Cardinality(live)
            /\ \A t \in Range(timers.active) :
                 ~ timers.expired[t] /\ timers.callback[t][1] = "conn_timeout" =>
                     LET s == timers.callback[t][2]
                     IN  s \in live /\ conn[s].watchdog = t
            /\ \A s \in live : conn[s].watchdog # NULL => ~ timers.expired[conn[s].watchdog]

\* No assertion of the program fails, and nothing that is free is used.
NoAbort == abort = NULL
=============================================================================
