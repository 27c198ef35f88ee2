---------------------------- MODULE Httperf_proofs ----------------------------
(***************************************************************************)
(* Proofs about httperf without sessions, for any command lines, number of *)
(* objects, descriptors and timers, faults and answers of the server: the  *)
(* URIs are given in turn, and the connections are counted.                *)
(*                                                                         *)
(* Both depend on the stack of calls, so the proofs say of every function  *)
(* what it puts there.  Only five functions matter to them: the handlers   *)
(* that count a connection, the end of object_destroy for a connection,    *)
(* and core_exit.                                                          *)
(***************************************************************************)
EXTENDS HttperfSeq, DataFacts, TLAPS

-----------------------------------------------------------------------------
(***************************************************************************)
(* Stacks.                                                                 *)
(***************************************************************************)
IsStack(s) == \E S : s \in Seq(S)

Counters == {"conn_created", "conn_destroyed", "destroyed", "free"}

\* The frame f is a call of the function l, of free for a connection.
IsCallOf(f, l) == f[1] = l /\ (l = "free" => f[2] = "conn")

Uncounted(f) == \A l \in Counters : ~ IsCallOf(f, l)

\* Nor are the handlers of the generators of URIs that were not asked for called.
UriNames == {"set_uri_fixed", "set_uri_wlist", "set_uri_wlog", "set_uri_wset"}
Foreign == {n \in UriNames : UriHandlers(param) # << n >>}

Quiet(f) == Uncounted(f) /\ f[1] \notin Foreign

QuietSeq(q) == \E S : q \in Seq(S) /\ \A f \in S : Quiet(f)

\* How many calls of l are on the stack s.
Places(s, l) == {k \in DOMAIN s : IsCallOf(s[k], l)}

Waiting(s, l) == Cardinality(Places(s, l))

LEMMA PlacesFinite ==
    ASSUME NEW S, NEW s \in Seq(S), NEW l
    PROVE  IsFiniteSet(Places(s, l)) /\ Waiting(s, l) \in Nat
<1>1. Len(s) \in Nat /\ Places(s, l) \in SUBSET (1 .. Len(s))
  BY DEF Places
<1> QED
  BY <1>1, PartOfInterval DEF Waiting

\* What waits on a stack waits on one of its parts.
LEMMA WaitingConcat ==
    ASSUME NEW S, NEW q \in Seq(S), NEW t \in Seq(S), NEW l
    PROVE  Waiting(q \o t, l) = Waiting(q, l) + Waiting(t, l)
<1> DEFINE s == q \o t
           n == Len(q)
           P == Places(t, l)
           f == [k \in P |-> k + n]
           Q == {k + n : k \in P}
<1>1. /\ s \in Seq(S) /\ n \in Nat /\ Len(t) \in Nat /\ DOMAIN s = 1 .. n + Len(t)
      /\ \A k \in 1 .. n : s[k] = q[k]
      /\ \A k \in 1 .. Len(t) : s[k + n] = t[k]
      /\ \A k \in n + 1 .. n + Len(t) : s[k] = t[k - n]
      /\ DOMAIN q = 1 .. n /\ DOMAIN t = 1 .. Len(t)
  <2>1. /\ s \in Seq(S) /\ n \in Nat /\ Len(t) \in Nat /\ Len(s) = n + Len(t)
        /\ DOMAIN s = 1 .. n + Len(t) /\ DOMAIN q = 1 .. n /\ DOMAIN t = 1 .. Len(t)
    OBVIOUS
  <2>2. \A k \in 1 .. n : s[k] = q[k]
    OBVIOUS
  <2>3. \A k \in n + 1 .. n + Len(t) : s[k] = t[k - n]
    OBVIOUS
  <2> HIDE DEF s, n
  <2>4. \A k \in 1 .. Len(t) : s[k + n] = t[k]
    <3> SUFFICES ASSUME NEW k \in 1 .. Len(t) PROVE s[k + n] = t[k]
      OBVIOUS
    <3>1. k + n \in n + 1 .. n + Len(t) /\ (k + n) - n = k
      BY <2>1
    <3> QED
      BY <2>3, <3>1
  <2> QED
    BY <2>1, <2>2, <2>3, <2>4
<1> HIDE DEF s, n
<1>2. IsFiniteSet(P) /\ IsFiniteSet(Places(q, l)) /\ P \subseteq Nat
  <2>1. IsFiniteSet(P) /\ IsFiniteSet(Places(q, l))
    BY PlacesFinite
  <2>2. P \subseteq 1 .. Len(t)
    BY <1>1 DEF Places
  <2> QED
    BY <1>1, <2>1, <2>2
<1>3. Places(s, l) = Places(q, l) \cup Q
  <2>1. Places(s, l) \subseteq Places(q, l) \cup Q
    <3> SUFFICES ASSUME NEW k \in DOMAIN s, IsCallOf(s[k], l), k \notin 1 .. n
                 PROVE  k \in Q
      BY <1>1 DEF Places
    <3>1. k \in n + 1 .. n + Len(t)
      BY <1>1
    <3>2. k - n \in 1 .. Len(t) /\ s[k] = t[k - n] /\ k = (k - n) + n
      BY <1>1, <3>1
    <3>3. k - n \in P
      BY <1>1, <3>2 DEF Places
    <3> QED
      BY <3>2, <3>3
  <2>2. Places(q, l) \subseteq Places(s, l)
    BY <1>1 DEF Places
  <2>3. Q \subseteq Places(s, l)
    <3> SUFFICES ASSUME NEW k \in P PROVE k + n \in Places(s, l)
      OBVIOUS
    <3>1. k \in 1 .. Len(t) /\ IsCallOf(t[k], l)
      BY <1>1 DEF Places
    <3>2. k + n \in DOMAIN s /\ s[k + n] = t[k]
      BY <1>1, <3>1
    <3> QED
      BY <3>1, <3>2 DEF Places
  <2> QED
    BY <2>1, <2>2, <2>3
<1>4. IsFiniteSet(Q) /\ Cardinality(Q) = Cardinality(P)
  <2>1. f \in Bijection(P, Q)
    <3>1. f \in [P -> Q]
      OBVIOUS
    <3>2. \A a, b \in P : f[a] = f[b] => a = b
      BY <1>1, <1>2
    <3>3. \A b \in Q : \E a \in P : f[a] = b
      OBVIOUS
    <3> HIDE DEF f, P, Q
    <3> QED
      BY <3>1, <3>2, <3>3 DEF Bijection, Injection, Surjection, IsInjective
  <2> QED
    BY <1>2, <2>1, FS_Bijection DEF ExistsBijection
<1>5. Places(q, l) \cap Q = {}
  <2>1. \A k \in P : k >= 1
    BY <1>1 DEF Places
  <2>2. \A k \in Places(q, l) : k <= n
    BY <1>1 DEF Places
  <2>3. \A k \in P : k + n \in Nat /\ k + n > n
    BY <1>1, <1>2, <2>1
  <2>4. \A x \in Q : x \in Nat /\ x > n
    BY <2>3
  <2> HIDE DEF P, Q
  <2> QED
    BY <1>1, <2>2, <2>4
<1> HIDE DEF P, Q
<1>6. Cardinality(Places(q, l) \cup Q) =
          Cardinality(Places(q, l)) + Cardinality(Q) - Cardinality(Places(q, l) \cap Q)
  BY <1>2, <1>4, FS_Union
<1>7. Cardinality({}) = 0 /\ Cardinality(Places(q, l)) \in Nat /\ Cardinality(Q) \in Nat
  BY <1>2, <1>4, FS_EmptySet, FS_CardinalityType
<1>8. Cardinality(Places(s, l)) = Cardinality(Places(q, l)) + Cardinality(P)
  <2>1. Cardinality(Places(q, l) \cap Q) = 0
    BY <1>5, <1>7
  <2>2. Cardinality(Places(s, l)) =
            Cardinality(Places(q, l)) + Cardinality(Q) - Cardinality(Places(q, l) \cap Q)
    BY <1>3, <1>6
  <2> QED
    BY <1>4, <1>7, <2>1, <2>2
<1> QED
  BY <1>8 DEF Waiting, s, P

\* One call.
LEMMA WaitingOne ==
    ASSUME NEW f, NEW l
    PROVE  Waiting(<< f >>, l) = IF IsCallOf(f, l) THEN 1 ELSE 0
<1>1. Places(<< f >>, l) = IF IsCallOf(f, l) THEN {1} ELSE {}
  BY DEF Places
<1>2. Cardinality({1}) = 1 /\ Cardinality({}) = 0
  BY FS_EmptySet, FS_Singleton
<1> QED
  BY <1>1, <1>2 DEF Waiting

\* Nothing that matters waits on a quiet stack.
LEMMA WaitingQuiet ==
    ASSUME NEW q, QuietSeq(q), NEW l \in Counters
    PROVE  Waiting(q, l) = 0
<1>1. PICK S : q \in Seq(S) /\ \A f \in S : Quiet(f)
  BY DEF QuietSeq
<1>2. \A k \in DOMAIN q : q[k] \in S
  BY <1>1
<1>3. Places(q, l) = {}
  BY <1>1, <1>2 DEF Places, Quiet, Uncounted
<1> QED
  BY <1>3, FS_EmptySet DEF Waiting

LEMMA StackParts ==
    ASSUME NEW s, IsStack(s), s # << >>
    PROVE  /\ IsStack(Tail(s))
           /\ \A l : /\ Waiting(s, l) \in Nat /\ Waiting(Tail(s), l) \in Nat
                     /\ Waiting(s, l) = Waiting(Tail(s), l) + (IF IsCallOf(Head(s), l) THEN 1 ELSE 0)
<1>1. PICK S : s \in Seq(S)
  BY DEF IsStack
<1>2. Tail(s) \in Seq(S) /\ Head(s) \in S /\ << Head(s) >> \in Seq(S)
  BY <1>1
<1> DEFINE u == << Head(s) >> \o Tail(s)
<1>3. s = u
  BY <1>1
<1>4. ASSUME NEW l
      PROVE  /\ Waiting(s, l) \in Nat /\ Waiting(Tail(s), l) \in Nat
             /\ Waiting(s, l) = Waiting(Tail(s), l) + (IF IsCallOf(Head(s), l) THEN 1 ELSE 0)
  <2>1. Waiting(s, l) \in Nat /\ Waiting(Tail(s), l) \in Nat
    BY <1>1, <1>2, PlacesFinite
  <2>2. Waiting(u, l) = Waiting(<< Head(s) >>, l) + Waiting(Tail(s), l)
    BY <1>2, WaitingConcat
  <2>3. Waiting(<< Head(s) >>, l) = IF IsCallOf(Head(s), l) THEN 1 ELSE 0
    BY WaitingOne
  <2> HIDE DEF u
  <2>4. Waiting(s, l) = Waiting(<< Head(s) >>, l) + Waiting(Tail(s), l)
    BY <1>3, <2>2
  <2> QED
    BY <2>1, <2>3, <2>4
<1> QED
  BY <1>2, <1>4 DEF IsStack

\* A stack on another one.
LEMMA StackConcat ==
    ASSUME NEW q, IsStack(q), NEW t, IsStack(t)
    PROVE  /\ IsStack(q \o t)
           /\ \A l : /\ Waiting(q, l) \in Nat /\ Waiting(t, l) \in Nat
                     /\ Waiting(q \o t, l) = Waiting(q, l) + Waiting(t, l)
<1>1. PICK S, T : q \in Seq(S) /\ t \in Seq(T)
  BY DEF IsStack
<1> DEFINE U == S \cup T
<1>2. q \in Seq(U) /\ t \in Seq(U)
  BY <1>1
<1> HIDE DEF U
<1>3. q \o t \in Seq(U)
  BY <1>2
<1> QED
  BY <1>2, <1>3, WaitingConcat, PlacesFinite DEF IsStack

-----------------------------------------------------------------------------
(***************************************************************************)
(* Quiet stacks: the frames the program is made of, and the handlers of an *)
(* event.                                                                  *)
(***************************************************************************)
LEMMA QuietFrames ==
    ASSUME NEW n, n \notin Counters \cup UriNames
    PROVE  /\ Quiet(<< n >>)
           /\ \A a : Quiet(<< n, a >>)
           /\ \A a, b : Quiet(<< n, a, b >>)
           /\ \A a, b, c, d : Quiet(<< n, a, b, c, d >>)
BY DEF Quiet, Uncounted, IsCallOf, Counters, Foreign, UriNames

LEMMA QuietFree == \A o : Quiet(<< "free", "call", o >>)
BY DEF Quiet, Uncounted, IsCallOf, Counters, Foreign, UriNames

LEMMA QuietNone == QuietSeq(<< >>)
<1> DEFINE S == {}
<1>1. << >> \in Seq(S) /\ \A x \in S : Quiet(x)
  OBVIOUS
<1> HIDE DEF S
<1> QED
  BY <1>1 DEF QuietSeq

LEMMA QuietOne ==
    ASSUME NEW f, Quiet(f)
    PROVE  QuietSeq(<< f >>)
<1> DEFINE S == {f}
<1>1. << f >> \in Seq(S) /\ \A x \in S : Quiet(x)
  OBVIOUS
<1> HIDE DEF S
<1> QED
  BY <1>1 DEF QuietSeq

LEMMA QuietTwo ==
    ASSUME NEW f, Quiet(f), NEW g, Quiet(g)
    PROVE  QuietSeq(<< f, g >>)
<1> DEFINE S == {f, g}
<1>1. << f, g >> \in Seq(S) /\ \A x \in S : Quiet(x)
  OBVIOUS
<1> HIDE DEF S
<1> QED
  BY <1>1 DEF QuietSeq

LEMMA QuietConcat ==
    ASSUME NEW q, QuietSeq(q), NEW r, QuietSeq(r)
    PROVE  QuietSeq(q \o r)
<1>1. PICK S : q \in Seq(S) /\ \A f \in S : Quiet(f)
  BY DEF QuietSeq
<1>2. PICK T : r \in Seq(T) /\ \A f \in T : Quiet(f)
  BY DEF QuietSeq
<1> DEFINE U == S \cup T
<1>3. q \in Seq(U) /\ r \in Seq(U) /\ \A f \in U : Quiet(f)
  BY <1>1, <1>2
<1> HIDE DEF U
<1>4. q \o r \in Seq(U)
  BY <1>3
<1> QED
  BY <1>3, <1>4 DEF QuietSeq

LEMMA QuietIsStack ==
    ASSUME NEW q, QuietSeq(q)
    PROVE  IsStack(q)
BY DEF QuietSeq, IsStack

\* The handlers of every event but the two of a connection's making and end.
QuietEvents == Events \ {"EV_CONN_NEW", "EV_CONN_DESTROYED"}

QuietNames ==
    {"count_issued", "count_connect", "conn_connected", "conn_fail", "count_timeout",
     "send_stop", "recv_start", "recv_stop", "call_done", "call_destroyed"}
        \cup (UriNames \ Foreign)

LEMMA QuietHandlers ==
    ASSUME param \in Params, NEW e \in QuietEvents
    PROVE  Handlers(param, e) \in Seq(QuietNames)
<1>1. Handlers(param, e) = SeqHandlers(param, e)
  BY HandlersAssumption DEF QuietEvents
<1>2. UriHandlers(param) \in Seq(QuietNames)
  <2>1. param.uri \in {"fixed", "wlist", "wlog", "wset"}
    BY UriAssumption
  <2>2. PICK n \in UriNames : UriHandlers(param) = << n >>
    BY <2>1 DEF UriHandlers, UriNames
  <2>3. n \in QuietNames
    BY <2>2 DEF QuietNames, Foreign
  <2> QED
    BY <2>2, <2>3
<1>3. /\ << "count_issued" >> \in Seq(QuietNames)
      /\ << "count_connect", "conn_connected" >> \in Seq(QuietNames)
      /\ << "conn_fail" >> \in Seq(QuietNames) /\ << "count_timeout" >> \in Seq(QuietNames)
      /\ << "send_stop" >> \in Seq(QuietNames) /\ << "recv_start" >> \in Seq(QuietNames)
      /\ << "recv_stop", "call_done" >> \in Seq(QuietNames)
      /\ << "call_destroyed" >> \in Seq(QuietNames) /\ << >> \in Seq(QuietNames)
  BY DEF QuietNames
<1>4. e \in {"EV_CONN_CONNECTING", "EV_CONN_CONNECTED", "EV_CONN_FAILED", "EV_CONN_TIMEOUT",
             "EV_CONN_CLOSE", "EV_CALL_NEW", "EV_CALL_ISSUE", "EV_CALL_SEND_START",
             "EV_CALL_SEND_STOP", "EV_CALL_RECV_START", "EV_CALL_RECV_HDR",
             "EV_CALL_RECV_DATA", "EV_CALL_RECV_FOOTER", "EV_CALL_RECV_STOP",
             "EV_CALL_DESTROYED"}
  BY DEF QuietEvents, Events
<1> HIDE DEF QuietNames
<1>5. SeqHandlers(param, e) \in Seq(QuietNames)
  BY <1>2, <1>3, <1>4 DEF SeqHandlers
<1> QED
  BY <1>1, <1>5

LEMMA QuietSignal ==
    ASSUME param \in Params, NEW e \in QuietEvents
    PROVE  /\ \A o, a : QuietSeq(event_signal(e, o, a))
           /\ \A o : QuietSeq(Signal(e, o))
<1> DEFINE H == Handlers(param, e)
<1>1. H \in Seq(QuietNames)
  BY QuietHandlers
<1>2. ASSUME NEW o, NEW a PROVE QuietSeq(event_signal(e, o, a))
  <2> DEFINE S == {<< n, o, a >> : n \in QuietNames}
             q == [i \in DOMAIN H |-> << H[i], o, a >>]
  <2>1. Len(H) \in Nat /\ DOMAIN H = 1 .. Len(H) /\ \A i \in DOMAIN H : H[i] \in QuietNames
    BY <1>1
  <2> HIDE DEF H
  <2>2. q \in Seq(S)
    BY <2>1
  <2>3. \A n \in QuietNames : Quiet(<< n, o, a >>)
    <3> SUFFICES ASSUME NEW n \in QuietNames PROVE Quiet(<< n, o, a >>)
      OBVIOUS
    <3>1. n \notin Counters /\ n \notin Foreign
      BY DEF QuietNames, Counters, UriNames, Foreign
    <3> QED
      BY <3>1 DEF Quiet, Uncounted, IsCallOf, Counters
  <2>4. \A f \in S : Quiet(f)
    BY <2>3
  <2>5. QuietSeq(q)
    <3> HIDE DEF q, S
    <3> QED
      BY <2>2, <2>4 DEF QuietSeq
  <2> QED
    BY <2>5 DEF event_signal, H
<1> QED
  BY <1>2 DEF Signal

-----------------------------------------------------------------------------
(***************************************************************************)
(* What every function puts on the stack.                                  *)
(***************************************************************************)
\* The ways the timers change.
TimersMove ==
    \/ UNCHANGED timers
    \/ \E f \in {"conn_timeout", "tick"} : \E s, late :
          timers' = timer_schedule(timers, << f, s, 0 >>, late)
    \/ \E t : timers' = timer_cancel(timers, t) \/ timers' = timer_has_expired(timers, t)
    \/ timers' = timer_deactivate(timers)

Quietly(n) ==
    /\ Step(n)
    /\ \E q : QuietSeq(q) /\ Run(q)
    /\ UNCHANGED << running, free, used >>
    /\ TimersMove

LEMMA Quiet_call_dec_ref == param \in Params /\ call_dec_ref => Quietly("call_dec_ref")
<1> SUFFICES ASSUME param \in Params, call_dec_ref PROVE Quietly("call_dec_ref")
  OBVIOUS
<1>1. Step("call_dec_ref") /\ UNCHANGED << running, free, used >> /\ TimersMove
  BY DEF call_dec_ref, objects, sockets, TimersMove
<1>2. QuietSeq(Signal("EV_CALL_DESTROYED", Arg(1)) \o << << "free", "call", Arg(1) >> >>)
  <2>1. QuietSeq(Signal("EV_CALL_DESTROYED", Arg(1)))
    BY QuietSignal DEF QuietEvents, Events
  <2>2. QuietSeq(<< << "free", "call", Arg(1) >> >>)
    BY QuietFree, QuietOne
  <2> QED
    BY <2>1, <2>2, QuietConcat
<1>3. QuietSeq(<< >>)
  BY QuietNone
<1>4. \E q : QuietSeq(q) /\ Run(q)
  BY <1>2, <1>3 DEF call_dec_ref
<1> QED
  BY <1>1, <1>4 DEF Quietly

LEMMA Quiet_conn_failure == param \in Params /\ conn_failure => Quietly("conn_failure")
<1> SUFFICES ASSUME param \in Params, conn_failure PROVE Quietly("conn_failure")
  OBVIOUS
<1>1. Step("conn_failure") /\ UNCHANGED << running, free, used >> /\ TimersMove
  BY DEF conn_failure, objects, sockets, TimersMove
<1>2. QuietSeq(event_signal("EV_CONN_FAILED", Arg(1), Arg(2)) \o << << "core_close", Arg(1) >> >>)
  <2>1. QuietSeq(event_signal("EV_CONN_FAILED", Arg(1), Arg(2)))
    BY QuietSignal DEF QuietEvents, Events
  <2>2. QuietSeq(<< << "core_close", Arg(1) >> >>)
    BY QuietFrames, QuietOne DEF Counters, UriNames
  <2> QED
    BY <2>1, <2>2, QuietConcat
<1>3. \E q : QuietSeq(q) /\ Run(q)
  BY <1>2 DEF conn_failure
<1> QED
  BY <1>1, <1>3 DEF Quietly

LEMMA Quiet_conn_timeout == param \in Params /\ conn_timeout => Quietly("conn_timeout")
<1> SUFFICES ASSUME param \in Params, conn_timeout PROVE Quietly("conn_timeout")
  OBVIOUS
<1>1. Step("conn_timeout") /\ UNCHANGED << running, free, used >> /\ TimersMove
  BY DEF conn_timeout, objects, sockets, TimersMove
<1>2. QuietSeq(Signal("EV_CONN_TIMEOUT", Arg(1)) \o << << "core_close", Arg(1) >> >>)
  <2>1. QuietSeq(Signal("EV_CONN_TIMEOUT", Arg(1)))
    BY QuietSignal DEF QuietEvents, Events
  <2>2. QuietSeq(<< << "core_close", Arg(1) >> >>)
    BY QuietFrames, QuietOne DEF Counters, UriNames
  <2> QED
    BY <2>1, <2>2, QuietConcat
<1>3. \E q : QuietSeq(q) /\ Run(q)
  BY <1>2 DEF conn_timeout
<1> QED
  BY <1>1, <1>3 DEF Quietly

LEMMA Quiet_set_active == param \in Params /\ set_active => Quietly("set_active")
<1> SUFFICES ASSUME param \in Params, set_active PROVE Quietly("set_active")
  OBVIOUS
<1>1. Step("set_active") /\ UNCHANGED << running, free, used >> /\ TimersMove
  BY DEF set_active, objects, sockets, TimersMove
<1>2. QuietSeq(<< >>)
  BY QuietNone
<1>3. \E q : QuietSeq(q) /\ Run(q)
  BY <1>2 DEF set_active
<1> QED
  BY <1>1, <1>3 DEF Quietly

LEMMA Quiet_core_send == param \in Params /\ core_send => Quietly("core_send")
<1> SUFFICES ASSUME param \in Params, core_send PROVE Quietly("core_send")
  OBVIOUS
<1>1. Step("core_send") /\ UNCHANGED << running, free, used >> /\ TimersMove
  BY DEF core_send, objects, sockets, TimersMove
<1>2. QuietSeq(Signal("EV_CALL_ISSUE", Arg(2)) \o << << "enqueue", Arg(1), Arg(2) >> >>)
  <2>1. QuietSeq(Signal("EV_CALL_ISSUE", Arg(2)))
    BY QuietSignal DEF QuietEvents, Events
  <2>2. QuietSeq(<< << "enqueue", Arg(1), Arg(2) >> >>)
    BY QuietFrames, QuietOne DEF Counters, UriNames
  <2> QED
    BY <2>1, <2>2, QuietConcat
<1>3. \E q : QuietSeq(q) /\ Run(q)
  BY <1>2 DEF core_send
<1> QED
  BY <1>1, <1>3 DEF Quietly

LEMMA Quiet_enqueue == param \in Params /\ enqueue => Quietly("enqueue")
<1> SUFFICES ASSUME param \in Params, enqueue PROVE Quietly("enqueue")
  OBVIOUS
<1>1. Step("enqueue") /\ UNCHANGED << running, free, used >> /\ TimersMove
  BY DEF enqueue, objects, sockets, TimersMove
<1>2. QuietSeq(Signal("EV_CALL_SEND_START", Arg(2)) \o << << "start_send", Arg(1), Arg(2) >> >>)
  <2>1. QuietSeq(Signal("EV_CALL_SEND_START", Arg(2)))
    BY QuietSignal DEF QuietEvents, Events
  <2>2. QuietSeq(<< << "start_send", Arg(1), Arg(2) >> >>)
    BY QuietFrames, QuietOne DEF Counters, UriNames
  <2> QED
    BY <2>1, <2>2, QuietConcat
<1>3. QuietSeq(<< >>)
  BY QuietNone
<1>4. \E q : QuietSeq(q) /\ Run(q)
  BY <1>2, <1>3 DEF enqueue
<1> QED
  BY <1>1, <1>4 DEF Quietly

LEMMA Quiet_start_send == param \in Params /\ start_send => Quietly("start_send")
<1> SUFFICES ASSUME param \in Params, start_send PROVE Quietly("start_send")
  OBVIOUS
<1>1. Step("start_send") /\ UNCHANGED << running, free, used >> /\ TimersMove
  BY DEF start_send, objects, sockets, TimersMove
<1>2. QuietSeq(<< >>)
  BY QuietNone
<1>3. QuietSeq(<< << "set_active", Arg(1), "wrfds" >> >>)
  BY QuietFrames, QuietOne DEF Counters, UriNames
<1>4. \E q : QuietSeq(q) /\ Run(q)
  BY <1>2, <1>3 DEF start_send
<1> QED
  BY <1>1, <1>4 DEF Quietly

LEMMA Quiet_do_send == param \in Params /\ do_send => Quietly("do_send")
<1> SUFFICES ASSUME param \in Params, do_send PROVE Quietly("do_send")
  OBVIOUS
<1>1. Step("do_send") /\ UNCHANGED << running, free, used >> /\ TimersMove
  BY DEF do_send, objects, sockets, TimersMove
<1>2. QuietSeq(<< >>)
  BY QuietNone
<1>3. QuietSeq(<< << "conn_failure", Arg(1), "reset" >> >>)
  BY QuietFrames, QuietOne DEF Counters, UriNames
<1>4. QuietSeq(<< << "set_active", Arg(1), "wrfds" >> >>)
  BY QuietFrames, QuietOne DEF Counters, UriNames
<1>5. QuietSeq(Signal("EV_CALL_SEND_STOP", conn[Arg(1)].sendq) \o << << "sent", Arg(1), conn[Arg(1)].sendq >> >>)
  <2>1. QuietSeq(Signal("EV_CALL_SEND_STOP", conn[Arg(1)].sendq))
    BY QuietSignal DEF QuietEvents, Events
  <2>2. QuietSeq(<< << "sent", Arg(1), conn[Arg(1)].sendq >> >>)
    BY QuietFrames, QuietOne DEF Counters, UriNames
  <2> QED
    BY <2>1, <2>2, QuietConcat
<1>6. \E q : QuietSeq(q) /\ Run(q)
  BY <1>2, <1>3, <1>4, <1>5 DEF do_send
<1> QED
  BY <1>1, <1>6 DEF Quietly

LEMMA Quiet_sent == param \in Params /\ sent => Quietly("sent")
<1> SUFFICES ASSUME param \in Params, sent PROVE Quietly("sent")
  OBVIOUS
<1>1. Step("sent") /\ UNCHANGED << running, free, used >> /\ TimersMove
  BY DEF sent, objects, sockets, TimersMove
<1>2. QuietSeq(<< << "call_dec_ref", Arg(2) >> >>)
  BY QuietFrames, QuietOne DEF Counters, UriNames
<1>3. QuietSeq(<< << "set_active", Arg(1), "rdfds" >>, << "expect", Arg(1) >> >>)
  BY QuietFrames, QuietTwo DEF Counters, UriNames
<1>4. \E q : QuietSeq(q) /\ Run(q)
  BY <1>2, <1>3 DEF sent
<1> QED
  BY <1>1, <1>4 DEF Quietly

LEMMA Quiet_expect == param \in Params /\ expect => Quietly("expect")
<1> SUFFICES ASSUME param \in Params, expect PROVE Quietly("expect")
  OBVIOUS
<1>1. Step("expect") /\ UNCHANGED << running, free, used >> /\ TimersMove
  BY DEF expect, objects, sockets, TimersMove
<1>2. QuietSeq(<< >>)
  BY QuietNone
<1>3. QuietSeq(Signal("EV_CALL_SEND_START", conn[Arg(1)].sendq) \o << << "send_next", Arg(1) >> >>)
  <2>1. QuietSeq(Signal("EV_CALL_SEND_START", conn[Arg(1)].sendq))
    BY QuietSignal DEF QuietEvents, Events
  <2>2. QuietSeq(<< << "send_next", Arg(1) >> >>)
    BY QuietFrames, QuietOne DEF Counters, UriNames
  <2> QED
    BY <2>1, <2>2, QuietConcat
<1>4. \E q : QuietSeq(q) /\ Run(q)
  BY <1>2, <1>3 DEF expect
<1> QED
  BY <1>1, <1>4 DEF Quietly

LEMMA Quiet_send_next == param \in Params /\ send_next => Quietly("send_next")
<1> SUFFICES ASSUME param \in Params, send_next PROVE Quietly("send_next")
  OBVIOUS
<1>1. Step("send_next") /\ UNCHANGED << running, free, used >> /\ TimersMove
  BY DEF send_next, objects, sockets, TimersMove
<1>2. QuietSeq(<< >>)
  BY QuietNone
<1>3. QuietSeq(<< << "do_send", Arg(1) >> >>)
  BY QuietFrames, QuietOne DEF Counters, UriNames
<1>4. \E q : QuietSeq(q) /\ Run(q)
  BY <1>2, <1>3 DEF send_next
<1> QED
  BY <1>1, <1>4 DEF Quietly

LEMMA Quiet_do_recv == param \in Params /\ do_recv => Quietly("do_recv")
<1> SUFFICES ASSUME param \in Params, do_recv PROVE Quietly("do_recv")
  OBVIOUS
<1>1. Step("do_recv") /\ UNCHANGED << running, free, used >> /\ TimersMove
  BY DEF do_recv, objects, sockets, TimersMove
<1>2. QuietSeq(<< << "reply", Arg(1), net[conn[Arg(1)].sd].in >> >>)
  BY QuietFrames, QuietOne DEF Counters, UriNames
<1>3. QuietSeq(<< >>)
  BY QuietNone
<1>4. QuietSeq(<< << "recv_done", conn[Arg(1)].recvq >> >>)
  BY QuietFrames, QuietOne DEF Counters, UriNames
<1>5. QuietSeq(<< << "conn_failure", Arg(1), "reset" >> >>)
  BY QuietFrames, QuietOne DEF Counters, UriNames
<1>6. \E q : QuietSeq(q) /\ Run(q)
  BY <1>2, <1>3, <1>4, <1>5 DEF do_recv
<1> QED
  BY <1>1, <1>6 DEF Quietly

LEMMA Quiet_recv_done == param \in Params /\ recv_done => Quietly("recv_done")
<1> SUFFICES ASSUME param \in Params, recv_done PROVE Quietly("recv_done")
  OBVIOUS
<1>1. Step("recv_done") /\ UNCHANGED << running, free, used >> /\ TimersMove
  BY DEF recv_done, objects, sockets, TimersMove
<1>2. QuietSeq(Signal("EV_CALL_RECV_STOP", Arg(1)) \o << << "call_dec_ref", Arg(1) >> >>)
  <2>1. QuietSeq(Signal("EV_CALL_RECV_STOP", Arg(1)))
    BY QuietSignal DEF QuietEvents, Events
  <2>2. QuietSeq(<< << "call_dec_ref", Arg(1) >> >>)
    BY QuietFrames, QuietOne DEF Counters, UriNames
  <2> QED
    BY <2>1, <2>2, QuietConcat
<1>3. \E q : QuietSeq(q) /\ Run(q)
  BY <1>2 DEF recv_done
<1> QED
  BY <1>1, <1>3 DEF Quietly

LEMMA Quiet_next_reply == param \in Params /\ next_reply => Quietly("next_reply")
<1> SUFFICES ASSUME param \in Params, next_reply PROVE Quietly("next_reply")
  OBVIOUS
<1>1. Step("next_reply") /\ UNCHANGED << running, free, used >> /\ TimersMove
  BY DEF next_reply, objects, sockets, TimersMove
<1>2. QuietSeq(<< >>)
  BY QuietNone
<1>3. QuietSeq(<< << "more", Arg(1), Arg(2) >> >>)
  BY QuietFrames, QuietOne DEF Counters, UriNames
<1>4. \E q : QuietSeq(q) /\ Run(q)
  BY <1>2, <1>3 DEF next_reply
<1> QED
  BY <1>1, <1>4 DEF Quietly

LEMMA Quiet_more == param \in Params /\ more => Quietly("more")
<1> SUFFICES ASSUME param \in Params, more PROVE Quietly("more")
  OBVIOUS
<1>1. Step("more") /\ UNCHANGED << running, free, used >> /\ TimersMove
  BY DEF more, objects, sockets, TimersMove
<1>2. QuietSeq(<< << "recv_done", conn[Arg(1)].recvq >>, << "next_reply", Arg(1), Arg(2) >> >>)
  BY QuietFrames, QuietTwo DEF Counters, UriNames
<1>3. QuietSeq(<< << "reply", Arg(1), Arg(2) >> >>)
  BY QuietFrames, QuietOne DEF Counters, UriNames
<1>4. QuietSeq(<< << "set_active", Arg(1), "rdfds" >> >>)
  BY QuietFrames, QuietOne DEF Counters, UriNames
<1>5. QuietSeq(<< >>)
  BY QuietNone
<1>6. \E q : QuietSeq(q) /\ Run(q)
  BY <1>2, <1>3, <1>4, <1>5 DEF more
<1> QED
  BY <1>1, <1>6 DEF Quietly

LEMMA Quiet_core_connect == param \in Params /\ core_connect => Quietly("core_connect")
<1> SUFFICES ASSUME param \in Params, core_connect PROVE Quietly("core_connect")
  OBVIOUS
<1>1. Step("core_connect") /\ UNCHANGED << running, free, used >> /\ TimersMove
  BY DEF core_connect, objects, sockets, TimersMove
<1>2. QuietSeq(<< << "conn_failure", Arg(1), "nofd" >>, << "return", -1 >> >>)
  BY QuietFrames, QuietTwo DEF Counters, UriNames
<1>3. QuietSeq(<< << "conn_failure", Arg(1), "other" >>, << "return", -1 >> >>)
  BY QuietFrames, QuietTwo DEF Counters, UriNames
<1>4. QuietSeq(Signal("EV_CONN_CONNECTING", Arg(1)) \o << << "bind", Arg(1), ports.cnt >> >>)
  <2>1. QuietSeq(Signal("EV_CONN_CONNECTING", Arg(1)))
    BY QuietSignal DEF QuietEvents, Events
  <2>2. QuietSeq(<< << "bind", Arg(1), ports.cnt >> >>)
    BY QuietFrames, QuietOne DEF Counters, UriNames
  <2> QED
    BY <2>1, <2>2, QuietConcat
<1>5. QuietSeq(Signal("EV_CONN_CONNECTING", Arg(1)) \o << << "connect", Arg(1) >> >>)
  <2>1. QuietSeq(Signal("EV_CONN_CONNECTING", Arg(1)))
    BY QuietSignal DEF QuietEvents, Events
  <2>2. QuietSeq(<< << "connect", Arg(1) >> >>)
    BY QuietFrames, QuietOne DEF Counters, UriNames
  <2> QED
    BY <2>1, <2>2, QuietConcat
<1>6. \E q : QuietSeq(q) /\ Run(q)
  BY <1>2, <1>3, <1>4, <1>5 DEF core_connect, Fail
<1> QED
  BY <1>1, <1>6 DEF Quietly

LEMMA Quiet_bind == param \in Params /\ bind => Quietly("bind")
<1> SUFFICES ASSUME param \in Params, bind PROVE Quietly("bind")
  OBVIOUS
<1>1. Step("bind") /\ UNCHANGED << running, free, used >> /\ TimersMove
  BY DEF bind, objects, sockets, TimersMove
<1>2. QuietSeq(<< << "conn_failure", Arg(1), "other" >>, << "return", -1 >> >>)
  BY QuietFrames, QuietTwo DEF Counters, UriNames
<1>3. QuietSeq(<< << "connect", Arg(1) >> >>)
  BY QuietFrames, QuietOne DEF Counters, UriNames
<1>4. QuietSeq(<< << "bind", Arg(1), Arg(2) >> >>)
  BY QuietFrames, QuietOne DEF Counters, UriNames
<1>5. \E q : QuietSeq(q) /\ Run(q)
  BY <1>2, <1>3, <1>4 DEF bind, Fail
<1> QED
  BY <1>1, <1>5 DEF Quietly

LEMMA Quiet_connect == param \in Params /\ connect => Quietly("connect")
<1> SUFFICES ASSUME param \in Params, connect PROVE Quietly("connect")
  OBVIOUS
<1>1. Step("connect") /\ UNCHANGED << running, free, used >> /\ TimersMove
  BY DEF connect, objects, sockets, TimersMove
<1>2. QuietSeq(Signal("EV_CONN_CONNECTED", Arg(1)) \o << << "return", 0 >> >>)
  <2>1. QuietSeq(Signal("EV_CONN_CONNECTED", Arg(1)))
    BY QuietSignal DEF QuietEvents, Events
  <2>2. QuietSeq(<< << "return", 0 >> >>)
    BY QuietFrames, QuietOne DEF Counters, UriNames
  <2> QED
    BY <2>1, <2>2, QuietConcat
<1>3. QuietSeq(<< << "return", 0 >> >>)
  BY QuietFrames, QuietOne DEF Counters, UriNames
<1>4. QuietSeq(<< << "conn_failure", Arg(1), "refused" >>, << "return", -1 >> >>)
  BY QuietFrames, QuietTwo DEF Counters, UriNames
<1>5. \E q : QuietSeq(q) /\ Run(q)
  BY <1>2, <1>3, <1>4 DEF connect, Fail
<1> QED
  BY <1>1, <1>5 DEF Quietly

LEMMA Quiet_return == param \in Params /\ return => Quietly("return")
<1> SUFFICES ASSUME param \in Params, return PROVE Quietly("return")
  OBVIOUS
<1>1. Step("return") /\ UNCHANGED << running, free, used >> /\ TimersMove
  BY DEF return, objects, sockets, TimersMove
<1>2. QuietSeq(<< >>)
  BY QuietNone
<1>3. \E q : QuietSeq(q) /\ Run(q)
  BY <1>2 DEF return
<1> QED
  BY <1>1, <1>3 DEF Quietly

LEMMA Quiet_core_close == param \in Params /\ core_close => Quietly("core_close")
<1> SUFFICES ASSUME param \in Params, core_close PROVE Quietly("core_close")
  OBVIOUS
<1>1. Step("core_close") /\ UNCHANGED << running, free, used >> /\ TimersMove
  BY DEF core_close, objects, sockets, TimersMove
<1>2. QuietSeq(<< >>)
  BY QuietNone
<1>3. QuietSeq(<< << "drop_sendq", Arg(1), conn[Arg(1)].sendq >> >>)
  BY QuietFrames, QuietOne DEF Counters, UriNames
<1>4. \E q : QuietSeq(q) /\ Run(q)
  BY <1>2, <1>3 DEF core_close
<1> QED
  BY <1>1, <1>4 DEF Quietly

LEMMA Quiet_drop_sendq == param \in Params /\ drop_sendq => Quietly("drop_sendq")
<1> SUFFICES ASSUME param \in Params, drop_sendq PROVE Quietly("drop_sendq")
  OBVIOUS
<1>1. Step("drop_sendq") /\ UNCHANGED << running, free, used >> /\ TimersMove
  BY DEF drop_sendq, objects, sockets, TimersMove
<1>2. QuietSeq(<< << "call_dec_ref", Arg(2) >>, << "drop_sendq", Arg(1), call[Arg(2)].sendq_next >> >>)
  BY QuietFrames, QuietTwo DEF Counters, UriNames
<1>3. QuietSeq(<< << "drop_recvq", Arg(1), conn[Arg(1)].recvq >> >>)
  BY QuietFrames, QuietOne DEF Counters, UriNames
<1>4. \E q : QuietSeq(q) /\ Run(q)
  BY <1>2, <1>3 DEF drop_sendq
<1> QED
  BY <1>1, <1>4 DEF Quietly

LEMMA Quiet_drop_recvq == param \in Params /\ drop_recvq => Quietly("drop_recvq")
<1> SUFFICES ASSUME param \in Params, drop_recvq PROVE Quietly("drop_recvq")
  OBVIOUS
<1>1. Step("drop_recvq") /\ UNCHANGED << running, free, used >> /\ TimersMove
  BY DEF drop_recvq, objects, sockets, TimersMove
<1>2. QuietSeq(<< << "call_dec_ref", Arg(2) >>, << "drop_recvq", Arg(1), call[Arg(2)].recvq_next >> >>)
  BY QuietFrames, QuietTwo DEF Counters, UriNames
<1>3. QuietSeq(<< << "closed", Arg(1) >> >>)
  BY QuietFrames, QuietOne DEF Counters, UriNames
<1>4. \E q : QuietSeq(q) /\ Run(q)
  BY <1>2, <1>3 DEF drop_recvq
<1> QED
  BY <1>1, <1>4 DEF Quietly

LEMMA Quiet_closed == param \in Params /\ closed => Quietly("closed")
<1> SUFFICES ASSUME param \in Params, closed PROVE Quietly("closed")
  OBVIOUS
<1>1. Step("closed") /\ UNCHANGED << running, free, used >> /\ TimersMove
  BY DEF closed, objects, sockets, TimersMove
<1>2. QuietSeq(Signal("EV_CONN_CLOSE", Arg(1)) \o << << "conn_dec_ref", Arg(1) >> >>)
  <2>1. QuietSeq(Signal("EV_CONN_CLOSE", Arg(1)))
    BY QuietSignal DEF QuietEvents, Events
  <2>2. QuietSeq(<< << "conn_dec_ref", Arg(1) >> >>)
    BY QuietFrames, QuietOne DEF Counters, UriNames
  <2> QED
    BY <2>1, <2>2, QuietConcat
<1>3. \E q : QuietSeq(q) /\ Run(q)
  BY <1>2 DEF closed
<1> QED
  BY <1>1, <1>3 DEF Quietly

LEMMA Quiet_served == param \in Params /\ served => Quietly("serve")
<1> SUFFICES ASSUME param \in Params, served PROVE Quietly("serve")
  OBVIOUS
<1>1. Step("serve") /\ UNCHANGED << running, free, used >> /\ TimersMove
  BY DEF served, objects, sockets, TimersMove
<1>2. QuietSeq(<< >>)
  BY QuietNone
<1>3. \E q : QuietSeq(q) /\ Run(q)
  BY <1>2 DEF served
<1> QED
  BY <1>1, <1>3 DEF Quietly

LEMMA Quiet_send_recv == param \in Params /\ send_recv => Quietly("send_recv")
<1> SUFFICES ASSUME param \in Params, send_recv PROVE Quietly("send_recv")
  OBVIOUS
<1>1. Step("send_recv") /\ UNCHANGED << running, free, used >> /\ TimersMove
  BY DEF send_recv, objects, sockets, TimersMove
<1>2. QuietSeq(<< << "do_send", Arg(1) >> >> \o << << "recv_if", Arg(1), Arg(3) >> >>)
  <2>1. QuietSeq(<< << "do_send", Arg(1) >> >>)
    BY QuietFrames, QuietOne DEF Counters, UriNames
  <2>2. QuietSeq(<< << "recv_if", Arg(1), Arg(3) >> >>)
    BY QuietFrames, QuietOne DEF Counters, UriNames
  <2> QED
    BY <2>1, <2>2, QuietConcat
<1>3. QuietSeq(<< >> \o << << "recv_if", Arg(1), Arg(3) >> >>)
  <2>1. QuietSeq(<< >>)
    BY QuietNone
  <2>2. QuietSeq(<< << "recv_if", Arg(1), Arg(3) >> >>)
    BY QuietFrames, QuietOne DEF Counters, UriNames
  <2> QED
    BY <2>1, <2>2, QuietConcat
<1>4. \E q : QuietSeq(q) /\ Run(q)
  BY <1>2, <1>3 DEF send_recv
<1> QED
  BY <1>1, <1>4 DEF Quietly

LEMMA Quiet_recv_if == param \in Params /\ recv_if => Quietly("recv_if")
<1> SUFFICES ASSUME param \in Params, recv_if PROVE Quietly("recv_if")
  OBVIOUS
<1>1. Step("recv_if") /\ UNCHANGED << running, free, used >> /\ TimersMove
  BY DEF recv_if, objects, sockets, TimersMove
<1>2. QuietSeq(<< >>)
  BY QuietNone
<1>3. QuietSeq(<< << "do_recv", Arg(1) >> >>)
  BY QuietFrames, QuietOne DEF Counters, UriNames
<1>4. \E q : QuietSeq(q) /\ Run(q)
  BY <1>2, <1>3 DEF recv_if
<1> QED
  BY <1>1, <1>4 DEF Quietly

LEMMA ReplyEvents ==
    ASSUME NEW s, s.state \in ParserStates, NEW buf, NEW u
    PROVE  http_process_reply_bytes(s, buf, u).event
               \in {"none", "EV_CALL_RECV_START", "EV_CALL_RECV_HDR", "EV_CALL_RECV_DATA",
                    "EV_CALL_RECV_FOOTER"}
<1>1. parse_status_line(s, buf, u).event \in {"none", "EV_CALL_RECV_START"}
  BY DEF parse_status_line, Incomplete, Outcome
<1>2. parse_headers(s, buf).event \in {"none", "EV_CALL_RECV_HDR"}
  BY DEF parse_headers, Incomplete, Outcome
<1>3. parse_footers(s, buf).event \in {"none", "EV_CALL_RECV_FOOTER"}
  BY DEF parse_footers, Incomplete, Outcome
<1>4. Body(s, buf).event = "EV_CALL_RECV_DATA"
  BY DEF Body, Outcome
<1>5. parse_data(s, buf).event = "EV_CALL_RECV_DATA"
  <2>1. [Body(s, buf) EXCEPT !.s.state = "S_REPLY_DONE"].event = "EV_CALL_RECV_DATA"
    BY <1>4 DEF Body, Outcome
  <2> QED
    BY <1>4, <2>1 DEF parse_data
<1>6. xfer_chunked(s, buf).event \in {"none", "EV_CALL_RECV_DATA"}
  BY <1>4 DEF xfer_chunked, Incomplete, Outcome
<1>7. Outcome(s, buf, "none", << >>).event = "none"
  BY DEF Outcome
<1> QED
  BY <1>1, <1>2, <1>3, <1>5, <1>6, <1>7 DEF http_process_reply_bytes, ParserStates

LEMMA Quiet_reply == param \in Params /\ reply => Quietly("reply")
<1> SUFFICES ASSUME param \in Params, reply PROVE Quietly("reply")
  OBVIOUS
<1> DEFINE s == Arg(1)
           c == conn[s].recvq
<1>1. Step("reply") /\ UNCHANGED << running, free, used >> /\ TimersMove
  BY DEF reply, TimersMove
<1>2. \/ Run(<< >>)
      \/ \E undefined \in Undefined :
            LET o == http_process_reply_bytes(Parser(s, c), Arg(2), undefined)
                event == IF o.event = "none" THEN << >> ELSE event_signal(o.event, c, o.arg)
            IN  conn[s].state \in ParserStates /\ Run(event \o << << "more", s, o.rest >> >>)
  BY DEF reply
<1>3. QuietSeq(<< >>)
  BY QuietNone
<1>4. CASE Run(<< >>)
  BY <1>1, <1>3, <1>4 DEF Quietly
<1>5. ASSUME NEW undefined \in Undefined, conn[s].state \in ParserStates,
             LET o == http_process_reply_bytes(Parser(s, c), Arg(2), undefined)
                 event == IF o.event = "none" THEN << >> ELSE event_signal(o.event, c, o.arg)
             IN  Run(event \o << << "more", s, o.rest >> >>)
      PROVE  Quietly("reply")
  <2> DEFINE o == http_process_reply_bytes(Parser(s, c), Arg(2), undefined)
             event == IF o.event = "none" THEN << >> ELSE event_signal(o.event, c, o.arg)
  <2>1. Parser(s, c).state \in ParserStates
    BY <1>5 DEF Parser
  <2>2. o.event \in {"none", "EV_CALL_RECV_START", "EV_CALL_RECV_HDR", "EV_CALL_RECV_DATA",
                     "EV_CALL_RECV_FOOTER"}
    <3> HIDE DEF s, c
    <3> QED
      BY <2>1, ReplyEvents
  <2> HIDE DEF o, s, c
  <2>3. o.event = "none" \/ o.event \in QuietEvents
    BY <2>2 DEF QuietEvents, Events
  <2>4. QuietSeq(event)
    BY <1>3, <2>3, QuietSignal
  <2>5. QuietSeq(<< << "more", s, o.rest >> >>)
    BY QuietFrames, QuietOne DEF Counters, UriNames
  <2> HIDE DEF event
  <2>6. QuietSeq(event \o << << "more", s, o.rest >> >>)
    BY <2>4, <2>5, QuietConcat
  <2>7. Run(event \o << << "more", s, o.rest >> >>)
    BY <1>5 DEF event, o, s, c
  <2> QED
    BY <1>1, <2>6, <2>7 DEF Quietly
<1> QED
  BY <1>2, <1>4, <1>5

LEMMA Quiet_select == select => Quietly("select")
<1> SUFFICES ASSUME select PROVE Quietly("select")
  OBVIOUS
<1>1. Step("select") /\ UNCHANGED << running, free, used >> /\ TimersMove
  BY DEF select, objects, TimersMove
<1>2. PICK a, b, c, d : Run(<< << "serve", a, b, c, d >> >>)
  BY DEF select
<1>3. QuietSeq(<< << "serve", a, b, c, d >> >>)
  BY QuietFrames, QuietOne DEF Counters, UriNames
<1> QED
  BY <1>1, <1>2, <1>3 DEF Quietly

LEMMA Quiet_serve == param \in Params /\ serve => Quietly("serve")
<1> SUFFICES ASSUME param \in Params, serve PROVE Quietly("serve")
  OBVIOUS
<1> DEFINE s == sd_to_conn[Head(Arg(1))]
           n == Arg(4) - 1
           rest == << << "serve", Tail(Arg(1)), Arg(2), Arg(3), n >> >>
           held == << << "conn_dec_ref", s >>, << "between", n >> >>
           readable == Head(Arg(1)) \in Arg(2) \cap rdfds
           writable == Head(Arg(1)) \in Arg(3) \cap wrfds
           ready == << << "send_recv", s, writable, readable >> >>
           new == Signal("EV_CONN_CONNECTED", s)
           connecting == conn[s].state = "S_CONNECTING"
           first == IF connecting THEN IF writable THEN new ELSE << >> ELSE ready
<1>1. Step("serve") /\ UNCHANGED << running, free, used >> /\ TimersMove
  BY DEF serve, TimersMove
<1>2. Run(rest) \/ Run(first \o held \o rest)
  BY DEF serve
<1>3. QuietSeq(rest) /\ QuietSeq(held) /\ QuietSeq(<< >>)
  BY QuietFrames, QuietOne, QuietTwo, QuietNone DEF Counters, UriNames
<1>4. QuietSeq(new)
  BY QuietSignal DEF QuietEvents, Events
<1>5. QuietSeq(ready)
  <2>1. Quiet(<< "send_recv", s, writable, readable >>)
    BY DEF Quiet, Uncounted, IsCallOf, Counters, Foreign, UriNames
  <2> HIDE DEF s, writable, readable
  <2> QED
    BY <2>1, QuietOne
<1> HIDE DEF rest, held, ready, new, connecting, writable
<1>6. QuietSeq(first)
  BY <1>3, <1>4, <1>5
<1> HIDE DEF first
<1>7. QuietSeq(first \o held \o rest)
  BY <1>3, <1>6, QuietConcat
<1>8. \E q : QuietSeq(q) /\ Run(q)
  BY <1>2, <1>3, <1>7
<1> QED
  BY <1>1, <1>8 DEF Quietly

LEMMA Quiet_between == ASSUME NEW due, between(due) PROVE Quietly("between")
<1>1. Step("between") /\ UNCHANGED << running, free, used >> /\ TimersMove
  BY DEF between, objects, TimersMove
<1>2. Run(<< >>) \/ Run(<< << "timer_tick", due >> >>)
  BY DEF between, Tick
<1>3. QuietSeq(<< >>) /\ QuietSeq(<< << "timer_tick", due >> >>)
  BY QuietFrames, QuietOne, QuietNone DEF Counters, UriNames
<1> QED
  BY <1>1, <1>2, <1>3 DEF Quietly

\* The functions of the core that need no more than that, by name.
QuietCore ==
    \/ call_dec_ref \/ conn_failure \/ conn_timeout \/ set_active
    \/ core_send \/ enqueue \/ start_send \/ do_send \/ sent \/ expect \/ send_next
    \/ do_recv \/ reply \/ recv_done \/ next_reply \/ more
    \/ core_connect \/ bind \/ connect \/ return
    \/ core_close \/ drop_sendq \/ drop_recvq \/ closed
    \/ select \/ serve \/ served \/ send_recv \/ recv_if
    \/ \E due \in SUBSET Pending(timers) : between(due)

QuietCoreNames ==
    {"call_dec_ref", "conn_failure", "conn_timeout", "set_active", "core_send", "enqueue",
     "start_send", "do_send", "sent", "expect", "send_next", "do_recv", "reply", "recv_done",
     "next_reply", "more", "core_connect", "bind", "connect", "return", "core_close",
     "drop_sendq", "drop_recvq", "closed", "select", "serve", "send_recv", "recv_if", "between"}

LEMMA CoreQuietly ==
    ASSUME param \in Params, QuietCore
    PROVE  \E n \in QuietCoreNames : Quietly(n)
<1>1. CASE call_dec_ref \/ conn_failure \/ conn_timeout \/ set_active \/ core_send \/ enqueue
  BY <1>1, Quiet_call_dec_ref, Quiet_conn_failure, Quiet_conn_timeout, Quiet_set_active,
     Quiet_core_send, Quiet_enqueue DEF QuietCoreNames
<1>2. CASE start_send \/ do_send \/ sent \/ expect \/ send_next
  BY <1>2, Quiet_start_send, Quiet_do_send, Quiet_sent, Quiet_expect, Quiet_send_next
     DEF QuietCoreNames
<1>3. CASE do_recv \/ reply \/ recv_done \/ next_reply \/ more
  BY <1>3, Quiet_do_recv, Quiet_reply, Quiet_recv_done, Quiet_next_reply, Quiet_more
     DEF QuietCoreNames
<1>4. CASE core_connect \/ bind \/ connect \/ return
  BY <1>4, Quiet_core_connect, Quiet_bind, Quiet_connect, Quiet_return DEF QuietCoreNames
<1>5. CASE core_close \/ drop_sendq \/ drop_recvq \/ closed
  BY <1>5, Quiet_core_close, Quiet_drop_sendq, Quiet_drop_recvq, Quiet_closed
     DEF QuietCoreNames
<1>6. CASE select \/ serve \/ served \/ send_recv \/ recv_if
  BY <1>6, Quiet_select, Quiet_serve, Quiet_served, Quiet_send_recv, Quiet_recv_if
     DEF QuietCoreNames
<1>7. CASE \E due \in SUBSET Pending(timers) : between(due)
  BY <1>7, Quiet_between DEF QuietCoreNames
<1> QED
  BY <1>1, <1>2, <1>3, <1>4, <1>5, <1>6, <1>7 DEF QuietCore

-----------------------------------------------------------------------------
(***************************************************************************)
(* The timers call back functions that are quiet.                          *)
(***************************************************************************)
TimersOK ==
    /\ "callback" \in DOMAIN timers /\ DOMAIN timers.callback = Timer
    /\ \A t \in Timer : Quiet(timers.callback[t])

LEMMA TimersKept ==
    ASSUME TimersOK, TimersMove, UNCHANGED param
    PROVE  TimersOK'
<1>1. CASE UNCHANGED timers
  BY <1>1 DEF TimersOK, Quiet, Uncounted, Foreign
<1>2. CASE \E f \in {"conn_timeout", "tick"} : \E s, late :
              timers' = timer_schedule(timers, << f, s, 0 >>, late)
  <2>1. PICK f \in {"conn_timeout", "tick"} : \E s, late :
              timers' = timer_schedule(timers, << f, s, 0 >>, late)
    BY <1>2
  <2>2. PICK s, late : timers' = timer_schedule(timers, << f, s, 0 >>, late)
    BY <2>1
  <2> DEFINE u == NextTimer(timers)
             g == << f, s, 0 >>
  <2>3. "callback" \in DOMAIN timers' /\ timers'.callback = [timers.callback EXCEPT ![u] = g]
    BY <2>2 DEF timer_schedule
  <2>4. Quiet(g)
    BY QuietFrames DEF Counters, UriNames
  <2> HIDE DEF u, g
  <2>5. DOMAIN timers'.callback = Timer /\ \A t \in Timer : Quiet(timers'.callback[t])
    <3>1. DOMAIN timers'.callback = Timer
      BY <2>3 DEF TimersOK
    <3>2. \A t \in Timer : timers'.callback[t] = g \/ timers'.callback[t] = timers.callback[t]
      BY <2>3 DEF TimersOK
    <3> QED
      BY <2>4, <3>1, <3>2 DEF TimersOK
  <2> QED
    BY <2>3, <2>5 DEF TimersOK, Quiet, Uncounted, Foreign
<1>3. CASE \E t : timers' = timer_cancel(timers, t) \/ timers' = timer_has_expired(timers, t)
  <2>1. "callback" \in DOMAIN timers' /\ timers'.callback = timers.callback
    BY <1>3 DEF timer_cancel, timer_has_expired, TimersOK
  <2> QED
    BY <2>1 DEF TimersOK, Quiet, Uncounted, Foreign
<1>4. CASE timers' = timer_deactivate(timers)
  <2>1. "callback" \in DOMAIN timers' /\ timers'.callback = timers.callback
    BY <1>4 DEF timer_deactivate, TimersOK
  <2> QED
    BY <2>1 DEF TimersOK, Quiet, Uncounted, Foreign
<1> QED
  BY <1>1, <1>2, <1>3, <1>4 DEF TimersMove

LEMMA Quiet_timer_tick == TimersOK /\ timer_tick => Quietly("timer_tick")
<1> SUFFICES ASSUME TimersOK, timer_tick PROVE Quietly("timer_tick")
  OBVIOUS
<1>1. Step("timer_tick") /\ UNCHANGED << running, free, used >>
  BY DEF timer_tick, objects
<1>2. TimersMove
  BY DEF timer_tick, TimersMove
<1>3. \/ Run(<< >>)
      \/ \E t \in Timer : \/ Run(<< Tick(Arg(1) \ {t}) >>)
                          \/ Run(<< timers.callback[t], Tick(Arg(1) \ {t}) >>)
  BY DEF timer_tick
<1>4. QuietSeq(<< >>)
  BY QuietNone
<1>5. \A t : Quiet(Tick(Arg(1) \ {t}))
  BY QuietFrames DEF Counters, UriNames, Tick
<1>6. ASSUME NEW t \in Timer
      PROVE  /\ QuietSeq(<< Tick(Arg(1) \ {t}) >>)
             /\ QuietSeq(<< timers.callback[t], Tick(Arg(1) \ {t}) >>)
  BY <1>5, QuietOne, QuietTwo DEF TimersOK
<1>7. \E q : QuietSeq(q) /\ Run(q)
  BY <1>3, <1>4, <1>6
<1> QED
  BY <1>1, <1>2, <1>7 DEF Quietly

-----------------------------------------------------------------------------
(***************************************************************************)
(* The steps that count no connection, whichever module they are of.       *)
(***************************************************************************)
Counts ==
    << DOMAIN free, DOMAIN used, DOMAIN basic,
       free["conn"], used["conn"], basic.active, num_conns_generated, num_conns_destroyed >>

Shape == "conn" \in DOMAIN free /\ "conn" \in DOMAIN used /\ "active" \in DOMAIN basic

QuietMove ==
    /\ \/ todo # << >> /\ Uncounted(Head(todo)) /\ \E q : QuietSeq(q) /\ Run(q)
       \/ todo = << >> /\ QuietSeq(todo')
    /\ UNCHANGED Counts

QuietStep(n) == Step(n) /\ QuietMove /\ TimersMove /\ UNCHANGED running

LEMMA QuietCall ==
    ASSUME NEW n, n \notin Counters, Step(n)
    PROVE  todo # << >> /\ Uncounted(Head(todo))
BY DEF Step, Uncounted, IsCallOf, Counters

LEMMA QuietPush ==
    ASSUME NEW n, n \notin Counters, Step(n), NEW q, QuietSeq(q), Run(q), UNCHANGED Counts,
           TimersMove, UNCHANGED running
    PROVE  QuietStep(n)
BY QuietCall DEF QuietMove, QuietStep

LEMMA QuietCoreStep ==
    ASSUME NEW n, n \notin Counters, Quietly(n), UNCHANGED << basic, genVars >>
    PROVE  QuietStep(n)
<1>1. UNCHANGED Counts
  BY DEF Quietly, Counts, genVars
<1>2. PICK q : QuietSeq(q) /\ Run(q)
  BY DEF Quietly
<1> QED
  BY <1>1, <1>2, QuietPush DEF Quietly

LEMMA Step_conn_fail == ASSUME Shape, conn_fail PROVE QuietStep("conn_fail")
<1>1. Step("conn_fail") /\ Run(<< >>) /\ UNCHANGED running
  BY DEF conn_fail, allButPriv
<1>2. UNCHANGED Counts
  BY DEF conn_fail, Counts, Shape, objects, allButPriv, genVars
<1>3. TimersMove
  BY DEF conn_fail, TimersMove, allButPriv
<1> QED
  BY <1>1, <1>2, <1>3, QuietNone, QuietPush DEF Counters, UriNames

LEMMA Step_recv_start == ASSUME Shape, recv_start PROVE QuietStep("recv_start")
<1>1. Step("recv_start") /\ Run(<< >>) /\ UNCHANGED running
  BY DEF recv_start, note_recv_start
<1>2. UNCHANGED Counts
  BY DEF recv_start, note_recv_start, Counts, Shape, objects, genVars
<1>3. TimersMove
  BY DEF recv_start, note_recv_start, TimersMove
<1> QED
  BY <1>1, <1>2, <1>3, QuietNone, QuietPush DEF Counters, UriNames

LEMMA Step_recv_stop == ASSUME Shape, recv_stop PROVE QuietStep("recv_stop")
<1>1. Step("recv_stop") /\ Run(<< >>) /\ UNCHANGED running
  BY DEF recv_stop, note_recv_stop
<1>2. UNCHANGED Counts
  BY DEF recv_stop, note_recv_stop, Counts, Shape, objects, genVars
<1>3. TimersMove
  BY DEF recv_stop, note_recv_stop, TimersMove
<1> QED
  BY <1>1, <1>2, <1>3, QuietNone, QuietPush DEF Counters, UriNames

LEMMA Step_start_burst == ASSUME Shape, start_burst PROVE QuietStep("issue_calls")
<1>1. Step("issue_calls") /\ Run(<< >>) /\ UNCHANGED running
  BY DEF start_burst, allButPriv
<1>2. UNCHANGED Counts
  BY DEF start_burst, Counts, Shape, objects, allButPriv, genVars
<1>3. TimersMove
  BY DEF start_burst, TimersMove, allButPriv
<1> QED
  BY <1>1, <1>2, <1>3, QuietNone, QuietPush DEF Counters, UriNames

LEMMA Step_call_done == ASSUME Shape, call_done PROVE QuietStep("call_done")
<1>1. Step("call_done") /\ Run(<< >>) /\ UNCHANGED running
  BY DEF call_done, allButPriv
<1>2. UNCHANGED Counts
  BY DEF call_done, Counts, Shape, objects, allButPriv, genVars
<1>3. TimersMove
  BY DEF call_done, TimersMove, allButPriv
<1> QED
  BY <1>1, <1>2, <1>3, QuietNone, QuietPush DEF Counters, UriNames

LEMMA Step_made == ASSUME Shape, made PROVE QuietStep("made")
<1>1. Step("made") /\ Run(<< >>) /\ UNCHANGED running
  BY DEF made, allButPriv
<1>2. UNCHANGED Counts
  BY DEF made, Counts, Shape, objects, allButPriv, genVars
<1>3. TimersMove
  BY DEF made, TimersMove, allButPriv
<1> QED
  BY <1>1, <1>2, <1>3, QuietNone, QuietPush DEF Counters, UriNames

LEMMA Step_rate_generator_start == ASSUME Shape, rate_generator_start PROVE QuietStep("start")
<1>1. Step("start") /\ Run(<< >>) /\ UNCHANGED running
  BY DEF rate_generator_start, allButPriv
<1>2. UNCHANGED Counts
  BY DEF rate_generator_start, Counts, Shape, objects, allButPriv, genVars
<1>3. TimersMove
  BY DEF rate_generator_start, TimersMove, allButPriv
<1> QED
  BY <1>1, <1>2, <1>3, QuietNone, QuietPush DEF Counters, UriNames

LEMMA Step_set_uri_fixed == ASSUME Shape, set_uri_fixed, UNCHANGED << basic, genVars >> PROVE QuietStep("set_uri_fixed")
<1>1. Step("set_uri_fixed") /\ Run(<< >>) /\ UNCHANGED running
  BY DEF set_uri_fixed, allButPriv
<1>2. UNCHANGED Counts
  BY DEF set_uri_fixed, Counts, Shape, objects, allButPriv, genVars
<1>3. TimersMove
  BY DEF set_uri_fixed, TimersMove, allButPriv
<1> QED
  BY <1>1, <1>2, <1>3, QuietNone, QuietPush DEF Counters, UriNames

LEMMA Step_set_uri_wlist == ASSUME Shape, set_uri_wlist, UNCHANGED << basic, genVars >> PROVE QuietStep("set_uri_wlist")
<1>1. Step("set_uri_wlist") /\ Run(<< >>) /\ UNCHANGED running
  BY DEF set_uri_wlist, allButPriv
<1>2. UNCHANGED Counts
  BY DEF set_uri_wlist, Counts, Shape, objects, allButPriv, genVars
<1>3. TimersMove
  BY DEF set_uri_wlist, TimersMove, allButPriv
<1> QED
  BY <1>1, <1>2, <1>3, QuietNone, QuietPush DEF Counters, UriNames

LEMMA Step_set_uri_wset == ASSUME Shape, set_uri_wset, UNCHANGED << basic, genVars >> PROVE QuietStep("set_uri_wset")
<1>1. Step("set_uri_wset") /\ Run(<< >>) /\ UNCHANGED running
  BY DEF set_uri_wset, allButPriv
<1>2. UNCHANGED Counts
  BY DEF set_uri_wset, Counts, Shape, objects, allButPriv, genVars
<1>3. TimersMove
  BY DEF set_uri_wset, TimersMove, allButPriv
<1> QED
  BY <1>1, <1>2, <1>3, QuietNone, QuietPush DEF Counters, UriNames

LEMMA Step_Count ==
    ASSUME NEW n, n \notin Counters, NEW c, c # "active", Shape, Count(n, c)
    PROVE  QuietStep(n)
<1>1. Step(n) /\ Run(<< >>) /\ UNCHANGED running
  BY DEF Count
<1>2. UNCHANGED Counts
  BY DEF Count, Counts, Shape, objects, genVars
<1>3. TimersMove
  BY DEF Count, TimersMove
<1> QED
  BY <1>1, <1>2, <1>3, QuietNone, QuietPush

LEMMA QuietIssue == \A s : QuietSeq(issue_calls(s))
BY QuietFrames, QuietTwo DEF Counters, UriNames, issue_calls

LEMMA Step_issue_call ==
    ASSUME param \in Params, Shape, issue_call
    PROVE  QuietStep("issue_call")
<1> DEFINE s == Arg(1)
           left == Arg(2)
           c == object_new("call")
           new == Signal("EV_CALL_NEW", c)
           made_call == << << "core_send", s, c >>, << "call_dec_ref", c >> >>
           again == << << "issue_call", s, left - 1 >> >>
<1>1. Step("issue_call") /\ UNCHANGED running
  BY DEF issue_call
<1>2. UNCHANGED Counts
  BY DEF issue_call, Counts, Shape, genVars, Take
<1>3. TimersMove
  BY DEF issue_call, TimersMove
<1>4. QuietSeq(new)
  BY QuietSignal DEF QuietEvents, Events
<1>5. QuietSeq(made_call) /\ QuietSeq(again) /\ QuietSeq(<< >>)
  BY QuietFrames, QuietOne, QuietTwo, QuietNone DEF Counters, UriNames
<1>6. \/ Run(<< >> \o << >>) \/ Run(<< >> \o again)
      \/ Run((new \o made_call) \o << >>) \/ Run((new \o made_call) \o again)
  BY DEF issue_call
<1> HIDE DEF new, made_call, again
<1>7. QuietSeq(new \o made_call)
  BY <1>4, <1>5, QuietConcat
<1>8. /\ QuietSeq(<< >> \o << >>) /\ QuietSeq(<< >> \o again)
      /\ QuietSeq((new \o made_call) \o << >>) /\ QuietSeq((new \o made_call) \o again)
  BY <1>5, <1>7, QuietConcat
<1>9. \E q : QuietSeq(q) /\ Run(q)
  BY <1>6, <1>8
<1> QED
  BY <1>1, <1>2, <1>3, <1>9, QuietPush DEF Counters, UriNames

LEMMA Step_conn_connected == ASSUME Shape, conn_connected PROVE QuietStep("conn_connected")
<1>1. Step("conn_connected") /\ Run(issue_calls(Arg(1))) /\ UNCHANGED running
  BY DEF conn_connected, allButPriv
<1>2. UNCHANGED Counts
  BY DEF conn_connected, Counts, allButPriv, genVars
<1>3. TimersMove
  BY DEF conn_connected, TimersMove, allButPriv
<1> QED
  BY <1>1, <1>2, <1>3, QuietIssue, QuietPush DEF Counters, UriNames

LEMMA Step_call_destroyed == ASSUME Shape, call_destroyed PROVE QuietStep("call_destroyed")
<1> DEFINE s == call[Arg(1)].conn
           close == << << "core_close", s >> >>
<1>1. Step("call_destroyed") /\ UNCHANGED running
  BY DEF call_destroyed, allButPriv
<1>2. Run(<< >>) \/ Run(issue_calls(s)) \/ Run(close)
  BY DEF call_destroyed
<1>3. UNCHANGED Counts
  BY DEF call_destroyed, Counts, allButPriv, genVars
<1>4. TimersMove
  BY DEF call_destroyed, TimersMove, allButPriv
<1>5. QuietSeq(<< >>) /\ QuietSeq(issue_calls(s)) /\ QuietSeq(close)
  BY QuietNone, QuietIssue, QuietFrames, QuietOne DEF Counters, UriNames
<1> HIDE DEF s, close
<1>6. \E q : QuietSeq(q) /\ Run(q)
  BY <1>2, <1>5
<1> QED
  BY <1>1, <1>3, <1>4, <1>6, QuietPush DEF Counters, UriNames

LEMMA Step_done_handler == ASSUME Shape, done_handler PROVE QuietStep("done")
<1> DEFINE q == << << "make_conn" >> >>
<1>1. Step("done") /\ (Run(<< >>) \/ Run(q)) /\ UNCHANGED running
  BY DEF done_handler
<1>2. UNCHANGED Counts
  BY DEF done_handler, Counts, objects, genVars
<1>3. TimersMove
  BY DEF done_handler, TimersMove
<1>4. QuietSeq(<< >>) /\ QuietSeq(q)
  BY QuietNone, QuietFrames, QuietOne DEF Counters, UriNames
<1> HIDE DEF q
<1> QED
  BY <1>1, <1>2, <1>3, <1>4, QuietPush DEF Counters, UriNames

LEMMA Step_tick == ASSUME Shape, tick PROVE QuietStep("tick")
<1> DEFINE q == << << "make_conn" >>, << "tick_again" >> >>
<1>1. Step("tick") /\ (Run(<< >>) \/ Run(q)) /\ UNCHANGED running
  BY DEF tick
<1>2. UNCHANGED Counts
  BY DEF tick, Counts, objects, genVars
<1>3. TimersMove
  BY DEF tick, TimersMove
<1>4. QuietSeq(<< >>) /\ QuietSeq(q)
  BY QuietNone, QuietFrames, QuietTwo DEF Counters, UriNames
<1> HIDE DEF q
<1> QED
  BY <1>1, <1>2, <1>3, <1>4, QuietPush DEF Counters, UriNames

LEMMA Step_tick_again == ASSUME Shape, tick_again PROVE QuietStep("tick_again")
<1> DEFINE q == << << "make_conn" >>, << "tick_again" >> >>
<1>1. Step("tick_again") /\ (Run(<< >>) \/ Run(q)) /\ UNCHANGED running
  BY DEF tick_again
<1>2. UNCHANGED Counts
  BY DEF tick_again, Counts, objects, genVars
<1>3. TimersMove
  BY DEF tick_again, TimersMove
<1>4. QuietSeq(<< >>) /\ QuietSeq(q)
  BY QuietNone, QuietFrames, QuietTwo DEF Counters, UriNames
<1> HIDE DEF q
<1> QED
  BY <1>1, <1>2, <1>3, <1>4, QuietPush DEF Counters, UriNames

LEMMA Step_set_uri_wlog == ASSUME Shape, set_uri_wlog, UNCHANGED << basic, genVars >> PROVE QuietStep("set_uri_wlog")
<1> DEFINE q == << << "core_exit" >> >>
<1>1. Step("set_uri_wlog") /\ (Run(<< >>) \/ Run(q)) /\ UNCHANGED running
  BY DEF set_uri_wlog
<1>2. UNCHANGED Counts
  BY DEF set_uri_wlog, Counts, objects, genVars
<1>3. TimersMove
  BY DEF set_uri_wlog, TimersMove
<1>4. QuietSeq(<< >>) /\ QuietSeq(q)
  BY QuietNone, QuietFrames, QuietOne DEF Counters, UriNames
<1> HIDE DEF q
<1> QED
  BY <1>1, <1>2, <1>3, <1>4, QuietPush DEF Counters, UriNames

\* The end of object_destroy for a call, and the end of the test.
LEMMA Step_free_call ==
    ASSUME Shape, object_destroy, Arg(1) # "conn", UNCHANGED << basic, genVars >>
    PROVE  QuietMove /\ TimersMove /\ UNCHANGED running
<1>1. todo # << >> /\ Head(todo)[1] = "free" /\ Head(todo)[2] # "conn"
  BY DEF object_destroy, Step, Arg
<1>2. Uncounted(Head(todo))
  BY <1>1 DEF Uncounted, IsCallOf, Counters
<1>3. UNCHANGED Counts /\ TimersMove /\ UNCHANGED running
  BY DEF object_destroy, Counts, Shape, genVars, TimersMove
<1>4. Run(<< >>)
  BY DEF object_destroy
<1> QED
  BY <1>1, <1>2, <1>3, <1>4, QuietNone DEF QuietMove

LEMMA Step_core_exit ==
    ASSUME core_exit, UNCHANGED << basic, genVars >>
    PROVE  QuietMove /\ TimersMove
<1>1. Step("core_exit") /\ Run(<< >>) /\ TimersMove /\ UNCHANGED Counts
  BY DEF core_exit, TimersMove, Counts, objects, genVars
<1> QED
  BY <1>1, QuietCall, QuietNone DEF QuietMove, Counters

\* Between two turns the loop starts the next one, and the server acts.
LEMMA Step_core_loop ==
    ASSUME NEW due, core_loop(due), UNCHANGED << basic, genVars >>
    PROVE  todo = << >> /\ QuietMove /\ TimersMove /\ UNCHANGED running
<1>1. todo' = << Tick(due), << "select" >> >> /\ todo = << >> /\ UNCHANGED running
  BY DEF core_loop
<1>2. QuietSeq(<< Tick(due), << "select" >> >>)
  BY QuietFrames, QuietTwo DEF Counters, UriNames, Tick
<1>3. UNCHANGED Counts /\ TimersMove
  BY DEF core_loop, objects, Counts, genVars, TimersMove
<1> QED
  BY <1>1, <1>2, <1>3 DEF QuietMove

LEMMA Step_Network ==
    ASSUME Network, UNCHANGED << basic, genVars >>
    PROVE  todo = << >> /\ QuietMove /\ TimersMove /\ UNCHANGED running
<1>1. \E sd, state : Peer(sd, state)
  BY DEF Network, Accept, Answer, Disconnect
<1>2. todo = << >> /\ todo' = << >> /\ UNCHANGED << running, timers, objects >>
  BY <1>1 DEF Peer
<1> QED
  BY <1>2, QuietNone DEF QuietMove, TimersMove, Counts, objects, genVars

-----------------------------------------------------------------------------
(***************************************************************************)
(* Every step is one of these, or one of six that count a connection.      *)
(***************************************************************************)
Loud ==
    /\ \/ conn_created \/ conn_destroyed \/ make_conn \/ destroyed
       \/ conn_dec_ref /\ UNCHANGED << basic, genVars >>
       \/ object_destroy /\ Arg(1) = "conn" /\ UNCHANGED << basic, genVars >>
    /\ UNCHANGED << running, uriVars >>

NotExit == todo = << >> \/ Head(todo)[1] # "core_exit"

StepKind ==
    \/ QuietMove /\ UNCHANGED << running, uriVars >> /\ NotExit
    \/ QuietMove /\ UNCHANGED running /\ NotExit /\ SetUri
    \/ QuietMove /\ UNCHANGED uriVars /\ core_exit
    \/ Loud /\ NotExit

LEMMA StepIsKind ==
    ASSUME NEW n, n # "core_exit", QuietStep(n), UNCHANGED uriVars
    PROVE  TimersMove /\ StepKind
BY DEF QuietStep, StepKind, NotExit, Step

LEMMA CoreKind ==
    ASSUME param \in Params, TimersOK, Shape, Core
    PROVE  UNCHANGED param /\ TimersMove /\ StepKind
<1>1. UNCHANGED << param, uriVars, basic, genVars >>
  BY DEF Core
<1>2. CASE QuietCore
  <2>1. PICK n \in QuietCoreNames : Quietly(n)
    BY <1>2, CoreQuietly
  <2>2. n \notin Counters /\ n # "core_exit"
    BY DEF QuietCoreNames, Counters
  <2>3. QuietStep(n)
    BY <1>1, <2>1, <2>2, QuietCoreStep
  <2> QED
    BY <1>1, <2>2, <2>3, StepIsKind
<1>3. CASE timer_tick
  <2>1. "timer_tick" \notin Counters
    BY DEF Counters, UriNames
  <2>2. QuietStep("timer_tick")
    BY <1>1, <1>3, <2>1, Quiet_timer_tick, QuietCoreStep
  <2> QED
    BY <1>1, <2>2, StepIsKind
<1>4. CASE conn_dec_ref
  <2>1. UNCHANGED << running, timers >> /\ NotExit
    BY <1>4 DEF conn_dec_ref, NotExit, Step
  <2> QED
    BY <1>1, <1>4, <2>1 DEF Loud, StepKind, TimersMove
<1>5. CASE object_destroy
  <2>1. UNCHANGED << running, timers >> /\ NotExit
    BY <1>5 DEF object_destroy, NotExit, Step
  <2>2. CASE Arg(1) = "conn"
    BY <1>1, <1>5, <2>1, <2>2 DEF Loud, StepKind, TimersMove
  <2>3. CASE Arg(1) # "conn"
    BY <1>1, <1>5, <2>1, <2>3, Step_free_call DEF StepKind
  <2> QED
    BY <2>2, <2>3
<1>6. CASE core_exit
  BY <1>1, <1>6, Step_core_exit DEF StepKind
<1>7. CASE \E due \in SUBSET Pending(timers) : core_loop(due)
  BY <1>1, <1>7, Step_core_loop DEF StepKind, NotExit
<1>8. \/ QuietCore \/ timer_tick \/ conn_dec_ref \/ object_destroy \/ core_exit
      \/ \E due \in SUBSET Pending(timers) : core_loop(due)
  BY DEF Core, CoreFunction, QuietCore
<1> QED
  BY <1>1, <1>2, <1>3, <1>4, <1>5, <1>6, <1>7, <1>8

LEMMA StatisticsKind ==
    ASSUME Shape, Statistics, UNCHANGED uriVars
    PROVE  TimersMove /\ StepKind
<1>1. CASE conn_created \/ conn_destroyed
  <2>1. UNCHANGED << running, timers >> /\ NotExit
    BY <1>1 DEF conn_created, conn_destroyed, NotExit, Step
  <2> QED
    BY <1>1, <2>1 DEF Loud, StepKind, TimersMove
<1>2. CASE conn_fail
  BY <1>2, Step_conn_fail, StepIsKind
<1>3. ASSUME NEW n \in {"count_issued", "count_connect", "count_timeout", "send_stop"},
             NEW c \in {"num_conns_issued", "num_connects", "num_client_timeouts", "num_sent"},
             Count(n, c)
      PROVE  TimersMove /\ StepKind
  <2>1. n \notin Counters /\ n # "core_exit" /\ c # "active"
    BY DEF Counters, UriNames
  <2>2. QuietStep(n)
    BY <1>3, <2>1, Step_Count
  <2> QED
    BY <2>1, <2>2, StepIsKind
<1>4. CASE recv_start
  BY <1>4, Step_recv_start, StepIsKind
<1>5. CASE recv_stop
  BY <1>5, Step_recv_stop, StepIsKind
<1> QED
  BY <1>1, <1>2, <1>3, <1>4, <1>5 DEF Statistics

LEMMA CallsKind ==
    ASSUME param \in Params, Shape, Calls, UNCHANGED uriVars
    PROVE  TimersMove /\ StepKind
BY Step_start_burst, Step_issue_call, Step_conn_connected, Step_call_done,
   Step_call_destroyed, StepIsKind DEF Calls

LEMMA ConnsKind ==
    ASSUME Shape, Conns, UNCHANGED uriVars
    PROVE  TimersMove /\ StepKind
<1>1. CASE make_conn \/ destroyed
  <2>1. UNCHANGED << running, timers >> /\ NotExit
    BY <1>1 DEF make_conn, destroyed, NotExit, Step
  <2> QED
    BY <1>1, <2>1 DEF Loud, StepKind, TimersMove
<1>2. CASE made \/ done_handler \/ tick \/ tick_again \/ rate_generator_start
  BY <1>2, Step_made, Step_done_handler, Step_tick, Step_tick_again,
     Step_rate_generator_start, StepIsKind
<1> QED
  BY <1>1, <1>2 DEF Conns

LEMMA SetUriKind ==
    ASSUME Shape, SetUri, UNCHANGED << basic, genVars >>
    PROVE  TimersMove /\ StepKind
<1>1. \E n \in {"set_uri_fixed", "set_uri_wlist", "set_uri_wlog", "set_uri_wset"} : QuietStep(n)
  BY Step_set_uri_fixed, Step_set_uri_wlist, Step_set_uri_wlog, Step_set_uri_wset DEF SetUri
<1> QED
  BY <1>1 DEF QuietStep, StepKind, NotExit, Step

LEMMA NextKind ==
    ASSUME param \in Params, TimersOK, Shape, Next
    PROVE  UNCHANGED param /\ TimersMove /\ StepKind
<1>1. CASE Core
  BY <1>1, CoreKind
<1>2. CASE Generator
  <2>1. UNCHANGED param
    BY <1>2 DEF Generator
  <2>2. CASE Statistics /\ UNCHANGED uriVars
    BY <2>1, <2>2, StatisticsKind
  <2>3. CASE SetUri /\ UNCHANGED << priv, genVars, basic >>
    BY <2>1, <2>3, SetUriKind
  <2>4. CASE (Calls \/ Conns) /\ UNCHANGED uriVars
    BY <2>1, <2>4, CallsKind, ConnsKind
  <2> QED
    BY <1>2, <2>2, <2>3, <2>4 DEF Generator
<1>3. CASE Server
  <2>1. Network /\ UNCHANGED << param, uriVars, genVars, basic >>
    BY <1>3 DEF Server
  <2> QED
    BY <2>1, Step_Network DEF StepKind, NotExit
<1> QED
  BY <1>1, <1>2, <1>3 DEF Next

-----------------------------------------------------------------------------
(***************************************************************************)
(* The calls that wait, after a step.                                      *)
(***************************************************************************)
LEMMA RunWaiting ==
    ASSUME IsStack(todo), todo # << >>, NEW q, IsStack(q), Run(q)
    PROVE  /\ IsStack(todo')
           /\ \A l : /\ Waiting(todo, l) \in Nat /\ Waiting(todo', l) \in Nat
                     /\ Waiting(q, l) \in Nat
                     /\ Waiting(todo', l) =
                          Waiting(todo, l) + Waiting(q, l)
                            - (IF IsCallOf(Head(todo), l) THEN 1 ELSE 0)
<1> DEFINE t == Tail(todo)
<1>1. /\ IsStack(t)
      /\ \A l : /\ Waiting(todo, l) \in Nat /\ Waiting(t, l) \in Nat
                /\ Waiting(todo, l) = Waiting(t, l) + (IF IsCallOf(Head(todo), l) THEN 1 ELSE 0)
  BY StackParts
<1>2. todo' = q \o t
  BY DEF Run
<1> HIDE DEF t
<1>3. /\ IsStack(q \o t)
      /\ \A l : /\ Waiting(q, l) \in Nat /\ Waiting(t, l) \in Nat
                /\ Waiting(q \o t, l) = Waiting(q, l) + Waiting(t, l)
  BY <1>1, StackConcat
<1>4. IsStack(todo')
  BY <1>2, <1>3
<1>5. ASSUME NEW l
      PROVE  /\ Waiting(todo, l) \in Nat /\ Waiting(todo', l) \in Nat /\ Waiting(q, l) \in Nat
             /\ Waiting(todo', l) = Waiting(todo, l) + Waiting(q, l)
                                      - (IF IsCallOf(Head(todo), l) THEN 1 ELSE 0)
  <2> DEFINE a == Waiting(todo, l)
             b == Waiting(t, l)
             c == Waiting(q, l)
             d == Waiting(q \o t, l)
  <2>1. a \in Nat /\ b \in Nat /\ c \in Nat /\ d = c + b
        /\ a = b + (IF IsCallOf(Head(todo), l) THEN 1 ELSE 0)
    BY <1>1, <1>3
  <2>2. Waiting(todo', l) = d
    BY <1>2
  <2> HIDE DEF a, b, c, d
  <2>3. d = a + c - (IF IsCallOf(Head(todo), l) THEN 1 ELSE 0) /\ d \in Nat
    BY <2>1
  <2> QED
    BY <2>1, <2>2, <2>3 DEF a, c
<1> QED
  BY <1>4, <1>5

LEMMA QuietWaiting ==
    ASSUME IsStack(todo), QuietMove
    PROVE  /\ IsStack(todo')
           /\ \A l \in Counters : Waiting(todo', l) = Waiting(todo, l)
<1>1. CASE todo # << >> /\ Uncounted(Head(todo)) /\ \E q : QuietSeq(q) /\ Run(q)
  <2>1. PICK q : QuietSeq(q) /\ Run(q)
    BY <1>1
  <2>2. IsStack(q)
    BY <2>1, QuietIsStack
  <2>3. \A l \in Counters : Waiting(q, l) = 0 /\ ~ IsCallOf(Head(todo), l)
    BY <1>1, <2>1, WaitingQuiet DEF Uncounted
  <2>4. IsStack(todo')
    BY <1>1, <2>1, <2>2, RunWaiting
  <2>5. ASSUME NEW l \in Counters PROVE Waiting(todo', l) = Waiting(todo, l)
    <3>1. /\ Waiting(todo, l) \in Nat /\ Waiting(todo', l) \in Nat
          /\ Waiting(todo', l) = Waiting(todo, l) + Waiting(q, l)
                                   - (IF IsCallOf(Head(todo), l) THEN 1 ELSE 0)
      BY <1>1, <2>1, <2>2, RunWaiting
    <3>2. Waiting(q, l) = 0 /\ ~ IsCallOf(Head(todo), l)
      BY <2>3
    <3> QED
      BY <3>1, <3>2
  <2> QED
    BY <2>4, <2>5
<1>2. CASE todo = << >> /\ QuietSeq(todo')
  <2>1. IsStack(todo')
    BY <1>2, QuietIsStack
  <2>2. \A l \in Counters : Waiting(todo', l) = 0 /\ Waiting(todo, l) = 0
    BY <1>2, WaitingQuiet, QuietNone
  <2> QED
    BY <2>1, <2>2
<1> QED
  BY <1>1, <1>2 DEF QuietMove

\* What one, and a few calls in a row, add.
LEMMA OneIsStack == \A f : IsStack(<< f >>)
<1> SUFFICES ASSUME NEW f PROVE IsStack(<< f >>)
  OBVIOUS
<1> DEFINE S == {f}
<1>1. << f >> \in Seq(S)
  OBVIOUS
<1> HIDE DEF S
<1> QED
  BY <1>1 DEF IsStack

LEMMA WaitingPush ==
    ASSUME NEW f, NEW q, IsStack(q), NEW l
    PROVE  /\ IsStack(<< f >> \o q) /\ Waiting(q, l) \in Nat
           /\ Waiting(<< f >> \o q, l) = (IF IsCallOf(f, l) THEN 1 ELSE 0) + Waiting(q, l)
<1>1. IsStack(<< f >>)
  BY OneIsStack
<1> QED
  BY <1>1, StackConcat, WaitingOne

LEMMA NoneWaiting == IsStack(<< >>) /\ \A l : Waiting(<< >>, l) = 0
<1> DEFINE S == {}
<1>1. << >> \in Seq(S)
  OBVIOUS
<1>2. \A l : Places(<< >>, l) = {}
  BY DEF Places
<1> HIDE DEF S
<1> QED
  BY <1>1, <1>2, FS_EmptySet DEF IsStack, Waiting

\* The handlers of a connection's making and of its end.
LEMMA MadeSignal ==
    ASSUME param \in Params, NEW s
    PROVE  Signal("EV_CONN_NEW", s) = << << "conn_created", s, 0 >> >>
<1>1. Handlers(param, "EV_CONN_NEW") = << "conn_created" >>
  BY HandlersAssumption DEF Events, SeqHandlers
<1> QED
  BY <1>1 DEF Signal, event_signal

LEMMA DestroyedSignal ==
    ASSUME param \in Params, NEW s
    PROVE  /\ IsStack(Signal("EV_CONN_DESTROYED", s))
           /\ \A l \in Counters : Waiting(Signal("EV_CONN_DESTROYED", s), l) =
                                    IF l \in {"conn_destroyed", "destroyed"} THEN 1 ELSE 0
<1> DEFINE H == << "conn_destroyed", "destroyed", "done" >>
           q == [i \in DOMAIN H |-> << H[i], s, 0 >>]
           S == {<< n, s, 0 >> : n \in {"conn_destroyed", "destroyed", "done"}}
<1>1. Handlers(param, "EV_CONN_DESTROYED") = H
  BY HandlersAssumption DEF Events, SeqHandlers
<1>2. Signal("EV_CONN_DESTROYED", s) = q
  BY <1>1 DEF Signal, event_signal
<1>3. DOMAIN H = 1 .. 3 /\ H[1] = "conn_destroyed" /\ H[2] = "destroyed" /\ H[3] = "done"
      /\ \A i \in 1 .. 3 : i = 1 \/ i = 2 \/ i = 3
  OBVIOUS
<1> HIDE DEF H
<1>4. q \in Seq(S)
  BY <1>3
<1>5. /\ DOMAIN q = 1 .. 3
      /\ q[1] = << "conn_destroyed", s, 0 >> /\ q[2] = << "destroyed", s, 0 >>
      /\ q[3] = << "done", s, 0 >>
  BY <1>3
<1> HIDE DEF q, S
<1>6. Places(q, "conn_destroyed") = {1} /\ Places(q, "destroyed") = {2}
  BY <1>3, <1>5 DEF Places, IsCallOf
<1>7. Places(q, "conn_created") = {} /\ Places(q, "free") = {}
  BY <1>3, <1>5 DEF Places, IsCallOf
<1>8. Cardinality({1}) = 1 /\ Cardinality({2}) = 1 /\ Cardinality({}) = 0
  BY FS_EmptySet, FS_Singleton
<1>9. \A l \in Counters : Waiting(q, l) = IF l \in {"conn_destroyed", "destroyed"} THEN 1 ELSE 0
  BY <1>6, <1>7, <1>8 DEF Counters, UriNames, Waiting
<1> QED
  BY <1>2, <1>4, <1>9 DEF IsStack

-----------------------------------------------------------------------------
(***************************************************************************)
(* The connections that are counted.  While a call waits that will count a *)
(* connection, or free it, the count lags behind.                          *)
(***************************************************************************)
StackOK == param \in Params /\ IsStack(todo) /\ TimersOK /\ Shape

BooksType ==
    /\ IsStack(free["conn"]) /\ used["conn"] \in Nat /\ basic.active \in Int
    /\ num_conns_generated \in Nat /\ num_conns_destroyed \in Nat

\* The connections that were counted when they were made and not yet when they
\* were destroyed.
Lag == Waiting(todo, "conn_destroyed") - Waiting(todo, "conn_created")

BooksAgree ==
    /\ basic.active = used["conn"] - Len(free["conn"]) + Lag - Waiting(todo, "free")
    /\ basic.active + num_conns_destroyed =
          MIN(num_conns_generated, param.num_conns) + Lag - Waiting(todo, "destroyed")

BooksOK == StackOK /\ BooksType /\ BooksAgree

\* What waits when one of the counting calls was run, and what it called is quiet.
LEMMA RunCounter ==
    ASSUME IsStack(todo), NEW n \in Counters, Step(n), n = "free" => Arg(1) = "conn",
           NEW q, QuietSeq(q), Run(q)
    PROVE  /\ IsStack(todo')
           /\ \A l \in Counters :
                /\ Waiting(todo, l) \in Nat
                /\ Waiting(todo', l) = Waiting(todo, l) - (IF l = n THEN 1 ELSE 0)
<1>1. todo # << >> /\ \A l \in Counters : IsCallOf(Head(todo), l) <=> l = n
  BY DEF Step, Arg, IsCallOf, Counters
<1>2. IsStack(q) /\ \A l \in Counters : Waiting(q, l) = 0
  BY QuietIsStack, WaitingQuiet
<1>3. IsStack(todo')
  BY <1>1, <1>2, RunWaiting
<1>4. ASSUME NEW l \in Counters
      PROVE  /\ Waiting(todo, l) \in Nat
             /\ Waiting(todo', l) = Waiting(todo, l) - (IF l = n THEN 1 ELSE 0)
  <2>1. /\ Waiting(todo, l) \in Nat
        /\ Waiting(todo', l) = Waiting(todo, l) + Waiting(q, l)
                                 - (IF IsCallOf(Head(todo), l) THEN 1 ELSE 0)
    BY <1>1, <1>2, RunWaiting
  <2> QED
    BY <1>1, <1>2, <2>1
<1> QED
  BY <1>3, <1>4

LEMMA Books_conn_created ==
    ASSUME BooksOK, conn_created, UNCHANGED param
    PROVE  IsStack(todo') /\ Shape' /\ BooksType' /\ BooksAgree'
<1>1. Step("conn_created") /\ Run(<< >>)
  BY DEF conn_created
<1>2. /\ IsStack(todo')
      /\ Waiting(todo, "conn_created") \in Nat /\ Waiting(todo, "conn_destroyed") \in Nat
      /\ Waiting(todo, "free") \in Nat /\ Waiting(todo, "destroyed") \in Nat
      /\ Waiting(todo', "conn_created") = Waiting(todo, "conn_created") - 1
      /\ Waiting(todo', "conn_destroyed") = Waiting(todo, "conn_destroyed")
      /\ Waiting(todo', "free") = Waiting(todo, "free")
      /\ Waiting(todo', "destroyed") = Waiting(todo, "destroyed")
  BY <1>1, QuietNone, RunCounter DEF BooksOK, StackOK, Counters
<1>3. /\ DOMAIN basic' = DOMAIN basic /\ basic'.active = basic.active + 1
      /\ UNCHANGED << free, used, num_conns_generated, num_conns_destroyed >>
  BY DEF conn_created, BooksOK, StackOK, Shape, objects, genVars
<1>4. Shape' /\ BooksType'
  BY <1>3 DEF BooksOK, StackOK, Shape, BooksType, IsStack
<1>5. Len(free["conn"]) \in Nat /\ MIN(num_conns_generated, param.num_conns) \in Nat
  BY SeqAssumption DEF BooksOK, BooksType, IsStack, MIN, StackOK
<1> DEFINE a == basic.active
           u == used["conn"]
           f == Len(free["conn"])
           d == num_conns_destroyed
           m == MIN(num_conns_generated, param.num_conns)
           W(l) == Waiting(todo, l)
           X(l) == Waiting(todo', l)
<1>6. /\ a \in Int /\ u \in Nat /\ d \in Nat
      /\ a = u - f + (W("conn_destroyed") - W("conn_created")) - W("free")
      /\ a + d = m + (W("conn_destroyed") - W("conn_created")) - W("destroyed")
  BY DEF BooksOK, BooksType, BooksAgree, Lag
<1>7. BooksAgree' <=>
        /\ basic'.active = u - f + (X("conn_destroyed") - X("conn_created")) - X("free")
        /\ basic'.active + d = m + (X("conn_destroyed") - X("conn_created")) - X("destroyed")
  BY <1>3 DEF BooksAgree, Lag
<1>8. /\ f \in Nat /\ m \in Nat /\ basic'.active = a + 1
      /\ W("conn_created") \in Nat /\ W("conn_destroyed") \in Nat
      /\ W("free") \in Nat /\ W("destroyed") \in Nat
      /\ X("conn_created") = W("conn_created") - 1
      /\ X("conn_destroyed") = W("conn_destroyed")
      /\ X("free") = W("free") /\ X("destroyed") = W("destroyed")
  BY <1>2, <1>3, <1>5
<1> HIDE DEF a, u, f, d, m, W, X
<1>9. BooksAgree'
  BY <1>6, <1>7, <1>8
<1> QED
  BY <1>2, <1>4, <1>9

LEMMA Books_conn_destroyed ==
    ASSUME BooksOK, conn_destroyed, UNCHANGED param
    PROVE  IsStack(todo') /\ Shape' /\ BooksType' /\ BooksAgree'
<1>1. Step("conn_destroyed") /\ Run(<< >>)
  BY DEF conn_destroyed
<1>2. /\ IsStack(todo')
      /\ Waiting(todo, "conn_created") \in Nat /\ Waiting(todo, "conn_destroyed") \in Nat
      /\ Waiting(todo, "free") \in Nat /\ Waiting(todo, "destroyed") \in Nat
      /\ Waiting(todo', "conn_created") = Waiting(todo, "conn_created")
      /\ Waiting(todo', "conn_destroyed") = Waiting(todo, "conn_destroyed") - 1
      /\ Waiting(todo', "free") = Waiting(todo, "free")
      /\ Waiting(todo', "destroyed") = Waiting(todo, "destroyed")
  BY <1>1, QuietNone, RunCounter DEF BooksOK, StackOK, Counters
<1>3. /\ DOMAIN basic' = DOMAIN basic /\ basic'.active = basic.active - 1
      /\ UNCHANGED << free, used, num_conns_generated, num_conns_destroyed >>
  BY DEF conn_destroyed, BooksOK, StackOK, Shape, objects, genVars
<1>4. Shape' /\ BooksType'
  BY <1>3 DEF BooksOK, StackOK, Shape, BooksType, IsStack
<1>5. Len(free["conn"]) \in Nat /\ MIN(num_conns_generated, param.num_conns) \in Nat
  BY SeqAssumption DEF BooksOK, BooksType, IsStack, MIN, StackOK
<1> DEFINE a == basic.active
           u == used["conn"]
           f == Len(free["conn"])
           d == num_conns_destroyed
           m == MIN(num_conns_generated, param.num_conns)
           W(l) == Waiting(todo, l)
           X(l) == Waiting(todo', l)
<1>6. /\ a \in Int /\ u \in Nat /\ d \in Nat
      /\ a = u - f + (W("conn_destroyed") - W("conn_created")) - W("free")
      /\ a + d = m + (W("conn_destroyed") - W("conn_created")) - W("destroyed")
  BY DEF BooksOK, BooksType, BooksAgree, Lag
<1>7. BooksAgree' <=>
        /\ basic'.active = u - f + (X("conn_destroyed") - X("conn_created")) - X("free")
        /\ basic'.active + d = m + (X("conn_destroyed") - X("conn_created")) - X("destroyed")
  BY <1>3 DEF BooksAgree, Lag
<1>8. /\ f \in Nat /\ m \in Nat /\ basic'.active = a - 1
      /\ W("conn_created") \in Nat /\ W("conn_destroyed") \in Nat
      /\ W("free") \in Nat /\ W("destroyed") \in Nat
      /\ X("conn_created") = W("conn_created")
      /\ X("conn_destroyed") = W("conn_destroyed") - 1
      /\ X("free") = W("free") /\ X("destroyed") = W("destroyed")
  BY <1>2, <1>3, <1>5
<1> HIDE DEF a, u, f, d, m, W, X
<1>9. BooksAgree'
  BY <1>6, <1>7, <1>8
<1> QED
  BY <1>2, <1>4, <1>9

LEMMA Books_destroyed ==
    ASSUME BooksOK, destroyed, UNCHANGED param
    PROVE  IsStack(todo') /\ Shape' /\ BooksType' /\ BooksAgree'
<1>1. Step("destroyed") /\ (Run(<< >>) \/ Run(<< << "core_exit" >> >>))
  BY DEF destroyed
<1>2. QuietSeq(<< >>) /\ QuietSeq(<< << "core_exit" >> >>)
  BY QuietNone, QuietFrames, QuietOne DEF Counters, UriNames
<1>3. PICK q : QuietSeq(q) /\ Run(q)
  BY <1>1, <1>2
<1>4. /\ IsStack(todo')
      /\ Waiting(todo, "conn_created") \in Nat /\ Waiting(todo, "conn_destroyed") \in Nat
      /\ Waiting(todo, "free") \in Nat /\ Waiting(todo, "destroyed") \in Nat
      /\ Waiting(todo', "conn_created") = Waiting(todo, "conn_created")
      /\ Waiting(todo', "conn_destroyed") = Waiting(todo, "conn_destroyed")
      /\ Waiting(todo', "free") = Waiting(todo, "free")
      /\ Waiting(todo', "destroyed") = Waiting(todo, "destroyed") - 1
  BY <1>1, <1>3, RunCounter DEF BooksOK, StackOK, Counters
<1>5. /\ num_conns_destroyed' = num_conns_destroyed + 1
      /\ UNCHANGED << basic, free, used, num_conns_generated >>
  BY DEF destroyed, objects
<1>6. Shape' /\ BooksType'
  BY <1>5 DEF BooksOK, StackOK, Shape, BooksType, IsStack
<1>7. Len(free["conn"]) \in Nat /\ MIN(num_conns_generated, param.num_conns) \in Nat
  BY SeqAssumption DEF BooksOK, BooksType, IsStack, MIN, StackOK
<1> DEFINE a == basic.active
           u == used["conn"]
           f == Len(free["conn"])
           d == num_conns_destroyed
           m == MIN(num_conns_generated, param.num_conns)
           W(l) == Waiting(todo, l)
           X(l) == Waiting(todo', l)
<1>8. /\ a \in Int /\ u \in Nat /\ d \in Nat
      /\ a = u - f + (W("conn_destroyed") - W("conn_created")) - W("free")
      /\ a + d = m + (W("conn_destroyed") - W("conn_created")) - W("destroyed")
  BY DEF BooksOK, BooksType, BooksAgree, Lag
<1>9. /\ f \in Nat /\ m \in Nat
      /\ W("conn_created") \in Nat /\ W("conn_destroyed") \in Nat
      /\ W("free") \in Nat /\ W("destroyed") \in Nat
      /\ X("conn_created") = W("conn_created")
      /\ X("conn_destroyed") = W("conn_destroyed")
      /\ X("free") = W("free") /\ X("destroyed") = W("destroyed") - 1
  BY <1>4, <1>7
<1>10. BooksAgree' <=>
        /\ a = u - f + (X("conn_destroyed") - X("conn_created")) - X("free")
        /\ a + (d + 1) = m + (X("conn_destroyed") - X("conn_created")) - X("destroyed")
  BY <1>5 DEF BooksAgree, Lag
<1> HIDE DEF a, u, f, d, m, W, X
<1>11. BooksAgree'
  BY <1>8, <1>9, <1>10
<1> QED
  BY <1>4, <1>6, <1>11

LEMMA Books_free ==
    ASSUME BooksOK, object_destroy, Arg(1) = "conn", UNCHANGED << param, basic, genVars >>
    PROVE  IsStack(todo') /\ Shape' /\ BooksType' /\ BooksAgree'
<1>1. Step("free") /\ Run(<< >>)
  BY DEF object_destroy
<1>2. /\ IsStack(todo')
      /\ Waiting(todo, "conn_created") \in Nat /\ Waiting(todo, "conn_destroyed") \in Nat
      /\ Waiting(todo, "free") \in Nat /\ Waiting(todo, "destroyed") \in Nat
      /\ Waiting(todo', "conn_created") = Waiting(todo, "conn_created")
      /\ Waiting(todo', "conn_destroyed") = Waiting(todo, "conn_destroyed")
      /\ Waiting(todo', "free") = Waiting(todo, "free") - 1
      /\ Waiting(todo', "destroyed") = Waiting(todo, "destroyed")
  BY <1>1, QuietNone, RunCounter DEF BooksOK, StackOK, Counters
<1>3. /\ DOMAIN free' = DOMAIN free /\ free'["conn"] = << Arg(2) >> \o free["conn"]
      /\ UNCHANGED << used, basic, num_conns_generated, num_conns_destroyed >>
  BY DEF object_destroy, BooksOK, StackOK, Shape, genVars
<1>4. /\ IsStack(free["conn"]) /\ Len(free["conn"]) \in Nat
      /\ IsStack(free'["conn"]) /\ Len(free'["conn"]) = Len(free["conn"]) + 1
  <2>1. PICK S : free["conn"] \in Seq(S)
    BY DEF BooksOK, BooksType, IsStack
  <2> DEFINE U == S \cup {Arg(2)}
  <2>2. free["conn"] \in Seq(U) /\ << Arg(2) >> \in Seq(U) /\ Len(<< Arg(2) >>) = 1
    BY <2>1
  <2> HIDE DEF U
  <2>3. free'["conn"] \in Seq(U) /\ Len(free'["conn"]) = 1 + Len(free["conn"])
    BY <1>3, <2>2
  <2> QED
    BY <2>2, <2>3 DEF IsStack
<1>5. Shape' /\ BooksType'
  BY <1>3, <1>4 DEF BooksOK, StackOK, Shape, BooksType
<1>6. MIN(num_conns_generated, param.num_conns) \in Nat
  BY SeqAssumption DEF BooksOK, BooksType, MIN, StackOK
<1> DEFINE a == basic.active
           u == used["conn"]
           f == Len(free["conn"])
           d == num_conns_destroyed
           m == MIN(num_conns_generated, param.num_conns)
           W(l) == Waiting(todo, l)
           X(l) == Waiting(todo', l)
<1>7. /\ a \in Int /\ u \in Nat /\ d \in Nat
      /\ a = u - f + (W("conn_destroyed") - W("conn_created")) - W("free")
      /\ a + d = m + (W("conn_destroyed") - W("conn_created")) - W("destroyed")
  BY DEF BooksOK, BooksType, BooksAgree, Lag
<1>8. /\ f \in Nat /\ m \in Nat
      /\ W("conn_created") \in Nat /\ W("conn_destroyed") \in Nat
      /\ W("free") \in Nat /\ W("destroyed") \in Nat
      /\ X("conn_created") = W("conn_created")
      /\ X("conn_destroyed") = W("conn_destroyed")
      /\ X("free") = W("free") - 1 /\ X("destroyed") = W("destroyed")
  BY <1>2, <1>4, <1>6
<1>9. BooksAgree' <=>
        /\ a = u - (f + 1) + (X("conn_destroyed") - X("conn_created")) - X("free")
        /\ a + d = m + (X("conn_destroyed") - X("conn_created")) - X("destroyed")
  BY <1>3, <1>4 DEF BooksAgree, Lag
<1> HIDE DEF a, u, f, d, m, W, X
<1>10. BooksAgree'
  BY <1>7, <1>8, <1>9
<1> QED
  BY <1>2, <1>5, <1>10

\* The stack after a call that counts nothing itself.
LEMMA RunOther ==
    ASSUME IsStack(todo), NEW n, n \notin Counters, Step(n), NEW q, IsStack(q), Run(q)
    PROVE  /\ IsStack(todo')
           /\ \A l \in Counters :
                /\ Waiting(todo, l) \in Nat
                /\ Waiting(todo', l) = Waiting(todo, l) + Waiting(q, l)
<1>1. todo # << >> /\ \A l \in Counters : ~ IsCallOf(Head(todo), l)
  BY QuietCall DEF Uncounted
<1>2. IsStack(todo')
  BY <1>1, RunWaiting
<1>3. ASSUME NEW l \in Counters
      PROVE  /\ Waiting(todo, l) \in Nat
             /\ Waiting(todo', l) = Waiting(todo, l) + Waiting(q, l)
  <2>1. /\ Waiting(todo, l) \in Nat /\ Waiting(q, l) \in Nat
        /\ Waiting(todo', l) = Waiting(todo, l) + Waiting(q, l)
                                 - (IF IsCallOf(Head(todo), l) THEN 1 ELSE 0)
    BY <1>1, RunWaiting
  <2> QED
    BY <1>1, <2>1
<1> QED
  BY <1>2, <1>3

LEMMA Books_quiet ==
    ASSUME BooksOK, QuietMove, UNCHANGED param
    PROVE  IsStack(todo') /\ Shape' /\ BooksType' /\ BooksAgree'
<1>1. /\ IsStack(todo')
      /\ Waiting(todo', "conn_created") = Waiting(todo, "conn_created")
      /\ Waiting(todo', "conn_destroyed") = Waiting(todo, "conn_destroyed")
      /\ Waiting(todo', "free") = Waiting(todo, "free")
      /\ Waiting(todo', "destroyed") = Waiting(todo, "destroyed")
  BY QuietWaiting DEF BooksOK, StackOK, Counters
<1>2. UNCHANGED Counts
  BY DEF QuietMove
<1>3. Shape' /\ BooksType'
  BY <1>2 DEF BooksOK, StackOK, Shape, BooksType, IsStack, Counts
<1>4. BooksAgree'
  BY <1>1, <1>2 DEF BooksOK, BooksAgree, Lag, Counts
<1> QED
  BY <1>1, <1>3, <1>4

LEMMA Books_conn_dec_ref ==
    ASSUME BooksOK, conn_dec_ref, UNCHANGED << param, basic, genVars >>
    PROVE  IsStack(todo') /\ Shape' /\ BooksType' /\ BooksAgree'
<1> DEFINE s == Arg(1)
           sig == Signal("EV_CONN_DESTROYED", s)
           back == << << "free", "conn", s >> >>
           q == sig \o back
<1>1. Step("conn_dec_ref") /\ "conn_dec_ref" \notin Counters
  BY DEF conn_dec_ref, Counters
<1>2. UNCHANGED << free, used, basic, num_conns_generated, num_conns_destroyed >>
  BY DEF conn_dec_ref, genVars
<1>3. CASE Run(<< >>)
  <2>1. QuietMove
    BY <1>1, <1>2, <1>3, QuietCall, QuietNone DEF QuietMove, Counts
  <2> QED
    BY <2>1, Books_quiet
<1>4. CASE Run(q)
  <2>1. /\ IsStack(sig)
        /\ \A l \in Counters : Waiting(sig, l) =
              IF l \in {"conn_destroyed", "destroyed"} THEN 1 ELSE 0
    BY DestroyedSignal DEF BooksOK, StackOK
  <2>2. /\ IsStack(back)
        /\ \A l \in Counters : Waiting(back, l) = IF l = "free" THEN 1 ELSE 0
    <3>1. \A l \in Counters : IsCallOf(<< "free", "conn", s >>, l) <=> l = "free"
      BY DEF IsCallOf, Counters
    <3> QED
      BY <3>1, OneIsStack, WaitingOne
  <2> HIDE DEF sig, back
  <2>3. IsStack(q) /\ \A l \in Counters : Waiting(q, l) = Waiting(sig, l) + Waiting(back, l)
    BY <2>1, <2>2, StackConcat
  <2>4. \A l \in Counters : Waiting(q, l) = IF l = "conn_created" THEN 0 ELSE 1
    BY <2>1, <2>2, <2>3 DEF Counters, UriNames
  <2> HIDE DEF q
  <2>5. /\ IsStack(todo')
        /\ Waiting(todo, "conn_created") \in Nat /\ Waiting(todo, "conn_destroyed") \in Nat
        /\ Waiting(todo, "free") \in Nat /\ Waiting(todo, "destroyed") \in Nat
        /\ Waiting(todo', "conn_created") = Waiting(todo, "conn_created")
        /\ Waiting(todo', "conn_destroyed") = Waiting(todo, "conn_destroyed") + 1
        /\ Waiting(todo', "free") = Waiting(todo, "free") + 1
        /\ Waiting(todo', "destroyed") = Waiting(todo, "destroyed") + 1
    <3>1. /\ IsStack(todo')
          /\ \A l \in Counters : /\ Waiting(todo, l) \in Nat
                                 /\ Waiting(todo', l) = Waiting(todo, l) + Waiting(q, l)
      BY <1>1, <1>4, <2>3, RunOther DEF BooksOK, StackOK
    <3>2. /\ Waiting(q, "conn_created") = 0 /\ Waiting(q, "conn_destroyed") = 1
          /\ Waiting(q, "free") = 1 /\ Waiting(q, "destroyed") = 1
      BY <2>4 DEF Counters, UriNames
    <3> QED
      BY <3>1, <3>2 DEF Counters, UriNames
  <2>6. Shape' /\ BooksType'
    BY <1>2 DEF BooksOK, StackOK, Shape, BooksType, IsStack
  <2>7. Len(free["conn"]) \in Nat /\ MIN(num_conns_generated, param.num_conns) \in Nat
    BY SeqAssumption DEF BooksOK, BooksType, IsStack, MIN, StackOK
  <2> DEFINE a == basic.active
             u == used["conn"]
             f == Len(free["conn"])
             d == num_conns_destroyed
             m == MIN(num_conns_generated, param.num_conns)
             W(l) == Waiting(todo, l)
             X(l) == Waiting(todo', l)
  <2>8. /\ a \in Int /\ u \in Nat /\ d \in Nat
        /\ a = u - f + (W("conn_destroyed") - W("conn_created")) - W("free")
        /\ a + d = m + (W("conn_destroyed") - W("conn_created")) - W("destroyed")
    BY DEF BooksOK, BooksType, BooksAgree, Lag
  <2>9. /\ f \in Nat /\ m \in Nat
        /\ W("conn_created") \in Nat /\ W("conn_destroyed") \in Nat
        /\ W("free") \in Nat /\ W("destroyed") \in Nat
        /\ X("conn_created") = W("conn_created")
        /\ X("conn_destroyed") = W("conn_destroyed") + 1
        /\ X("free") = W("free") + 1 /\ X("destroyed") = W("destroyed") + 1
    BY <2>5, <2>7
  <2>10. BooksAgree' <=>
          /\ a = u - f + (X("conn_destroyed") - X("conn_created")) - X("free")
          /\ a + d = m + (X("conn_destroyed") - X("conn_created")) - X("destroyed")
    BY <1>2 DEF BooksAgree, Lag
  <2> HIDE DEF a, u, f, d, m, W, X
  <2>11. BooksAgree'
    BY <2>8, <2>9, <2>10
  <2> QED
    BY <2>5, <2>6, <2>11
<1> QED
  BY <1>3, <1>4 DEF conn_dec_ref

LEMMA Books_make_conn ==
    ASSUME BooksOK, make_conn, UNCHANGED param
    PROVE  IsStack(todo') /\ Shape' /\ BooksType' /\ BooksAgree'
<1> DEFINE s == object_new("conn")
           sig == Signal("EV_CONN_NEW", s)
           rest == << << "core_connect", s >>, << "made" >> >>
           q == sig \o rest
<1>1. Step("make_conn") /\ "make_conn" \notin Counters
  BY DEF make_conn, Counters
<1>2. /\ num_conns_generated' = num_conns_generated + 1
      /\ UNCHANGED << basic, num_conns_destroyed >>
  BY DEF make_conn
<1>3. param.num_conns \in Nat /\ num_conns_generated \in Nat /\ Len(free["conn"]) \in Nat
  BY SeqAssumption DEF BooksOK, BooksType, IsStack, StackOK
<1>4. CASE num_conns_generated >= param.num_conns
  <2>1. Run(<< >>) /\ UNCHANGED << free, used >>
    BY <1>4 DEF make_conn
  <2>2. /\ IsStack(todo')
        /\ Waiting(todo', "conn_created") = Waiting(todo, "conn_created")
        /\ Waiting(todo', "conn_destroyed") = Waiting(todo, "conn_destroyed")
        /\ Waiting(todo', "free") = Waiting(todo, "free")
        /\ Waiting(todo', "destroyed") = Waiting(todo, "destroyed")
    <3>1. IsStack(<< >>) /\ \A l : Waiting(<< >>, l) = 0
      BY NoneWaiting
    <3>2. /\ IsStack(todo')
          /\ \A l \in Counters : /\ Waiting(todo, l) \in Nat
                                 /\ Waiting(todo', l) = Waiting(todo, l) + Waiting(<< >>, l)
      BY <1>1, <2>1, <3>1, RunOther DEF BooksOK, StackOK
    <3> QED
      BY <3>1, <3>2 DEF Counters, UriNames
  <2>3. Shape' /\ BooksType'
    BY <1>2, <1>3, <2>1 DEF BooksOK, StackOK, Shape, BooksType, IsStack
  <2>4. MIN(num_conns_generated', param.num_conns) = MIN(num_conns_generated, param.num_conns)
    BY <1>2, <1>3, <1>4 DEF MIN
  <2>5. BooksAgree'
    BY <1>2, <2>1, <2>2, <2>4 DEF BooksOK, BooksAgree, Lag
  <2> QED
    BY <2>2, <2>3, <2>5
<1>5. CASE ~ num_conns_generated >= param.num_conns
  <2>1. Run(q) /\ Take("conn")
    BY <1>5 DEF make_conn
  <2>2. sig = << << "conn_created", s, 0 >> >>
    BY MadeSignal DEF BooksOK, StackOK
  <2>3. /\ IsStack(sig)
        /\ \A l \in Counters : Waiting(sig, l) = IF l = "conn_created" THEN 1 ELSE 0
    <3>1. \A l \in Counters : IsCallOf(<< "conn_created", s, 0 >>, l) <=> l = "conn_created"
      BY DEF IsCallOf, Counters
    <3> QED
      BY <2>2, <3>1, OneIsStack, WaitingOne
  <2>4. QuietSeq(rest)
    BY QuietFrames, QuietTwo DEF Counters, UriNames
  <2>5. IsStack(rest) /\ \A l \in Counters : Waiting(rest, l) = 0
    BY <2>4, QuietIsStack, WaitingQuiet
  <2> HIDE DEF sig, rest
  <2>6. IsStack(q) /\ \A l \in Counters : Waiting(q, l) = Waiting(sig, l) + Waiting(rest, l)
    BY <2>3, <2>5, StackConcat
  <2>7. \A l \in Counters : Waiting(q, l) = IF l = "conn_created" THEN 1 ELSE 0
    BY <2>3, <2>5, <2>6
  <2> HIDE DEF q
  <2>8. /\ IsStack(todo')
        /\ Waiting(todo, "conn_created") \in Nat /\ Waiting(todo, "conn_destroyed") \in Nat
        /\ Waiting(todo, "free") \in Nat /\ Waiting(todo, "destroyed") \in Nat
        /\ Waiting(todo', "conn_created") = Waiting(todo, "conn_created") + 1
        /\ Waiting(todo', "conn_destroyed") = Waiting(todo, "conn_destroyed")
        /\ Waiting(todo', "free") = Waiting(todo, "free")
        /\ Waiting(todo', "destroyed") = Waiting(todo, "destroyed")
    <3>1. /\ IsStack(todo')
          /\ \A l \in Counters : /\ Waiting(todo, l) \in Nat
                                 /\ Waiting(todo', l) = Waiting(todo, l) + Waiting(q, l)
      BY <1>1, <2>1, <2>6, RunOther DEF BooksOK, StackOK
    <3>2. /\ Waiting(q, "conn_created") = 1 /\ Waiting(q, "conn_destroyed") = 0
          /\ Waiting(q, "free") = 0 /\ Waiting(q, "destroyed") = 0
      BY <2>7 DEF Counters, UriNames
    <3> QED
      BY <3>1, <3>2 DEF Counters, UriNames
  <2>9. /\ DOMAIN free' = DOMAIN free /\ DOMAIN used' = DOMAIN used
        /\ free'["conn"] = IF free["conn"] = << >> THEN << >> ELSE Tail(free["conn"])
        /\ used'["conn"] = IF free["conn"] = << >> THEN used["conn"] + 1 ELSE used["conn"]
    <3>1. free["conn"] = << >> => Len(free["conn"]) = 0
      OBVIOUS
    <3> QED
      BY <2>1 DEF Take, BooksOK, StackOK, Shape
  <2>10. /\ IsStack(free'["conn"]) /\ used["conn"] \in Nat /\ used'["conn"] \in Nat
         /\ used'["conn"] - Len(free'["conn"]) = used["conn"] - Len(free["conn"]) + 1
    <3>1. PICK S : free["conn"] \in Seq(S)
      BY DEF BooksOK, BooksType, IsStack
    <3>2. CASE free["conn"] = << >>
      <4>1. Len(free["conn"]) = 0 /\ Len(free'["conn"]) = 0
        BY <2>9, <3>2
      <4> QED
        BY <2>9, <3>2, <4>1, NoneWaiting DEF BooksOK, BooksType
    <3>3. CASE free["conn"] # << >>
      <4>1. Tail(free["conn"]) \in Seq(S) /\ Len(Tail(free["conn"])) = Len(free["conn"]) - 1
        BY <3>1, <3>3
      <4> QED
        BY <1>3, <2>9, <3>3, <4>1 DEF BooksOK, BooksType, IsStack
    <3> QED
      BY <3>2, <3>3
  <2>11. Shape' /\ BooksType'
    BY <1>2, <1>3, <2>9, <2>10 DEF BooksOK, StackOK, Shape, BooksType
  <2>12. /\ MIN(num_conns_generated, param.num_conns) \in Nat
         /\ MIN(num_conns_generated', param.num_conns) =
              MIN(num_conns_generated, param.num_conns) + 1
    BY <1>2, <1>3, <1>5 DEF MIN
  <2> DEFINE a == basic.active
             u == used["conn"]
             f == Len(free["conn"])
             d == num_conns_destroyed
             m == MIN(num_conns_generated, param.num_conns)
             W(l) == Waiting(todo, l)
             X(l) == Waiting(todo', l)
  <2>13. /\ a \in Int /\ u \in Nat /\ d \in Nat
         /\ a = u - f + (W("conn_destroyed") - W("conn_created")) - W("free")
         /\ a + d = m + (W("conn_destroyed") - W("conn_created")) - W("destroyed")
    BY DEF BooksOK, BooksType, BooksAgree, Lag
  <2>14. /\ f \in Nat /\ m \in Nat
         /\ W("conn_created") \in Nat /\ W("conn_destroyed") \in Nat
         /\ W("free") \in Nat /\ W("destroyed") \in Nat
         /\ X("conn_created") = W("conn_created") + 1
         /\ X("conn_destroyed") = W("conn_destroyed")
         /\ X("free") = W("free") /\ X("destroyed") = W("destroyed")
    BY <1>3, <2>8, <2>12
  <2>15. BooksAgree' <=>
           /\ a = (u - f + 1) + (X("conn_destroyed") - X("conn_created")) - X("free")
           /\ a + d = (m + 1) + (X("conn_destroyed") - X("conn_created")) - X("destroyed")
    BY <1>2, <2>10, <2>12 DEF BooksAgree, Lag
  <2> HIDE DEF a, u, f, d, m, W, X
  <2>16. BooksAgree'
    BY <2>13, <2>14, <2>15
  <2> QED
    BY <2>8, <2>11, <2>16
<1> QED
  BY <1>4, <1>5

LEMMA BooksInit == Init => BooksOK
<1> SUFFICES ASSUME Init PROVE BooksOK
  OBVIOUS
<1>1. param \in Params /\ param.num_conns \in Nat
  BY SeqAssumption DEF Init, CoreInit
<1>2. todo = << << "start" >>, << "make_conn" >> >>
  BY DEF Init
<1>3. QuietSeq(todo)
  BY <1>2, QuietFrames, QuietTwo DEF Counters, UriNames
<1>4. IsStack(todo) /\ \A l \in Counters : Waiting(todo, l) = 0
  BY <1>3, QuietIsStack, WaitingQuiet
<1>5. TimersOK
  BY QuietFrames DEF Init, CoreInit, timer_init, TimersOK, Counters, UriNames
<1>6. /\ Shape /\ free["conn"] = << >> /\ used["conn"] = 0 /\ basic.active = 0
      /\ num_conns_generated = 0 /\ num_conns_destroyed = 0
  BY DEF Init, Shape
<1>7. Len(free["conn"]) = 0 /\ MIN(num_conns_generated, param.num_conns) = 0
  BY <1>1, <1>6 DEF MIN
<1>8. BooksType
  BY <1>6, NoneWaiting DEF BooksType
<1>9. BooksAgree
  BY <1>4, <1>6, <1>7 DEF BooksAgree, Lag, Counters
<1> QED
  BY <1>1, <1>4, <1>5, <1>6, <1>8, <1>9 DEF BooksOK, StackOK

LEMMA BooksNext == BooksOK /\ [Next]_vars => BooksOK'
<1> SUFFICES ASSUME BooksOK, [Next]_vars PROVE BooksOK'
  OBVIOUS
<1>1. CASE UNCHANGED vars
  <2>1. UNCHANGED << param, todo, timers, free, used, basic, num_conns_generated,
                     num_conns_destroyed >>
    BY <1>1 DEF vars, coreVars, objects, genVars
  <2>2. TimersOK'
    BY <2>1, TimersKept DEF TimersMove, BooksOK, StackOK
  <2>3. /\ (param \in Params)' /\ IsStack(todo') /\ Shape' /\ BooksType' /\ BooksAgree'
    BY <2>1 DEF BooksOK, StackOK, Shape, BooksType, BooksAgree, Lag, IsStack
  <2> QED
    BY <2>2, <2>3 DEF BooksOK, StackOK
<1>2. CASE Next
  <2>1. UNCHANGED param /\ TimersMove /\ StepKind
    BY <1>2, NextKind DEF BooksOK, StackOK
  <2>2. TimersOK'
    BY <2>1, TimersKept DEF BooksOK, StackOK
  <2>3. IsStack(todo') /\ Shape' /\ BooksType' /\ BooksAgree'
    <3>1. CASE QuietMove
      BY <2>1, <3>1, Books_quiet
    <3>2. CASE Loud
      BY <2>1, <3>2, Books_conn_created, Books_conn_destroyed, Books_make_conn,
         Books_destroyed, Books_conn_dec_ref, Books_free DEF Loud
    <3> QED
      BY <2>1, <3>1, <3>2 DEF StepKind
  <2> QED
    BY <2>1, <2>2, <2>3 DEF BooksOK, StackOK, IsStack
<1> QED
  BY <1>1, <1>2

\* The books are kept, whatever is called from where.
THEOREM BooksKept == Spec => []BooksOK
<1>1. Init => BooksOK
  BY BooksInit
<1>2. BooksOK /\ [Next]_vars => BooksOK'
  BY BooksNext
<1> QED
  BY <1>1, <1>2, PTL DEF Spec

\* Between two turns of the loop, the connections that are alive by the count
\* are those that are allocated and not free, and with those destroyed they are
\* all that were made: however the events of one connection are nested in those
\* of another, none is counted twice and none is forgotten.
THEOREM ConnectionsCounted == Spec => []ConnsCounted
<1>1. BooksOK => ConnsCounted
  <2> SUFFICES ASSUME BooksOK, todo = << >> PROVE ConnsCounted
    BY DEF ConnsCounted, Idle
  <2>1. \A l : Waiting(todo, l) = 0
    BY NoneWaiting
  <2>2. Len(free["conn"]) \in Nat /\ MIN(num_conns_generated, param.num_conns) \in Nat
    BY SeqAssumption DEF BooksOK, BooksType, IsStack, MIN, StackOK
  <2> QED
    BY <2>1, <2>2 DEF BooksOK, BooksType, BooksAgree, Lag, ConnsCounted
<1> QED
  BY <1>1, BooksKept, PTL

-----------------------------------------------------------------------------
(***************************************************************************)
(* Only the generator of URIs that was asked for is ever called.           *)
(***************************************************************************)
OwnSeq(q) == \E S : q \in Seq(S) /\ \A f \in S : f[1] \notin Foreign

OwnUri == \A k \in DOMAIN todo : todo[k][1] \notin Foreign

LEMMA OwnParts ==
    /\ \A q : QuietSeq(q) => OwnSeq(q)
    /\ OwnSeq(<< >>)
    /\ \A f : f[1] \notin Foreign => OwnSeq(<< f >>)
<1>1. \A q : QuietSeq(q) => OwnSeq(q)
  BY DEF QuietSeq, OwnSeq, Quiet
<1>2. OwnSeq(<< >>)
  BY <1>1, QuietNone
<1>3. ASSUME NEW f, f[1] \notin Foreign PROVE OwnSeq(<< f >>)
  <2> DEFINE S == {f}
  <2>1. << f >> \in Seq(S) /\ \A x \in S : x[1] \notin Foreign
    BY <1>3
  <2> HIDE DEF S
  <2> QED
    BY <2>1 DEF OwnSeq
<1> QED
  BY <1>1, <1>2, <1>3

LEMMA OwnConcat ==
    ASSUME NEW q, OwnSeq(q), NEW r, OwnSeq(r)
    PROVE  OwnSeq(q \o r)
<1>1. PICK S : q \in Seq(S) /\ \A f \in S : f[1] \notin Foreign
  BY DEF OwnSeq
<1>2. PICK T : r \in Seq(T) /\ \A f \in T : f[1] \notin Foreign
  BY DEF OwnSeq
<1> DEFINE U == S \cup T
<1>3. q \in Seq(U) /\ r \in Seq(U) /\ \A f \in U : f[1] \notin Foreign
  BY <1>1, <1>2
<1> HIDE DEF U
<1>4. q \o r \in Seq(U)
  BY <1>3
<1> QED
  BY <1>3, <1>4 DEF OwnSeq

LEMMA OwnRun ==
    ASSUME IsStack(todo), todo # << >>, OwnUri, NEW q, OwnSeq(q), Run(q), UNCHANGED param
    PROVE  OwnUri'
<1>1. PICK S : todo \in Seq(S)
  BY DEF IsStack
<1>2. PICK T : q \in Seq(T) /\ \A f \in T : f[1] \notin Foreign
  BY DEF OwnSeq
<1> DEFINE t == Tail(todo)
           U == S \cup T
           n == Len(q)
<1>3. /\ t \in Seq(S) /\ Len(t) \in Nat
      /\ \A k \in 1 .. Len(t) : t[k] = todo[k + 1] /\ k + 1 \in DOMAIN todo
  BY <1>1
<1>4. t \in Seq(U) /\ q \in Seq(U) /\ todo' = q \o t
  BY <1>2, <1>3 DEF Run
<1> HIDE DEF t, U
<1>5. /\ n \in Nat /\ DOMAIN todo' = 1 .. n + Len(t)
      /\ \A k \in 1 .. n : todo'[k] = q[k] /\ q[k] \in T
      /\ \A k \in n + 1 .. n + Len(t) : todo'[k] = t[k - n] /\ k - n \in 1 .. Len(t)
  BY <1>2, <1>3, <1>4
<1> HIDE DEF n
<1>6. ASSUME NEW k \in DOMAIN todo' PROVE todo'[k][1] \notin Foreign
  <2>1. CASE k \in 1 .. n
    BY <1>2, <1>5, <2>1
  <2>2. CASE k \in n + 1 .. n + Len(t)
    BY <1>3, <1>5, <2>2 DEF OwnUri
  <2> QED
    BY <1>3, <1>5, <2>1, <2>2
<1> QED
  BY <1>6 DEF OwnUri, Foreign

\* What the calls that count a connection call in turn.
LEMMA OwnLoud ==
    ASSUME param \in Params, Loud
    PROVE  todo # << >> /\ \E q : OwnSeq(q) /\ Run(q)
<1>1. todo # << >>
  BY DEF Loud, conn_created, conn_destroyed, make_conn, destroyed, conn_dec_ref,
         object_destroy, Step
<1>2. OwnSeq(<< >>)
  BY OwnParts
<1>3. CASE conn_created \/ conn_destroyed \/ object_destroy
  BY <1>1, <1>2, <1>3 DEF conn_created, conn_destroyed, object_destroy
<1>4. CASE destroyed
  <2>1. OwnSeq(<< << "core_exit" >> >>)
    BY OwnParts DEF Foreign, UriNames
  <2> QED
    BY <1>1, <1>2, <1>4, <2>1 DEF destroyed
<1>5. CASE make_conn
  <2> DEFINE s == object_new("conn")
             made_conn == << << "conn_created", s, 0 >> >>
             rest == << << "core_connect", s >>, << "made" >> >>
  <2>1. Run(<< >>) \/ Run(Signal("EV_CONN_NEW", s) \o rest)
    BY <1>5 DEF make_conn
  <2>2. Signal("EV_CONN_NEW", s) = made_conn
    BY MadeSignal
  <2>3. OwnSeq(made_conn)
    BY OwnParts DEF Foreign, UriNames
  <2>4. OwnSeq(rest)
    BY OwnParts, QuietFrames, QuietTwo DEF Counters, UriNames
  <2> HIDE DEF made_conn, rest
  <2>5. OwnSeq(made_conn \o rest)
    BY <2>3, <2>4, OwnConcat
  <2> QED
    BY <1>1, <1>2, <2>1, <2>2, <2>5
<1>6. CASE conn_dec_ref
  <2> DEFINE s == Arg(1)
             sig == Signal("EV_CONN_DESTROYED", s)
             back == << << "free", "conn", s >> >>
             H == << "conn_destroyed", "destroyed", "done" >>
             N == {"conn_destroyed", "destroyed", "done"}
             S == {<< n, s, 0 >> : n \in N}
  <2>1. Run(<< >>) \/ Run(sig \o back)
    BY <1>6 DEF conn_dec_ref
  <2>2. Handlers(param, "EV_CONN_DESTROYED") = H
    BY HandlersAssumption DEF Events, SeqHandlers
  <2>3. sig = [i \in DOMAIN H |-> << H[i], s, 0 >>]
    BY <2>2 DEF Signal, event_signal
  <2>4. H \in Seq(N)
    OBVIOUS
  <2> HIDE DEF H, N
  <2>5. sig \in Seq(S)
    <3>1. DOMAIN H = 1 .. Len(H) /\ Len(H) \in Nat /\ \A i \in DOMAIN H : H[i] \in N
      BY <2>4
    <3> HIDE DEF sig
    <3> QED
      BY <2>3, <3>1
  <2>6. \A f \in S : f[1] \notin Foreign
    BY DEF Foreign, UriNames, N
  <2> HIDE DEF sig, S
  <2>7. OwnSeq(sig)
    BY <2>5, <2>6 DEF OwnSeq
  <2>8. OwnSeq(back)
    BY OwnParts DEF Foreign, UriNames
  <2> HIDE DEF back
  <2>9. OwnSeq(sig \o back)
    BY <2>7, <2>8, OwnConcat
  <2> QED
    BY <1>1, <1>2, <2>1, <2>9
<1> QED
  BY <1>1, <1>3, <1>4, <1>5, <1>6 DEF Loud

LEMMA OwnNext ==
    ASSUME StackOK, OwnUri, StepKind, UNCHANGED param
    PROVE  OwnUri'
<1>1. CASE QuietMove
  <2>1. CASE todo # << >> /\ \E q : QuietSeq(q) /\ Run(q)
    BY <2>1, OwnParts, OwnRun DEF StackOK
  <2>2. CASE QuietSeq(todo')
    <3>1. PICK S : todo' \in Seq(S) /\ \A f \in S : f[1] \notin Foreign
      BY <2>2 DEF QuietSeq, Quiet
    <3>2. \A k \in DOMAIN todo' : todo'[k] \in S
      BY <3>1
    <3> QED
      BY <3>1, <3>2 DEF OwnUri, Foreign
  <2> QED
    BY <1>1, <2>1, <2>2 DEF QuietMove
<1>2. CASE Loud
  BY <1>2, OwnLoud, OwnRun DEF StackOK
<1> QED
  BY <1>1, <1>2 DEF StepKind

-----------------------------------------------------------------------------
(***************************************************************************)
(* The URIs.                                                               *)
(***************************************************************************)
WlistOK ==
    param.uri = "wlist" =>
        /\ DOMAIN pos = 0 .. param.addresses - 1
        /\ \A ip \in 0 .. param.addresses - 1 : pos[ip] = GivenTo(ip, Len(asked))
        /\ \A ip \in 0 .. param.addresses - 1, k \in DOMAIN asked :
              asked[k].ip = ip => asked[k].uri = uris[(GivenTo(ip, k - 1) % num_uris) + 1]

\* The entries that were given since the start of the list.
Used(i) == From(1) \ From(i)

WlogOK ==
    param.uri = "wlog" /\ ~ param.do_loop =>
        /\ fcurrent \in Nat \ {0}
        /\ \/ Len(asked) <= Cardinality(Used(fcurrent))
           \/ ~ running
           \/ todo # << >> /\ Head(todo) = << "core_exit" >>

Misses == {k \in 2 .. Len(asked) : asked[k].uri # asked[k - 1].uri}

WsetOK ==
    param.uri = "wset" =>
        /\ miss_prob \in 0 .. One - 1 /\ file_num \in 0 .. param.num_files - 1
        /\ \A k \in DOMAIN asked : asked[k].uri \in {"file"} \X (0 .. param.num_files - 1)
        /\ asked # << >> =>
             /\ asked[Len(asked)].uri = << "file", file_num >>
             /\ param.num_clients < param.num_files =>
                  \E q \in 0 .. One - 1 :
                     (Len(asked) - 1) * param.miss_rate + q =
                       Cardinality(Misses) * One + miss_prob

UrisOK == BooksOK /\ OwnUri /\ IsStack(asked) /\ WlistOK /\ WlogOK /\ WsetOK

\* One more URI.
LEMMA AskedMore ==
    ASSUME IsStack(asked), NEW r, asked' = Append(asked, r)
    PROVE  /\ IsStack(asked') /\ Len(asked) \in Nat /\ Len(asked') = Len(asked) + 1
           /\ DOMAIN asked = 1 .. Len(asked) /\ DOMAIN asked' = 1 .. Len(asked) + 1
           /\ \A k \in 1 .. Len(asked) : asked'[k] = asked[k]
           /\ asked'[Len(asked) + 1] = r
<1>1. PICK S : asked \in Seq(S)
  BY DEF IsStack
<1> DEFINE U == S \cup {r}
<1>2. asked \in Seq(U) /\ r \in U
  BY <1>1
<1> HIDE DEF U
<1> QED
  BY <1>2 DEF IsStack

\* The generator that is called is the one that was asked for.
LEMMA Called ==
    ASSUME StackOK, OwnUri, NEW n \in UriNames, Step(n)
    PROVE  /\ UriHandlers(param) = << n >>
           /\ todo # << >> /\ Head(todo)[1] = n
<1>1. PICK S : todo \in Seq(S)
  BY DEF StackOK, IsStack
<1>2. todo # << >> /\ Head(todo)[1] = n
  BY DEF Step
<1>3. 1 \in DOMAIN todo /\ todo[1] = Head(todo)
  BY <1>1, <1>2
<1>4. n \notin Foreign
  BY <1>2, <1>3 DEF OwnUri
<1> QED
  BY <1>2, <1>4 DEF Foreign

LEMMA UriOf ==
    ASSUME param \in Params
    PROVE  /\ UriHandlers(param) = << "set_uri_fixed" >> => param.uri = "fixed"
           /\ UriHandlers(param) = << "set_uri_wlist" >> => param.uri = "wlist"
           /\ UriHandlers(param) = << "set_uri_wlog" >> => param.uri = "wlog"
           /\ UriHandlers(param) = << "set_uri_wset" >> => param.uri = "wset"
<1>1. param.uri \in {"fixed", "wlist", "wlog", "wset"}
  BY UriAssumption
<1> QED
  BY <1>1 DEF UriHandlers

\* The other steps leave the URIs alone.
LEMMA OtherUris ==
    ASSUME UrisOK, NotExit, UNCHANGED << param, running, uriVars >>
    PROVE  IsStack(asked') /\ WlistOK' /\ WlogOK' /\ WsetOK'
<1>1. IsStack(asked')
  BY DEF UrisOK, uriVars, IsStack
<1>2. WlistOK'
  <2>1. \A ip, n : GivenTo(ip, n)' = GivenTo(ip, n)
    BY DEF GivenTo, uriVars
  <2> QED
    BY <2>1 DEF UrisOK, uriVars, WlistOK
<1>3. WlogOK'
  <2>1. todo = << >> \/ Head(todo) # << "core_exit" >>
    BY DEF NotExit
  <2> QED
    BY <2>1 DEF UrisOK, uriVars, WlogOK
<1>4. WsetOK'
  BY DEF UrisOK, uriVars, WsetOK, Misses
<1> QED
  BY <1>1, <1>2, <1>3, <1>4

\* How many URIs an address was given, before and after one more.
LEMMA GivenMore ==
    ASSUME IsStack(asked), NEW r, asked' = Append(asked, r), NEW ip,
           NEW m \in Nat, m = Len(asked)
    PROVE  /\ \A n \in 0 .. m : GivenTo(ip, n)' = GivenTo(ip, n)
           /\ GivenTo(ip, m) \in Nat
           /\ GivenTo(ip, m + 1)' = GivenTo(ip, m) + (IF r.ip = ip THEN 1 ELSE 0)
<1> DEFINE S == {k \in 1 .. m : asked[k].ip = ip}
           T == {k \in 1 .. m + 1 : asked'[k].ip = ip}
<1>1. /\ \A k \in 1 .. m : asked'[k] = asked[k]
      /\ asked'[m + 1] = r
  BY AskedMore
<1>2. ASSUME NEW n \in 0 .. m PROVE GivenTo(ip, n)' = GivenTo(ip, n)
  <2>1. \A k \in 1 .. n : asked'[k] = asked[k]
    BY <1>1
  <2>2. {k \in 1 .. n : asked'[k].ip = ip} = {k \in 1 .. n : asked[k].ip = ip}
    BY <2>1
  <2> QED
    BY <2>2 DEF GivenTo
<1>3. Cardinality(S) \in Nat /\ Cardinality(S \cup {m + 1}) = Cardinality(S) + 1
  BY NextElement
<1>4. T = IF r.ip = ip THEN S \cup {m + 1} ELSE S
  <2>1. \A k \in 1 .. m + 1 : k \in 1 .. m \/ k = m + 1
    OBVIOUS
  <2>2. 1 .. m \subseteq 1 .. m + 1 /\ m + 1 \in 1 .. m + 1 /\ m + 1 \notin 1 .. m
    OBVIOUS
  <2>3. \A k \in 1 .. m : k \in T <=> k \in S
    BY <1>1, <2>2
  <2>4. m + 1 \in T <=> r.ip = ip
    BY <1>1, <2>2
  <2> QED
    BY <2>1, <2>2, <2>3, <2>4
<1>5. GivenTo(ip, m) = Cardinality(S) /\ GivenTo(ip, m + 1)' = Cardinality(T)
  BY DEF GivenTo
<1> HIDE DEF S, T
<1> QED
  BY <1>2, <1>3, <1>4, <1>5

LEMMA FixedUris ==
    ASSUME UrisOK, set_uri_fixed, UNCHANGED param
    PROVE  IsStack(asked') /\ WlistOK' /\ WlogOK' /\ WsetOK'
<1>1. param.uri = "fixed"
  BY Called, UriOf DEF UrisOK, BooksOK, StackOK, set_uri_fixed, UriNames
<1>2. IsStack(asked')
  BY AskedMore DEF UrisOK, set_uri_fixed, call_set_uri
<1> QED
  BY <1>1, <1>2 DEF WlistOK, WlogOK, WsetOK

LEMMA WlistUris ==
    ASSUME UrisOK, set_uri_wlist, UNCHANGED param
    PROVE  IsStack(asked') /\ WlistOK' /\ WlogOK' /\ WsetOK'
<1> DEFINE i == call[Arg(1)].myip
           r == [ip |-> i, uri |-> uris[(pos[i] % num_uris) + 1]]
           IPs == 0 .. param.addresses - 1
<1>1. param.uri = "wlist"
  BY Called, UriOf DEF UrisOK, BooksOK, StackOK, set_uri_wlist, UriNames
<1>2. asked' = Append(asked, r) /\ pos' = [pos EXCEPT ![i] = @ + 1]
  BY DEF set_uri_wlist, call_set_uri
<1>3. r.ip = i /\ r.uri = uris[(pos[i] % num_uris) + 1]
  OBVIOUS
<1> HIDE DEF r, i
<1>4. IsStack(asked) /\ IsStack(asked')
  BY <1>2, AskedMore DEF UrisOK
<1>5. PICK m \in Nat : m = Len(asked)
  BY <1>2, <1>4, AskedMore
<1>6. /\ Len(asked') = m + 1 /\ DOMAIN asked = 1 .. m /\ DOMAIN asked' = 1 .. m + 1
      /\ \A k \in 1 .. m : asked'[k] = asked[k]
      /\ asked'[m + 1] = r
  BY <1>2, <1>4, <1>5, AskedMore
<1>7. \A ip : /\ \A n \in 0 .. m : GivenTo(ip, n)' = GivenTo(ip, n)
              /\ GivenTo(ip, m) \in Nat
              /\ GivenTo(ip, m + 1)' = GivenTo(ip, m) + (IF i = ip THEN 1 ELSE 0)
  BY <1>2, <1>3, <1>4, <1>5, GivenMore
<1>8. /\ DOMAIN pos = IPs
      /\ \A ip \in IPs : pos[ip] = GivenTo(ip, m)
      /\ \A ip \in IPs, k \in 1 .. m :
            asked[k].ip = ip => asked[k].uri = uris[(GivenTo(ip, k - 1) % num_uris) + 1]
  BY <1>1, <1>5, <1>6 DEF UrisOK, WlistOK
<1>9. DOMAIN pos' = IPs /\ \A ip \in IPs : pos'[ip] = GivenTo(ip, m + 1)'
  BY <1>2, <1>7, <1>8
<1>10. ASSUME NEW ip \in IPs, NEW k \in 1 .. m + 1, asked'[k].ip = ip
       PROVE  asked'[k].uri = uris[(GivenTo(ip, k - 1)' % num_uris) + 1]
  <2>1. CASE k \in 1 .. m
    <3>1. k - 1 \in 0 .. m /\ asked'[k] = asked[k]
      BY <1>6, <2>1
    <3>2. GivenTo(ip, k - 1)' = GivenTo(ip, k - 1)
      BY <1>7, <3>1
    <3> QED
      BY <1>8, <1>10, <2>1, <3>1, <3>2
  <2>2. CASE k = m + 1
    <3>1. k - 1 = m /\ m \in 0 .. m /\ i = ip
      BY <1>3, <1>6, <1>10, <2>2
    <3>2. GivenTo(ip, k - 1)' = pos[ip]
      BY <1>7, <1>8, <3>1
    <3> QED
      BY <1>3, <1>6, <2>2, <3>1, <3>2
  <2> QED
    BY <2>1, <2>2
<1>11. WlistOK'
  BY <1>6, <1>9, <1>10 DEF WlistOK
<1> QED
  BY <1>1, <1>4, <1>11 DEF WlogOK, WsetOK

\* The entries of the list, and the first of them.
LEMMA Entries ==
    /\ \A i \in Nat \ {0} : From(i) \subseteq From(1) /\ From(i) \subseteq 1 .. Len(UriFile)
    /\ Len(UriFile) \in Nat /\ From(1) # {}
    /\ \A i \in Nat \ {0} : From(i) # {} =>
         /\ Min(From(i)) \in From(i) /\ Min(From(i)) + 1 \in Nat \ {0}
         /\ From(Min(From(i)) + 1) = From(i) \ {Min(From(i))}
<1> DEFINE V(k) == UriFile[k] # ""
           n == Len(UriFile)
<1>1. UriFile \in Seq(STRING) /\ \E i \in DOMAIN UriFile : V(i)
  BY Zenon, UriAssumption
<1>2. \A i : From(i) = {k \in i .. n : V(k)}
  BY Zenon DEF From
<1> HIDE DEF V
<1>3. n \in Nat /\ DOMAIN UriFile = 1 .. n
  <2>1. PICK S : UriFile \in Seq(S)
    BY <1>1
  <2> QED
    BY <2>1
<1> HIDE DEF n
<1>4. From(1) # {}
  BY <1>1, <1>2, <1>3
<1>5. \A i \in Nat \ {0} : From(i) \subseteq From(1) /\ From(i) \subseteq 1 .. n
  BY <1>2, <1>3
<1>6. ASSUME NEW i \in Nat \ {0}, From(i) # {}
      PROVE  /\ Min(From(i)) \in From(i) /\ Min(From(i)) + 1 \in Nat \ {0}
             /\ From(Min(From(i)) + 1) = From(i) \ {Min(From(i))}
  <2> DEFINE e == Min(From(i))
  <2>1. From(i) \in SUBSET Nat
    BY <1>3, <1>5
  <2>2. e \in From(i) /\ \A y \in From(i) : e <= y
    BY <1>6, <2>1, LeastElement
  <2>3. e \in Nat /\ i <= e
    BY <1>2, <1>3, <2>1, <2>2
  <2> HIDE DEF e
  <2>4. From(e + 1) = From(i) \ {e}
    BY <1>2, <1>3, <2>2, <2>3
  <2> QED
    BY <2>2, <2>3, <2>4 DEF e
<1> QED
  BY <1>3, <1>4, <1>5, <1>6 DEF n

LEMMA WlogUris ==
    ASSUME UrisOK, set_uri_wlog, UNCHANGED << param, running >>
    PROVE  IsStack(asked') /\ WlistOK' /\ WlogOK' /\ WsetOK'
<1> DEFINE wraps == From(fcurrent) = {}
           entry == Min(From(IF wraps THEN 1 ELSE fcurrent))
<1>1. param.uri = "wlog"
  BY Called, UriOf DEF UrisOK, BooksOK, StackOK, set_uri_wlog, UriNames
<1>2. /\ IsStack(asked') /\ Len(asked) \in Nat /\ Len(asked') = Len(asked) + 1
      /\ fcurrent' = entry + 1
  BY AskedMore DEF UrisOK, set_uri_wlog, call_set_uri
<1>3. ASSUME ~ param.do_loop PROVE WlogOK'
  <2>1. /\ fcurrent \in Nat \ {0}
        /\ \/ Len(asked) <= Cardinality(Used(fcurrent))
           \/ ~ running
           \/ todo # << >> /\ Head(todo) = << "core_exit" >>
    BY <1>1, <1>3 DEF UrisOK, WlogOK
  <2>2. ~ (todo # << >> /\ Head(todo) = << "core_exit" >>)
    BY DEF set_uri_wlog, Step
  <2>3. CASE wraps
    <3>1. fcurrent' \in Nat \ {0}
      BY <1>2, <2>3, Entries
    <3>2. Run(<< << "core_exit" >> >>)
      BY <1>3, <2>3 DEF set_uri_wlog
    <3>3. todo' # << >> /\ Head(todo') = << "core_exit" >>
      <4>1. PICK S : todo \in Seq(S)
        BY DEF UrisOK, BooksOK, StackOK, IsStack
      <4> DEFINE t == Tail(todo)
                 U == S \cup {<< "core_exit" >>}
      <4>2. todo # << >>
        BY DEF set_uri_wlog, Step
      <4>3. t \in Seq(U) /\ << << "core_exit" >> >> \in Seq(U)
        BY <4>1, <4>2
      <4>4. todo' = << << "core_exit" >> >> \o t
        BY <3>2 DEF Run
      <4> HIDE DEF t, U
      <4>5. Head(<< << "core_exit" >> >> \o t) = << "core_exit" >>
            /\ << << "core_exit" >> >> \o t # << >>
        BY <4>3
      <4> QED
        BY <4>4, <4>5
    <3> QED
      BY <3>1, <3>3 DEF WlogOK
  <2>4. CASE ~ wraps
    <3>1. entry = Min(From(fcurrent))
      BY <2>4
    <3> DEFINE e == Min(From(fcurrent))
    <3>2. /\ e \in From(fcurrent) /\ fcurrent' = e + 1 /\ fcurrent' \in Nat \ {0}
          /\ From(fcurrent') = From(fcurrent) \ {e}
      BY <1>2, <2>1, <2>4, <3>1, Entries
    <3>3. e \in From(1) /\ From(1) \subseteq 1 .. Len(UriFile) /\ Len(UriFile) \in Nat
      BY <2>1, <3>2, Entries
    <3> HIDE DEF e
    <3>4. Used(fcurrent') = Used(fcurrent) \cup {e} /\ e \notin Used(fcurrent)
      BY <3>2, <3>3 DEF Used
    <3>5. IsFiniteSet(Used(fcurrent)) /\ Cardinality(Used(fcurrent)) \in Nat
      <4>1. Used(fcurrent) \in SUBSET (1 .. Len(UriFile))
        BY <3>3 DEF Used
      <4> QED
        BY <3>3, <4>1, PartOfInterval
    <3>6. Cardinality(Used(fcurrent')) = Cardinality(Used(fcurrent)) + 1
      BY <3>4, <3>5, FS_AddElement
    <3>7. CASE Len(asked) <= Cardinality(Used(fcurrent))
      <4>1. Len(asked') <= Cardinality(Used(fcurrent'))
        BY <1>2, <3>5, <3>6, <3>7
      <4> QED
        BY <3>2, <4>1 DEF WlogOK
    <3>8. CASE ~ running
      BY <3>2, <3>8 DEF WlogOK
    <3> QED
      BY <2>1, <2>2, <3>7, <3>8
  <2> QED
    BY <2>3, <2>4
<1>4. param.do_loop => WlogOK'
  BY DEF WlogOK
<1> QED
  BY <1>1, <1>2, <1>3, <1>4 DEF WlistOK, WsetOK

LEMMA Products ==
    ASSUME NEW a \in Int, NEW b \in Int
    PROVE  a * b \in Int /\ (a + 1) * b = a * b + b /\ (a - 1) * b = a * b - b
OBVIOUS

LEMMA WsetUris ==
    ASSUME UrisOK, set_uri_wset, UNCHANGED param
    PROVE  IsStack(asked') /\ WlistOK' /\ WlogOK' /\ WsetOK'
<1> DEFINE due == miss_prob + param.miss_rate
           moved == file_num + param.num_clients
           files == 0 .. param.num_files - 1
           r == [ip |-> call[Arg(1)].myip, uri |-> << "file", file_num' >>]
<1>1. param \in Params /\ param.uri = "wset"
  BY Called, UriOf DEF UrisOK, BooksOK, StackOK, set_uri_wset, UriNames
<1>2. /\ asked' = Append(asked, r) /\ r.uri = << "file", file_num' >>
      /\ miss_prob' = IF due >= One THEN due - One ELSE due
      /\ file_num' = IF ~ due >= One THEN file_num
                     ELSE IF moved >= param.num_files THEN moved - param.num_files ELSE moved
  BY DEF set_uri_wset, call_set_uri
<1> HIDE DEF r
<1>3. /\ One \in Nat \ {0} /\ param.miss_rate \in 0 .. One
      /\ param.num_clients \in Nat \ {0} /\ param.num_files \in Nat \ {0}
      /\ param.num_clients <= param.num_files
  <2>1. /\ One \in Nat \ {0} /\ param.miss_rate \in 0 .. One
        /\ param.num_clients \in Nat /\ param.num_files \in Nat /\ param.id \in Nat
        /\ param.id < param.num_clients /\ param.num_clients <= param.num_files
    BY <1>1, UriAssumption, Zenon
  <2> QED
    BY <2>1
<1>4. /\ miss_prob \in 0 .. One - 1 /\ file_num \in files
      /\ \A k \in DOMAIN asked : asked[k].uri \in {"file"} \X files
      /\ asked # << >> =>
           /\ asked[Len(asked)].uri = << "file", file_num >>
           /\ param.num_clients < param.num_files =>
                \E q \in 0 .. One - 1 :
                   (Len(asked) - 1) * param.miss_rate + q = Cardinality(Misses) * One + miss_prob
  <2>1. WsetOK
    BY DEF UrisOK
  <2> QED
    BY <1>1, <2>1, Zenon DEF WsetOK
<1>5. miss_prob' \in 0 .. One - 1 /\ file_num' \in files
  <2> DEFINE rate == param.miss_rate
             clients == param.num_clients
             num == param.num_files
  <2>1. /\ One \in Nat \ {0} /\ rate \in 0 .. One /\ miss_prob \in 0 .. One - 1
        /\ clients \in Nat \ {0} /\ num \in Nat \ {0} /\ clients <= num
        /\ file_num \in 0 .. num - 1
    BY <1>3, <1>4
  <2>2. /\ due = miss_prob + rate /\ due \in Int
        /\ moved = file_num + clients /\ moved \in Int
    BY <2>1
  <2> HIDE DEF rate, clients, due, moved
  <2>3. miss_prob' \in 0 .. One - 1
    BY <1>2, <2>1, <2>2
  <2>4. \/ file_num' = file_num
        \/ file_num' = moved /\ moved < num
        \/ file_num' = moved - num /\ moved >= num
    <3>1. num \in Int
      BY <2>1
    <3>2. \/ file_num' = file_num
          \/ ~ moved >= num /\ file_num' = moved
          \/ moved >= num /\ file_num' = moved - num
      BY <1>2
    <3> HIDE DEF num
    <3> QED
      BY <2>2, <3>1, <3>2
  <2> HIDE DEF num
  <2>5. file_num' \in 0 .. num - 1
    BY <2>1, <2>2, <2>4
  <2> QED
    BY <2>3, <2>5 DEF num
<1>6. IsStack(asked) /\ IsStack(asked')
  BY <1>2, AskedMore DEF UrisOK
<1>7. PICK m \in Nat : m = Len(asked)
  BY <1>2, <1>6, AskedMore
<1>8. /\ Len(asked') = m + 1 /\ DOMAIN asked = 1 .. m /\ DOMAIN asked' = 1 .. m + 1
      /\ \A k \in 1 .. m : asked'[k] = asked[k]
      /\ asked'[m + 1] = r
  BY <1>2, <1>6, <1>7, AskedMore
<1>9. \A k \in DOMAIN asked' : asked'[k].uri \in {"file"} \X files
  <2>1. \A k \in 1 .. m + 1 : k \in 1 .. m \/ k = m + 1
    OBVIOUS
  <2>2. << "file", file_num' >> \in {"file"} \X files
    BY <1>5
  <2> QED
    BY <1>2, <1>4, <1>8, <2>1, <2>2
<1>10. asked'[Len(asked')].uri = << "file", file_num' >>
  BY <1>2, <1>8
<1>11. ASSUME param.num_clients < param.num_files
       PROVE  \E q \in 0 .. One - 1 :
                 (Len(asked') - 1) * param.miss_rate + q = Cardinality(Misses') * One + miss_prob'
  <2> DEFINE M == {k \in 2 .. m : asked[k].uri # asked[k - 1].uri}
             N == {k \in 2 .. m + 1 : asked'[k].uri # asked'[k - 1].uri}
  <2>1. Misses = M /\ Misses' = N
    BY <1>7, <1>8 DEF Misses
  <2>2. CASE asked = << >>
    <3>1. m = 0
      BY <1>7, <2>2
    <3>2. N = {}
      BY <3>1
    <3>3. Cardinality(Misses') = 0
      BY <2>1, <3>2, FS_EmptySet
    <3>4. 0 * param.miss_rate = 0 /\ 0 * One = 0
      BY <1>3
    <3>5. (Len(asked') - 1) * param.miss_rate + miss_prob' =
            Cardinality(Misses') * One + miss_prob'
      BY <1>5, <1>8, <3>1, <3>3, <3>4
    <3> QED
      BY <1>5, <3>5
  <2>3. CASE asked # << >>
    <3>1. m \in Nat \ {0}
      <4>1. m # 0
        BY <1>6, <1>7, <2>3 DEF IsStack
      <4> QED
        BY <4>1
    <3>2. PICK q \in 0 .. One - 1 :
             (m - 1) * param.miss_rate + q = Cardinality(M) * One + miss_prob
      BY <1>4, <1>7, <1>11, <2>1, <2>3
    <3>3. asked[m].uri = << "file", file_num >> /\ asked'[m + 1].uri = << "file", file_num' >>
          /\ asked'[m] = asked[m]
      BY <1>2, <1>4, <1>7, <1>8, <2>3, <3>1
    <3>4. file_num' # file_num <=> due >= One
      BY <1>2, <1>3, <1>4, <1>11
    <3>5. asked'[m + 1].uri # asked'[m].uri <=> due >= One
      BY <3>3, <3>4
    <3>6. N = IF due >= One THEN M \cup {m + 1} ELSE M
      <4>1. \A k \in 2 .. m + 1 : k \in 2 .. m \/ k = m + 1
        OBVIOUS
      <4>2. 2 .. m \subseteq 2 .. m + 1 /\ m + 1 \in 2 .. m + 1 /\ m + 1 \notin 2 .. m
        BY <3>1
      <4>3. \A k \in 2 .. m : asked'[k] = asked[k] /\ asked'[k - 1] = asked[k - 1]
        BY <1>8
      <4>4. \A k \in 2 .. m : k \in N <=> k \in M
        BY <4>2, <4>3
      <4>5. (m + 1) - 1 = m
        OBVIOUS
      <4>6. m + 1 \in N <=> due >= One
        BY <3>5, <4>2, <4>5
      <4>7. N \subseteq 2 .. m + 1 /\ M \subseteq 2 .. m
        OBVIOUS
      <4> HIDE DEF N, M, due
      <4>8. CASE due >= One
        <5>1. N = M \cup {m + 1}
          BY <4>1, <4>2, <4>4, <4>6, <4>7, <4>8
        <5> QED
          BY <4>8, <5>1
      <4>9. CASE ~ due >= One
        <5>1. N = M
          BY <4>1, <4>2, <4>4, <4>6, <4>7, <4>9
        <5> QED
          BY <4>9, <5>1
      <4> QED
        BY <4>8, <4>9
    <3>7. M \in SUBSET (1 .. m)
      OBVIOUS
    <3> HIDE DEF N, M
    <3>8. Cardinality(M) \in Nat /\ Cardinality(M \cup {m + 1}) = Cardinality(M) + 1
      BY <3>7, NextElement
    <3> DEFINE c == Cardinality(M)
               rate == param.miss_rate
    <3>9. c \in Nat /\ rate \in Int /\ One \in Int
      BY <1>3, <3>8
    <3>10. Cardinality(Misses') = IF due >= One THEN c + 1 ELSE c
      BY <2>1, <3>6, <3>8
    <3>11. (m - 1) * rate \in Int /\ m * rate = (m - 1) * rate + rate
      <4>1. m - 1 \in Int /\ (m - 1) + 1 = m
        OBVIOUS
      <4>2. (m - 1) * rate \in Int /\ ((m - 1) + 1) * rate = (m - 1) * rate + rate
        BY <3>9, <4>1, Products
      <4> QED
        BY <4>1, <4>2
    <3>12. c * One \in Int /\ (c + 1) * One = c * One + One
      BY <3>9, Products
    <3> DEFINE x == (m - 1) * rate
               y == c * One
               z == m * rate
               w == (c + 1) * One
    <3>13. x + q = y + miss_prob /\ z = x + rate /\ w = y + One
           /\ x \in Int /\ y \in Int /\ rate \in Int
      BY <3>2, <3>9, <3>11, <3>12
    <3>14. Len(asked') - 1 = m
      BY <1>8
    <3> HIDE DEF x, y, z, w, c, rate
    <3>15. z + q = (IF due >= One THEN w ELSE y) + miss_prob'
      <4>1. due = miss_prob + rate /\ miss_prob \in Int /\ q \in Int /\ due \in Int
        BY <1>4, <3>13 DEF rate
      <4> HIDE DEF due
      <4>2. CASE due >= One
        <5>1. miss_prob' = due - One
          BY <1>2, <4>2
        <5>2. z + q = w + miss_prob'
          BY <1>3, <3>13, <4>1, <5>1
        <5> QED
          BY <4>2, <5>2
      <4>3. CASE ~ due >= One
        <5>1. miss_prob' = due
          BY <1>2, <4>3
        <5>2. z + q = y + miss_prob'
          BY <3>13, <4>1, <5>1
        <5> QED
          BY <4>3, <5>2
      <4> QED
        BY <4>2, <4>3
    <3>16. (Len(asked') - 1) * param.miss_rate + q = Cardinality(Misses') * One + miss_prob'
      BY <3>10, <3>14, <3>15 DEF y, z, w, rate
    <3> QED
      BY <3>16
  <2> QED
    BY <2>2, <2>3
<1>12. WsetOK'
  BY <1>5, <1>9, <1>10, <1>11 DEF WsetOK
<1> QED
  BY <1>1, <1>6, <1>12 DEF WlistOK, WlogOK

LEMMA UrisInit == Init => UrisOK
<1> SUFFICES ASSUME Init PROVE UrisOK
  OBVIOUS
<1>1. BooksOK
  BY BooksInit
<1>2. OwnUri
  <2>1. todo = << << "start" >>, << "make_conn" >> >>
    BY DEF Init
  <2>2. QuietSeq(todo)
    BY <2>1, QuietFrames, QuietTwo DEF Counters, UriNames
  <2>3. PICK S : todo \in Seq(S) /\ \A f \in S : Quiet(f)
    BY <2>2 DEF QuietSeq
  <2>4. \A k \in DOMAIN todo : todo[k] \in S
    BY <2>3
  <2> QED
    BY <2>3, <2>4 DEF OwnUri, Quiet
<1>3. asked = << >> /\ Len(asked) = 0 /\ DOMAIN asked = {} /\ IsStack(asked)
  BY NoneWaiting DEF Init, UriInit
<1>4. WlistOK
  <2>1. /\ DOMAIN pos = 0 .. param.addresses - 1
        /\ \A ip \in 0 .. param.addresses - 1 : pos[ip] = 0
    BY DEF Init, UriInit
  <2>2. \A ip : GivenTo(ip, 0) = 0
    <3>1. \A ip : {k \in 1 .. 0 : asked[k].ip = ip} = {}
      OBVIOUS
    <3> QED
      BY <3>1, FS_EmptySet DEF GivenTo
  <2> QED
    BY <1>3, <2>1, <2>2 DEF WlistOK
<1>5. WlogOK
  <2>1. fcurrent = 1 /\ Used(1) = {} /\ 1 \in Nat \ {0} /\ 0 <= 0
    BY DEF Init, UriInit, Used
  <2>2. Len(asked) <= Cardinality(Used(fcurrent)) /\ fcurrent \in Nat \ {0}
    BY <1>3, <2>1, FS_EmptySet
  <2> QED
    BY <2>2 DEF WlogOK
<1>6. WsetOK
  <2> SUFFICES ASSUME param.uri = "wset" PROVE WsetOK
    BY DEF WsetOK
  <2>1. param \in Params
    BY DEF Init, CoreInit
  <2>2. /\ {param.id, param.num_clients, param.num_files} \subseteq Nat
        /\ param.id < param.num_clients /\ param.num_clients <= param.num_files
    BY <2>1, UriAssumption, Zenon
  <2>3. param.id \in 0 .. param.num_files - 1
    BY <2>2
  <2>4. miss_prob \in 0 .. One - 1 /\ file_num \in 0 .. param.num_files - 1
    BY <2>3 DEF Init, UriInit
  <2> QED
    BY <1>3, <2>4 DEF WsetOK
<1> QED
  BY <1>1, <1>2, <1>3, <1>4, <1>5, <1>6 DEF UrisOK

LEMMA UrisNext == UrisOK /\ [Next]_vars => UrisOK'
<1> SUFFICES ASSUME UrisOK, [Next]_vars PROVE UrisOK'
  OBVIOUS
<1>1. BooksOK'
  BY BooksNext DEF UrisOK
<1>2. CASE UNCHANGED vars
  <2>1. UNCHANGED << param, todo, running, pos, fcurrent, miss_prob, file_num, asked >>
    BY <1>2 DEF vars, coreVars, uriVars
  <2>2. \A ip, n : GivenTo(ip, n)' = GivenTo(ip, n)
    BY <2>1 DEF GivenTo
  <2>3. OwnUri' /\ IsStack(asked')
    BY <2>1 DEF UrisOK, OwnUri, Foreign, IsStack
  <2>4. WlistOK'
    BY <2>1, <2>2 DEF UrisOK, WlistOK
  <2>5. WlogOK' /\ WsetOK'
    BY <2>1 DEF UrisOK, WlogOK, WsetOK, Misses
  <2> QED
    BY <1>1, <2>3, <2>4, <2>5 DEF UrisOK
<1>3. CASE Next
  <2>1. StackOK
    BY DEF UrisOK, BooksOK
  <2>2. UNCHANGED param /\ StepKind
    BY <1>3, <2>1, NextKind DEF StackOK
  <2>3. OwnUri'
    BY <2>1, <2>2, OwnNext DEF UrisOK
  <2>4. IsStack(asked') /\ WlistOK' /\ WlogOK' /\ WsetOK'
    <3>1. CASE UNCHANGED << running, uriVars >> /\ NotExit
      BY <2>2, <3>1, OtherUris
    <3>2. CASE UNCHANGED running /\ SetUri
      BY <2>2, <3>2, FixedUris, WlistUris, WlogUris, WsetUris DEF SetUri
    <3>3. CASE UNCHANGED uriVars /\ core_exit
      <4>1. IsStack(asked') /\ WsetOK'
        BY <2>2, <3>3 DEF UrisOK, uriVars, IsStack, WsetOK, Misses
      <4>2. \A ip, n : GivenTo(ip, n)' = GivenTo(ip, n)
        BY <3>3 DEF GivenTo, uriVars
      <4>3. WlistOK'
        BY <2>2, <3>3, <4>2 DEF UrisOK, uriVars, WlistOK
      <4>4. WlogOK'
        BY <2>2, <3>3 DEF UrisOK, uriVars, WlogOK, core_exit
      <4> QED
        BY <4>1, <4>3, <4>4
    <3> QED
      BY <2>2, <3>1, <3>2, <3>3 DEF StepKind, Loud
  <2> QED
    BY <1>1, <2>3, <2>4 DEF UrisOK
<1> QED
  BY <1>2, <1>3

\* The URIs are given as each generator promises: through a list each local
\* address walks in order, whatever calls of others come between; from the list
\* that is shared no entry is used again until the test stops; and among the
\* files the misses are as many as the rate asks for, less than one more or less.
THEOREM UrisGiven == Spec => []UrisInTurn
<1>1. UrisOK => UrisInTurn
  <2> SUFFICES ASSUME UrisOK PROVE UrisInTurn
    OBVIOUS
  <2>1. param \in Params
    BY DEF UrisOK, BooksOK, StackOK
  <2>2. param.uri = "wlist" =>
          \A ip \in 0 .. param.addresses - 1, k \in DOMAIN asked :
             asked[k].ip = ip => asked[k].uri = uris[(GivenTo(ip, k - 1) % num_uris) + 1]
    BY Zenon DEF UrisOK, WlistOK
  <2>3. param.uri = "wlog" /\ ~ param.do_loop /\ Idle /\ running =>
          Len(asked) <= Cardinality(From(1))
    <3> SUFFICES ASSUME param.uri = "wlog", ~ param.do_loop, todo = << >>, running
                 PROVE  Len(asked) <= Cardinality(From(1))
      BY DEF Idle
    <3>1. Len(asked) <= Cardinality(Used(fcurrent))
      BY DEF UrisOK, WlogOK
    <3>2. /\ Len(UriFile) \in Nat /\ From(1) \in SUBSET (1 .. Len(UriFile))
          /\ Used(fcurrent) \in SUBSET From(1)
      BY Entries DEF Used
    <3>3. /\ Cardinality(Used(fcurrent)) <= Cardinality(From(1))
          /\ Cardinality(Used(fcurrent)) \in Nat /\ Cardinality(From(1)) \in Nat
      BY <3>2, FewerElements
    <3>4. Len(asked) \in Nat
      BY DEF UrisOK, IsStack
    <3> QED
      BY <3>1, <3>3, <3>4
  <2>4. ASSUME param.uri = "wset"
        PROVE  /\ Files(DOMAIN asked) \subseteq {"file"} \X (0 .. param.num_files - 1)
               /\ param.num_clients < param.num_files /\ asked # << >> =>
                    (Len(asked) - 1) * param.miss_rate
                      \in (Cardinality(Misses) - 1) * One + 1 .. (Cardinality(Misses) + 1) * One - 1
    <3>1. Files(DOMAIN asked) \subseteq {"file"} \X (0 .. param.num_files - 1)
      <4>1. \A k \in DOMAIN asked : asked[k].uri \in {"file"} \X (0 .. param.num_files - 1)
        BY <2>4, Zenon DEF UrisOK, WsetOK
      <4> QED
        BY <4>1 DEF Files
    <3>2. ASSUME param.num_clients < param.num_files, asked # << >>
          PROVE  (Len(asked) - 1) * param.miss_rate
                   \in (Cardinality(Misses) - 1) * One + 1 .. (Cardinality(Misses) + 1) * One - 1
      <4> DEFINE c == Cardinality(Misses)
                 x == (Len(asked) - 1) * param.miss_rate
      <4>1. \E q \in 0 .. One - 1 : x + q = c * One + miss_prob
        BY <2>4, <3>2, Zenon DEF UrisOK, WsetOK
      <4>2. miss_prob \in 0 .. One - 1
        BY <2>4, Zenon DEF UrisOK, WsetOK
      <4>3. One \in Nat /\ param.miss_rate \in Int
        <5>1. One \in Nat /\ param.miss_rate \in 0 .. One
          BY <2>1, UriAssumption, Zenon
        <5> QED
          BY <5>1
      <4>4. Len(asked) \in Nat
        BY DEF UrisOK, IsStack
      <4>5. c \in Nat
        <5>1. Misses \in SUBSET (1 .. Len(asked))
          BY <4>4 DEF Misses
        <5> QED
          BY <4>4, <5>1, PartOfInterval
      <4>6. x \in Int
        BY <4>3, <4>4, Products
      <4> HIDE DEF c, x
      <4> DEFINE y == c * One
                 a == (c - 1) * One
                 b == (c + 1) * One
      <4>7. y \in Int /\ a = y - One /\ b = y + One
        BY <4>3, <4>5, Products
      <4>8. PICK q \in 0 .. One - 1 : x + q = y + miss_prob
        BY <4>1
      <4> HIDE DEF y, a, b
      <4>9. x \in a + 1 .. b - 1
        BY <4>2, <4>3, <4>6, <4>7, <4>8
      <4> QED
        BY <4>9 DEF a, b, c, x
    <3> QED
      BY <3>1, <3>2
  <2> QED
    BY <2>2, <2>3, <2>4 DEF UrisInTurn, Misses
<1>2. Init => UrisOK
  BY UrisInit
<1>3. UrisOK /\ [Next]_vars => UrisOK'
  BY UrisNext
<1> QED
  BY <1>1, <1>2, <1>3, PTL DEF Spec

===============================================================================
