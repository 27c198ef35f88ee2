----------------------------- MODULE HttperfTimer -----------------------------
(***************************************************************************)
(* The timers of the traffic generator (attacker/httperf/src/timer.c, on   *)
(* the lists of lib/list.c).  A timer is on one of three lists: passive,   *)
(* the pool, active, or persistent, those scheduled with no delay left,    *)
(* which never expire.  Timers are taken from the head of the pool and put *)
(* back there.  Cancelling a timer only marks it; the next tick returns it *)
(* to the pool, and nothing ever does that for a persistent one.           *)
(*                                                                         *)
(* There is no clock: when a tick comes, any of the active timers may be   *)
(* due.  The timers are a record of the three lists and of what each timer *)
(* is for, so that the operators can be used by any module.                *)
(***************************************************************************)
EXTENDS Integers, Sequences, SequencesExt, FiniteSetsExt

CONSTANTS
    Timer,        \* the timers that exist: 1 .. some number
    NUM_TIMERS    \* how many timer_init makes; the others are malloc's

ASSUME TimerAssumption ==
    /\ NUM_TIMERS \in Nat
    /\ Timer \subseteq Nat
    /\ 1 .. NUM_TIMERS \subseteq Timer

\* timer_init pushes the timers one after the other.
timer_init ==
    [ passive |-> [i \in 1 .. NUM_TIMERS |-> NUM_TIMERS + 1 - i],
      active |-> << >>,
      persistent |-> << >>,
      expired |-> [t \in Timer |-> FALSE],
      callback |-> [t \in Timer |-> << "none" >>] ]

Listed(T) == Range(T.passive) \cup Range(T.active) \cup Range(T.persistent)

CanSchedule(T) == T.passive # << >> \/ Timer \ Listed(T) # {}

\* The timer timer_schedule returns: the head of the pool, or a new one.
NextTimer(T) ==
    IF T.passive # << >> THEN Head(T.passive) ELSE Min(Timer \ Listed(T))

\* callback is the function to call with its argument; late says that the
\* delay is not positive.
timer_schedule(T, callback, late) ==
    LET t == NextTimer(T)
    IN  [ passive |-> IF T.passive = << >> THEN << >> ELSE Tail(T.passive),
          active |-> IF late THEN T.active ELSE << t >> \o T.active,
          persistent |-> IF late THEN << t >> \o T.persistent ELSE T.persistent,
          expired |-> [T.expired EXCEPT ![t] = FALSE],
          callback |-> [T.callback EXCEPT ![t] = callback] ]

timer_cancel(T, t) == [T EXCEPT !.expired[t] = TRUE]

\* A tick first calls back the timers that are due, in the order of the list
\* as it is when the tick begins ...
Pending(T) == {t \in Range(T.active) : ~ T.expired[t]}

NextDue(T, due, t) ==
    \E i \in DOMAIN T.active :
        /\ T.active[i] = t /\ t \in due
        /\ \A j \in 1 .. i - 1 : T.active[j] \notin due

timer_has_expired(T, t) == [T EXCEPT !.expired[t] = TRUE]

\* ... and then returns the expired ones to the pool.
timer_deactivate(T) ==
    LET Expired(t) == T.expired[t]
        Live(t) == ~ T.expired[t]
    IN  [T EXCEPT !.passive = Reverse(SelectSeq(T.active, Expired)) \o @,
                  !.active = SelectSeq(@, Live)]

=============================================================================
