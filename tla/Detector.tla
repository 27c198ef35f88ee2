------------------------------ MODULE Detector ------------------------------
(***************************************************************************)
(* The attack detector (FRADE/detector.py).  It watches the packets that   *)
(* come in: every second it compares the number of connection requests     *)
(* (SYN), and apart from them the number of packets with data (PSH), with  *)
(* a moving average, and starts and stops the defence.  The two have       *)
(* counters and averages of their own and share what they conclude:        *)
(* isAttack, stop_tb_flag and count_slow_down.                             *)
(*                                                                         *)
(* It is given the arguments of FRADE (--frade): each attack then starts   *)
(* the defence, which is FRADE and dyn4 as far as there are arguments for  *)
(* it, and the take-a-break proxy.  One half stops both and the other one  *)
(* the proxy alone.                                                        *)
(*                                                                         *)
(* Averages are floating-point numbers in the code; here they are whole    *)
(* numbers of units, Unit of them to a packet, rounded down.               *)
(***************************************************************************)
EXTENDS Integers

CONSTANTS
    attackThresh, stopThresh,   \* factors of the average: 4 and 2
    alpha,                      \* tenths of the old average in the new one: 9
    SlowDowns,                  \* calm seconds that do not yet end the attack: 5
    Unit,
    MaxSeqs,                    \* bound: the packets of a kind in a second
    MaxCalm,                    \* bound: the calm seconds that are counted
    MaxTriggers                 \* bound: the starts since the defence was stopped

ASSUME DetectorAssumption ==
    /\ attackThresh \in Nat \ {0} /\ stopThresh \in Nat \ {0}
    /\ alpha \in 0 .. 10
    /\ SlowDowns \in Nat /\ MaxSeqs \in Nat /\ MaxCalm \in Nat /\ MaxTriggers \in Nat
    /\ Unit \in Nat \ {0}

Kind == {"SYN", "PSH"}
Service == {"defence", "proxy"}

VARIABLES
    curSeqs, avgSeqs, lastDet,   \* by kind; lastDet is whether a second has begun
    isAttack, stop_tb_flag, count_slow_down,
    since, stops                 \* history, by service: the starts since its last stop
                                 \* and the stops since its last start

orders == << since, stops >>
flags == << isAttack, stop_tb_flag, count_slow_down, orders >>
vars == << curSeqs, avgSeqs, lastDet, flags >>

TypeOK ==
    /\ curSeqs \in [Kind -> Nat]
    /\ avgSeqs \in [Kind -> Nat]
    /\ lastDet \in [Kind -> BOOLEAN]
    /\ isAttack \in BOOLEAN
    /\ stop_tb_flag \in {0, 1}
    /\ count_slow_down \in Nat
    /\ since \in [Service -> Nat]
    /\ stops \in [Service -> Nat]

Init ==
    /\ curSeqs = [k \in Kind |-> 0]
    /\ avgSeqs = [k \in Kind |-> 0]
    /\ lastDet = [k \in Kind |-> FALSE]
    /\ isAttack = FALSE
    /\ stop_tb_flag = 0
    /\ count_slow_down = 0
    /\ since = [s \in Service |-> 0]
    /\ stops = [s \in Service |-> 0]

-----------------------------------------------------------------------------
Spike(k, cur) == cur * Unit > attackThresh * avgSeqs[k] /\ avgSeqs[k] > 0

Calm(k, cur) == ~ Spike(k, cur) /\ isAttack /\ cur * Unit < stopThresh * avgSeqs[k]

\* Every attack starts both services.
triggerFrade ==
    /\ since["defence"] < MaxTriggers
    /\ since' = [s \in Service |-> since[s] + 1]
    /\ stops' = [s \in Service |-> 0]

\* The detector stops some of the services, whether they run or not.
StopOf(services) ==
    /\ since' = [s \in Service |-> IF s \in services THEN 0 ELSE since[s]]
    /\ stops' = [s \in Service |-> IF s \in services THEN stops[s] + 1 ELSE stops[s]]

\* triggerFrade, unless the attack is known.
Attack ==
    /\ isAttack' = TRUE
    /\ IF isAttack THEN UNCHANGED << stop_tb_flag, orders >>
                   ELSE stop_tb_flag' = 0 /\ triggerFrade
    /\ UNCHANGED count_slow_down

\* Mutant: the flag does not tell that the services were stopped.
SlowDownKeepsFlag(services) ==
    /\ count_slow_down < MaxCalm
    /\ IF stop_tb_flag = 0 /\ count_slow_down + 1 > SlowDowns
       THEN /\ StopOf(services)
            /\ count_slow_down' = 0
       ELSE count_slow_down' = count_slow_down + 1 /\ UNCHANGED orders
    /\ UNCHANGED stop_tb_flag

\* A calm second: one more than SlowDowns of them stop the services, once.
SlowDown(services) ==
    /\ count_slow_down < MaxCalm
    /\ IF stop_tb_flag = 0 /\ count_slow_down + 1 > SlowDowns
       THEN /\ StopOf(services)
            /\ count_slow_down' = 0
            /\ stop_tb_flag' = 1
       ELSE /\ count_slow_down' = count_slow_down + 1
            /\ UNCHANGED << stop_tb_flag, orders >>

Averaged(avg, cur) ==
    IF avg = 0 THEN cur * Unit ELSE (alpha * avg + (10 - alpha) * cur * Unit) \div 10

\* Mutant: the average follows the traffic in an attack too.
LearnAlways(k, cur) == avgSeqs' = [avgSeqs EXCEPT ![k] = Averaged(@, cur)]

\* The end of a second: what is learned depends on isAttack as it is by then.
Learn(k, cur) ==
    avgSeqs' = IF isAttack' THEN avgSeqs ELSE [avgSeqs EXCEPT ![k] = Averaged(@, cur)]

\* A packet within the second; the first one of all begins it.
Within(k) ==
    /\ curSeqs[k] < MaxSeqs
    /\ curSeqs' = [curSeqs EXCEPT ![k] = @ + 1]
    /\ lastDet' = [lastDet EXCEPT ![k] = TRUE]
    /\ UNCHANGED << avgSeqs, flags >>

\* The first packet after a second closes it, and is counted in it.
Over(k) ==
    /\ lastDet[k]
    /\ curSeqs[k] < MaxSeqs
    /\ curSeqs' = [curSeqs EXCEPT ![k] = 0]
    /\ Learn(k, curSeqs[k] + 1)
    /\ UNCHANGED lastDet

Judged(k, cur) ==
    \/ Spike(k, cur) /\ Attack
    \/ ~ Spike(k, cur) /\ ~ Calm(k, cur) /\ UNCHANGED flags

\* New connections: the first calm second ends the attack, and its count may stop
\* the defence and the proxy.
detect ==
    \/ Within("SYN")
    \/ /\ LET cur == curSeqs["SYN"] + 1
          IN  \/ Judged("SYN", cur)
              \/ Calm("SYN", cur) /\ SlowDown(Service) /\ isAttack' = FALSE
       /\ Over("SYN")

\* Packets with data: calm seconds are counted but do not end the attack, and their
\* count may stop the proxy alone.
detect_stop ==
    \/ Within("PSH")
    \/ /\ LET cur == curSeqs["PSH"] + 1
          IN  \/ Judged("PSH", cur)
              \/ Calm("PSH", cur) /\ SlowDown({"proxy"}) /\ UNCHANGED isAttack
       /\ Over("PSH")

Next == detect \/ detect_stop

Spec == Init /\ [][Next]_vars

-----------------------------------------------------------------------------
\* The detector keeps to the orders the scripts may rely on, though each of its
\* two halves sees only its own packets, the attack is forgotten at the first calm
\* second, calm seconds are counted across attacks, and one half stops the proxy
\* alone with the flag that both share: neither service is ever stopped without a
\* start since its own last stop, and between two stops of the proxy it is started
\* at most once for each calm second that did not stop it, and once more.
Defence == INSTANCE Orders WITH since <- since["defence"], stops <- stops["defence"]
Proxy == INSTANCE Orders WITH since <- since["proxy"], stops <- stops["proxy"]

KeepsOrders ==
    /\ Defence!OrdersSpec
    /\ Proxy!OrdersSpec
    /\ [](since["proxy"] <= SlowDowns + 1)

\* An attack never becomes the normal traffic: neither average grows in a second by
\* more than a second just below the attack threshold makes it grow.
BaselineBounded ==
    [][\A k \in Kind : avgSeqs[k] > 0 =>
          10 * avgSeqs'[k] <= (alpha + (10 - alpha) * attackThresh) * avgSeqs[k]]_vars
=============================================================================
