--------------------------- MODULE Detector_proofs ---------------------------
(***************************************************************************)
(* Proofs about the attack detector, for any thresholds, any weight of the *)
(* average and any number of calm seconds that an attack outlasts.         *)
(***************************************************************************)
EXTENDS Detector, TLAPS

USE DetectorAssumption

(***************************************************************************)
(* The inductive invariant.  Starts are paid for by calm seconds: between  *)
(* two starts one of them ended the attack, and they are counted until the *)
(* proxy is stopped.  A count that went on while it was stopped may be     *)
(* beyond SlowDowns when the next attack begins; then the first calm       *)
(* second stops it, and there is no second start.  The defence is stopped  *)
(* only together with the proxy, so it was started as often at least.      *)
(***************************************************************************)
PaidStarts(starts) ==
    /\ stop_tb_flag = 1 => starts = 0
    /\ stop_tb_flag = 0 /\ isAttack =>
          starts > 0 /\ starts <= count_slow_down + 1 /\ starts <= SlowDowns + 1
    /\ stop_tb_flag = 0 /\ ~ isAttack =>
          starts <= count_slow_down /\ count_slow_down <= SlowDowns

Paid == PaidStarts(since["proxy"]) /\ since["proxy"] <= since["defence"]

IInv == TypeOK /\ Paid

\* What a step does with what the two halves share.
Ordered ==
    \/ UNCHANGED flags
    \/ Attack
    \/ \E services \in {Service, {"proxy"}} :
          isAttack /\ SlowDown(services) /\ isAttack' \in {FALSE, isAttack}

-----------------------------------------------------------------------------
(* Arithmetic. *)
LEMMA Products == ASSUME NEW a \in Nat, NEW b \in Nat PROVE a * b \in Nat
  OBVIOUS

LEMMA Monotone ==
    ASSUME NEW a \in Nat, NEW b \in Nat, NEW c \in Nat, a <= b
    PROVE  c * a <= c * b
<1>1. PICK d \in Nat : b = a + d
  <2>1. b - a \in Nat /\ b = a + (b - a)
    OBVIOUS
  <2> QED
    BY <2>1
<1>2. c * b = c * a + c * d
  BY <1>1
<1> QED
  BY <1>2, Products

\* The average is a number of units, and at most what the rule says.
LEMMA AveragedType ==
    ASSUME NEW avg \in Nat, NEW cur \in Nat
    PROVE  /\ Averaged(avg, cur) \in Nat
           /\ avg > 0 => 10 * Averaged(avg, cur) <= alpha * avg + (10 - alpha) * (cur * Unit)
<1> DEFINE x == alpha * avg + (10 - alpha) * (cur * Unit)
<1>1. cur * Unit \in Nat /\ alpha \in Nat /\ 10 - alpha \in Nat
  BY Products
<1>2. alpha * avg \in Nat /\ (10 - alpha) * (cur * Unit) \in Nat
  BY <1>1, Products
<1>3. x \in Nat
  BY <1>2
<1>4. (10 - alpha) * cur * Unit = (10 - alpha) * (cur * Unit)
  BY <1>1
<1> HIDE DEF x
<1>5. x \div 10 \in Nat /\ 10 * (x \div 10) <= x
  BY <1>3
<1>6. avg > 0 => Averaged(avg, cur) = x \div 10
  BY <1>4 DEF Averaged, x
<1>7. avg = 0 => Averaged(avg, cur) \in Nat
  BY <1>1 DEF Averaged
<1> QED
  BY <1>5, <1>6, <1>7 DEF x

-----------------------------------------------------------------------------
LEMMA StepOrdered == [Next]_vars => Ordered
  BY Zenon DEF Next, detect, detect_stop, Within, Judged, Calm, vars, Ordered

LEMMA LearnTyped ==
    ASSUME TypeOK, NEW k \in Kind, NEW cur \in Nat, Learn(k, cur)
    PROVE  avgSeqs' \in [Kind -> Nat]
<1>1. Averaged(avgSeqs[k], cur) \in Nat
  BY AveragedType DEF TypeOK
<1> QED
  BY <1>1 DEF TypeOK, Learn

\* What a step does with the counters and averages.
LEMMA StepCounts ==
    ASSUME TypeOK, [Next]_vars
    PROVE  /\ curSeqs' \in [Kind -> Nat]
           /\ lastDet' \in [Kind -> BOOLEAN]
           /\ \/ avgSeqs' = avgSeqs
              \/ \E k \in Kind : Over(k)
<1>1. ASSUME NEW k \in Kind, Within(k)
      PROVE  curSeqs' \in [Kind -> Nat] /\ lastDet' \in [Kind -> BOOLEAN] /\ avgSeqs' = avgSeqs
  BY <1>1 DEF Within, TypeOK
<1>2. ASSUME NEW k \in Kind, Over(k)
      PROVE  curSeqs' \in [Kind -> Nat] /\ lastDet' \in [Kind -> BOOLEAN]
  BY <1>2 DEF Over, TypeOK
<1>3. (\E k \in Kind : Within(k) \/ Over(k)) \/ UNCHANGED vars
  BY DEF Next, detect, detect_stop, Kind
<1> QED
  BY <1>1, <1>2, <1>3 DEF vars, TypeOK

\* The numbers among the flags.
Numbers ==
    /\ stop_tb_flag \in {0, 1} /\ count_slow_down \in Nat
    /\ since \in [Service -> Nat] /\ stops \in [Service -> Nat]

LEMMA Services == "defence" \in Service /\ "proxy" \in Service
  BY DEF Service

LEMMA Initially == Init => IInv
<1> SUFFICES ASSUME Init PROVE IInv
  OBVIOUS
<1>1. ~ isAttack /\ isAttack \in BOOLEAN /\ lastDet \in [Kind -> BOOLEAN]
  BY Zenon DEF Init
<1>2. curSeqs \in [Kind -> Nat] /\ avgSeqs \in [Kind -> Nat]
  BY DEF Init
<1>3. stop_tb_flag = 0 /\ count_slow_down = 0
  BY DEF Init
<1>4. since = [s \in Service |-> 0] /\ stops = [s \in Service |-> 0]
  BY DEF Init
<1>5. Numbers
  BY <1>3, <1>4 DEF Numbers
<1>6. since["proxy"] = 0 /\ since["defence"] = 0
  BY <1>4, Services
<1>7. Paid
  BY <1>1, <1>3, <1>6 DEF Paid, PaidStarts
<1> QED
  BY <1>1, <1>2, <1>5, <1>7, Zenon DEF IInv, TypeOK, Numbers

\* What an order does with the numbers of both services.
LEMMA Triggered ==
    ASSUME Numbers, triggerFrade
    PROVE  /\ since' \in [Service -> Nat] /\ stops' \in [Service -> Nat]
           /\ \A s \in Service : since'[s] = since[s] + 1 /\ stops'[s] = 0
  BY DEF Numbers, triggerFrade

LEMMA Stopped ==
    ASSUME Numbers, NEW services \in {Service, {"proxy"}}, StopOf(services)
    PROVE  /\ since' \in [Service -> Nat] /\ stops' \in [Service -> Nat]
           /\ since'["proxy"] = 0 /\ stops'["proxy"] = stops["proxy"] + 1
           /\ \/ since'["defence"] = 0 /\ stops'["defence"] = stops["defence"] + 1
              \/ since'["defence"] = since["defence"] /\ stops'["defence"] = stops["defence"]
<1>1. since' \in [Service -> Nat] /\ stops' \in [Service -> Nat]
  BY DEF Numbers, StopOf
<1>2. "proxy" \in services
  BY Services
<1>3. since'["proxy"] = 0 /\ stops'["proxy"] = stops["proxy"] + 1
  BY <1>2, Services DEF StopOf
<1>4. CASE "defence" \in services
  BY <1>1, <1>3, <1>4, Services DEF StopOf
<1>5. CASE "defence" \notin services
  BY <1>1, <1>3, <1>5, Services DEF StopOf
<1> QED
  BY <1>4, <1>5

\* Attacks and calm seconds keep the flags typed and the starts paid for.
LEMMA OrderedKeeps ==
    ASSUME IInv, Ordered
    PROVE  isAttack' \in BOOLEAN /\ Numbers' /\ Paid'
<1>1. Numbers /\ isAttack \in BOOLEAN
  BY Zenon DEF IInv, TypeOK, Numbers
<1>a. since["proxy"] \in Nat /\ since["defence"] \in Nat /\ count_slow_down \in Nat
  BY <1>1, Services DEF Numbers
<1>b. PaidStarts(since["proxy"]) /\ since["proxy"] <= since["defence"]
  BY Zenon DEF IInv, Paid
<1>2. CASE UNCHANGED flags
  BY <1>1, <1>2, Zenon DEF flags, orders, IInv, Numbers, Paid, PaidStarts
<1>3. CASE Attack
  <2>1. isAttack' /\ isAttack' \in BOOLEAN /\ count_slow_down' = count_slow_down
    BY <1>3, Zenon DEF Attack
  <2>2. CASE isAttack
    <3>1. since' = since /\ stops' = stops /\ stop_tb_flag' = stop_tb_flag
      BY <1>3, <2>2, Zenon DEF Attack, orders
    <3> QED
      BY <1>1, <2>1, <2>2, <3>1, Zenon DEF IInv, Numbers, Paid, PaidStarts
  <2>3. CASE ~ isAttack
    <3>1. triggerFrade /\ stop_tb_flag' = 0
      BY <1>3, <2>3, Zenon DEF Attack
    <3>2. /\ since' \in [Service -> Nat] /\ stops' \in [Service -> Nat]
          /\ since'["proxy"] = since["proxy"] + 1
          /\ since'["defence"] = since["defence"] + 1
      BY <1>1, <3>1, Triggered, Services
    <3>3. since["proxy"] <= count_slow_down /\ since["proxy"] <= SlowDowns
      BY <1>1, <1>a, <1>b, <2>3 DEF Numbers, PaidStarts
    <3>4. Numbers'
      BY <1>1, <2>1, <3>1, <3>2 DEF Numbers
    <3>5. PaidStarts(since["proxy"])'
      BY <1>a, <2>1, <3>1, <3>2, <3>3 DEF PaidStarts
    <3>6. Paid'
      BY <1>a, <1>b, <3>2, <3>5 DEF Paid
    <3> QED
      BY <2>1, <3>4, <3>6
  <2> QED
    BY <2>2, <2>3
<1>4. ASSUME NEW services \in {Service, {"proxy"}},
             isAttack /\ SlowDown(services) /\ isAttack' \in {FALSE, isAttack}
      PROVE  isAttack' \in BOOLEAN /\ Numbers' /\ Paid'
  <2>1. isAttack' \in BOOLEAN
    BY <1>1, <1>4, Zenon
  <2>2. CASE stop_tb_flag = 0 /\ count_slow_down + 1 > SlowDowns
    <3>1. StopOf(services) /\ stop_tb_flag' = 1 /\ count_slow_down' = 0
      BY <1>4, <2>2, Zenon DEF SlowDown
    <3>2. /\ since' \in [Service -> Nat] /\ stops' \in [Service -> Nat]
          /\ since'["proxy"] = 0
      BY <1>1, <3>1, Stopped
    <3>3. since'["defence"] \in Nat
      BY <3>2, Services
    <3>4. Numbers' /\ Paid'
      BY <3>1, <3>2, <3>3 DEF Numbers, Paid, PaidStarts
    <3> QED
      BY <2>1, <3>4
  <2>3. CASE ~ (stop_tb_flag = 0 /\ count_slow_down + 1 > SlowDowns)
    <3>1. /\ since' = since /\ stops' = stops /\ stop_tb_flag' = stop_tb_flag
          /\ count_slow_down' = count_slow_down + 1
      BY <1>4, <2>3, Zenon DEF SlowDown, orders
    <3>2. Numbers'
      BY <1>1, <3>1 DEF Numbers
    <3>3. stop_tb_flag = 1 => since["proxy"] = 0
      BY <1>b DEF PaidStarts
    <3>4. stop_tb_flag = 0 =>
             /\ since["proxy"] > 0 /\ since["proxy"] <= count_slow_down + 1
             /\ since["proxy"] <= SlowDowns + 1
      BY <1>4, <1>b DEF PaidStarts
    <3>5. stop_tb_flag = 0 => count_slow_down + 1 <= SlowDowns
      BY <1>1, <2>3 DEF Numbers
    <3>6. PaidStarts(since["proxy"])'
      BY <1>a, <3>1, <3>3, <3>4, <3>5 DEF PaidStarts
    <3>7. Paid'
      BY <1>b, <3>1, <3>6 DEF Paid
    <3> QED
      BY <2>1, <3>2, <3>7
  <2> QED
    BY <2>2, <2>3
<1> QED
  BY <1>2, <1>3, <1>4 DEF Ordered

LEMMA Step == IInv /\ [Next]_vars => IInv'
<1> SUFFICES ASSUME IInv, [Next]_vars PROVE IInv'
  OBVIOUS
<1>1. avgSeqs' \in [Kind -> Nat]
  <2>1. ASSUME NEW k \in Kind, Over(k) PROVE avgSeqs' \in [Kind -> Nat]
    <3>1. curSeqs[k] + 1 \in Nat
      BY DEF IInv, TypeOK
    <3> QED
      BY <2>1, <3>1, LearnTyped DEF Over, IInv
  <2> QED
    BY <2>1, StepCounts DEF IInv, TypeOK
<1> QED
  BY <1>1, StepOrdered, OrderedKeeps, StepCounts, Zenon DEF IInv, TypeOK, Numbers

LEMMA Invariance == Spec => []IInv
  BY Initially, Step, PTL DEF Spec

\* The counters, averages and flags keep their types: an average is never
\* negative, and the flag is 0 or 1.
THEOREM Typing == Spec => []TypeOK
<1>1. IInv => TypeOK
  BY DEF IInv
<1> QED
  BY <1>1, Invariance, PTL

-----------------------------------------------------------------------------
\* What a step orders of a service is a start, or a stop that a start went before.
LEMMA StepOrders ==
    ASSUME IInv, [Next]_vars
    PROVE  /\ [Defence!Start \/ Defence!Stop]_<< since["defence"], stops["defence"] >>
           /\ [Proxy!Start \/ Proxy!Stop]_<< since["proxy"], stops["proxy"] >>
<1> USE DEF Defence!Start, Defence!Stop, Proxy!Start, Proxy!Stop
<1>1. Numbers /\ Ordered
  BY StepOrdered, Zenon DEF IInv, TypeOK, Numbers
<1>2. CASE UNCHANGED << since, stops >>
  BY <1>2
<1>3. CASE triggerFrade
  BY <1>1, <1>3, Triggered, Services
<1>4. ASSUME NEW services \in {Service, {"proxy"}}, StopOf(services), isAttack, stop_tb_flag = 0
      PROVE  /\ Defence!Start \/ Defence!Stop \/ UNCHANGED << since["defence"], stops["defence"] >>
             /\ Proxy!Start \/ Proxy!Stop
  <2>1. since["proxy"] > 0 /\ since["proxy"] <= since["defence"]
    BY <1>4 DEF IInv, Paid, PaidStarts
  <2>2. since["proxy"] \in Nat /\ since["defence"] \in Nat
    BY <1>1, Services DEF Numbers
  <2>3. since["defence"] > 0
    BY <2>1, <2>2
  <2> QED
    BY <1>1, <1>4, <2>1, <2>3, Stopped
<1>5. \/ UNCHANGED << since, stops >>
      \/ triggerFrade
      \/ \E services \in {Service, {"proxy"}} :
            StopOf(services) /\ isAttack /\ stop_tb_flag = 0
  BY <1>1, Zenon DEF Ordered, flags, orders, Attack, SlowDown
<1> QED
  BY <1>2, <1>3, <1>4, <1>5

\* The detector never stops a service that it has not started since it stopped it
\* the last time, be it by the half that stops both or by the one that stops the
\* proxy alone; and between two stops of the proxy it is started at most once for
\* each calm second that did not stop it, and once more.
THEOREM OrdersKept == Spec => KeepsOrders
<1>1. Init => Defence!OrdersInit /\ Proxy!OrdersInit
  BY Services DEF Init, Defence!OrdersInit, Proxy!OrdersInit
<1>2. IInv /\ [Next]_vars =>
         /\ [Defence!Start \/ Defence!Stop]_<< since["defence"], stops["defence"] >>
         /\ [Proxy!Start \/ Proxy!Stop]_<< since["proxy"], stops["proxy"] >>
  BY StepOrders
<1>3. IInv => since["proxy"] <= SlowDowns + 1
  <2> SUFFICES ASSUME IInv PROVE since["proxy"] <= SlowDowns + 1
    OBVIOUS
  <2>1. since["proxy"] \in Nat /\ stop_tb_flag \in {0, 1} /\ count_slow_down \in Nat
    BY Services DEF IInv, TypeOK
  <2> QED
    BY <2>1 DEF IInv, Paid, PaidStarts
<1> QED
  BY <1>1, <1>2, <1>3, Invariance, PTL
  DEF Spec, KeepsOrders, Defence!OrdersSpec, Proxy!OrdersSpec

-----------------------------------------------------------------------------
\* A second that the averages follow was no spike.
LEMMA NoSpikeLearned ==
    [Next]_vars => \/ avgSeqs' = avgSeqs
                   \/ \E k \in Kind : Over(k) /\ ~ Spike(k, curSeqs[k] + 1)
<1> SUFFICES ASSUME [Next]_vars, avgSeqs' # avgSeqs
             PROVE  \E k \in Kind : Over(k) /\ ~ Spike(k, curSeqs[k] + 1)
  OBVIOUS
<1>1. \A k \in Kind : ~ Within(k)
  BY DEF Within
<1>2. ~ UNCHANGED vars
  BY DEF vars
<1>3. \A k \in Kind : Over(k) => ~ isAttack'
  BY DEF Over, Learn
<1>4. ~ Attack \/ isAttack'
  BY Zenon DEF Attack
<1>5. \A k \in Kind : Over(k) => ~ Attack
  BY <1>3, <1>4
<1>6. CASE detect
  <2>1. "SYN" \in Kind
    BY DEF Kind
  <2>2. Over("SYN") /\ ~ Spike("SYN", curSeqs["SYN"] + 1)
    BY <1>1, <1>5, <1>6, <2>1, Zenon DEF detect, Judged, Calm
  <2> QED
    BY <2>1, <2>2
<1>7. CASE detect_stop
  <2>1. "PSH" \in Kind
    BY DEF Kind
  <2>2. Over("PSH") /\ ~ Spike("PSH", curSeqs["PSH"] + 1)
    BY <1>1, <1>5, <1>7, <2>1, Zenon DEF detect_stop, Judged, Calm
  <2> QED
    BY <2>1, <2>2
<1> QED
  BY <1>2, <1>6, <1>7 DEF Next

\* An attack is never learned: neither average grows by more than the attack
\* threshold allows, whatever the two halves see and conclude for each other.
THEOREM AttackNotLearned == Spec => BaselineBounded
<1> DEFINE factor == alpha + (10 - alpha) * attackThresh
           bounded == \A k \in Kind : avgSeqs[k] > 0 =>
                         10 * avgSeqs'[k] <= factor * avgSeqs[k]
<1>1. factor \in Nat /\ 10 <= factor
  <2>1. (10 - alpha) * 1 <= (10 - alpha) * attackThresh
    BY Monotone
  <2>2. (10 - alpha) * attackThresh \in Nat
    BY Products
  <2> QED
    BY <2>1, <2>2
<1>2. \A avg \in Nat : 10 * avg <= factor * avg
  <2> HIDE DEF factor
  <2> SUFFICES ASSUME NEW avg \in Nat PROVE 10 * avg <= factor * avg
    OBVIOUS
  <2>1. avg * 10 <= avg * factor
    BY <1>1, Monotone
  <2> QED
    BY <1>1, <2>1
<1>3. ASSUME NEW avg \in Nat, NEW cur \in Nat, avg > 0, cur * Unit <= attackThresh * avg
      PROVE  10 * Averaged(avg, cur) <= factor * avg
  <2>1. cur * Unit \in Nat /\ attackThresh * avg \in Nat
    BY Products
  <2>2. (10 - alpha) * (cur * Unit) <= (10 - alpha) * (attackThresh * avg)
    BY <1>3, <2>1, Monotone
  <2>3. 10 * Averaged(avg, cur) <= alpha * avg + (10 - alpha) * (cur * Unit)
    BY <1>3, AveragedType
  <2>4. alpha * avg + (10 - alpha) * (attackThresh * avg) = factor * avg
    OBVIOUS
  <2>5. /\ Averaged(avg, cur) \in Nat /\ alpha * avg \in Nat
        /\ (10 - alpha) * (cur * Unit) \in Nat
        /\ (10 - alpha) * (attackThresh * avg) \in Nat
    <3>1. Averaged(avg, cur) \in Nat
      BY AveragedType
    <3>2. alpha \in Nat /\ 10 - alpha \in Nat
      OBVIOUS
    <3> QED
      BY <2>1, <3>1, <3>2, Products
  <2> HIDE DEF factor
  <2> QED
    BY <2>2, <2>3, <2>4, <2>5
<1>4. TypeOK /\ [Next]_vars => bounded
  <2> SUFFICES ASSUME TypeOK, [Next]_vars, NEW j \in Kind, avgSeqs[j] > 0
               PROVE  10 * avgSeqs'[j] <= factor * avgSeqs[j]
    BY DEF bounded
  <2> HIDE DEF factor, bounded
  <2>1. curSeqs \in [Kind -> Nat] /\ avgSeqs \in [Kind -> Nat]
    BY Zenon DEF TypeOK
  <2>2. CASE avgSeqs'[j] = avgSeqs[j]
    BY <1>2, <2>1, <2>2
  <2>3. CASE avgSeqs'[j] # avgSeqs[j]
    <3>1. Over(j) /\ ~ Spike(j, curSeqs[j] + 1)
      <4>1. PICK k \in Kind : Over(k) /\ ~ Spike(k, curSeqs[k] + 1)
        BY <2>3, NoSpikeLearned
      <4>2. k = j
        BY <2>1, <2>3, <4>1 DEF Over, Learn
      <4> QED
        BY <4>1, <4>2
    <3>2. avgSeqs'[j] = Averaged(avgSeqs[j], curSeqs[j] + 1)
      BY <2>1, <2>3, <3>1 DEF Over, Learn
    <3>3. curSeqs[j] + 1 \in Nat /\ avgSeqs[j] \in Nat
      BY <2>1
    <3>4. (curSeqs[j] + 1) * Unit \in Nat /\ attackThresh * avgSeqs[j] \in Nat
      BY <3>3, Products
    <3>5. (curSeqs[j] + 1) * Unit <= attackThresh * avgSeqs[j]
      BY <3>1, <3>4 DEF Spike
    <3> QED
      BY <1>3, <3>2, <3>3, <3>5
  <2> QED
    BY <2>2, <2>3
<1> QED
  BY <1>4, Typing, PTL DEF Spec, BaselineBounded
=============================================================================
