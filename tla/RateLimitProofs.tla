--------------------------- MODULE RateLimitProofs ---------------------------
(***************************************************************************)
(* The bounds of the rate limit, proved for every limit and interval and   *)
(* both back ends.                                                         *)
(***************************************************************************)
EXTENDS RateLimit, TLAPS

\* What an older span saw, a longer one saw too.
Monotone == \A i, j \in Ages : i <= j => asked[i] <= asked[j]

\* With Redis, the window began Interval - left ticks ago: the counter holds
\* only requests made since, and all those let through since.
RedisWindow ==
  /\ count > 0 => asked[Interval - left] >= count
  /\ count > 0 => \A i \in 0..(Interval - left) : i \in Ages =>
                    served[i] <= count /\ served[i] <= Limit
  /\ count = 0 => served[0] = 0
  /\ \A i \in Ages : served[i] <= Limit + count /\ served[i] <= 2 * Limit

\* SimpleCache starts the window again with every request: nothing is older
\* than the counter, and nothing was asked since the last request.
LocalWindow ==
  /\ \A i \in Ages : served[i] <= count /\ served[i] <= Limit
  /\ \A i \in Ages : i < Interval - left => served[i] = 0

IInv ==
  /\ TypeOK
  /\ Monotone
  /\ redis => RedisWindow
  /\ ~redis => LocalWindow

-----------------------------------------------------------------------------
LEMMA AgeFacts ==
  /\ Interval \in Nat \ {0} /\ Limit \in Nat \ {0}
  /\ Ages \subseteq Nat /\ 0 \in Ages /\ Interval - 1 \in Ages
  /\ \A i \in Nat : i \in Ages <=> i < Interval
BY RateAssumption DEF Ages

\* A request in the current tick lies in every span that reaches back from it.
LEMMA OneMoreFacts ==
  ASSUME NEW f \in [Ages -> Nat]
  PROVE  /\ OneMore(f) \in [Ages -> Nat]
         /\ \A i \in Ages : OneMore(f)[i] = f[i] + 1
         /\ OneMore(f) # f
<1>1. OneMore(f) \in [Ages -> Nat] /\ \A i \in Ages : OneMore(f)[i] = f[i] + 1
  BY DEF OneMore
<1>2. f[0] \in Nat /\ OneMore(f)[0] = f[0] + 1
  BY <1>1, AgeFacts
<1> QED
  BY <1>1, <1>2

\* After a tick a span of i ticks has seen what one of i - 1 had.
LEMMA OlderFacts ==
  ASSUME NEW f \in [Ages -> Nat]
  PROVE  /\ Older(f) \in [Ages -> Nat]
         /\ Older(f)[0] = 0
         /\ \A i \in Ages \ {0} : i - 1 \in Ages /\ Older(f)[i] = f[i - 1]
BY AgeFacts DEF Older

LEMMA Initial == Init => IInv
<1> SUFFICES ASSUME Init PROVE IInv
  OBVIOUS
<1>1. \A i \in Ages : asked[i] = 0 /\ served[i] = 0
  BY DEF Init
<1>2. TypeOK
  BY <1>1, AgeFacts DEF Init, TypeOK
<1> QED
  BY <1>1, <1>2, AgeFacts DEF Init, IInv, Monotone, RedisWindow, LocalWindow

LEMMA TypeFacts ==
  ASSUME TypeOK
  PROVE  /\ count \in Nat /\ left \in Nat /\ left <= Interval
         /\ count = 0 <=> left = 0
         /\ asked \in [Ages -> Nat] /\ served \in [Ages -> Nat]
         /\ \A i \in Ages : asked[i] \in Nat /\ served[i] \in Nat
BY AgeFacts DEF TypeOK

\* The two ways a request changes the histories.
LEMMA RequestFacts ==
  ASSUME TypeOK, Request
  PROVE  /\ count' = count + 1 /\ left' = TtlAfter /\ redis' = redis
         /\ asked' \in [Ages -> Nat] /\ served' \in [Ages -> Nat]
         /\ \A i \in Ages : asked'[i] = asked[i] + 1
         /\ \/ count + 1 <= Limit /\ \A i \in Ages : served'[i] = served[i] + 1
            \/ count + 1 > Limit /\ served' = served
BY TypeFacts, OneMoreFacts, AgeFacts DEF Request, LetThrough

LEMMA RequestStep ==
  ASSUME IInv, Request
  PROVE  IInv'
<1>1. TypeOK
  BY DEF IInv
<1> USE AgeFacts
<1>2. TypeOK'
  <2>1. left' \in 0..Interval /\ left' # 0 /\ redis' \in BOOLEAN
    BY <1>1, RequestFacts, TypeFacts DEF TtlAfter, TypeOK
  <2>2. \A i \in Ages : served'[i] <= asked'[i]
    BY <1>1, RequestFacts, TypeFacts DEF TypeOK
  <2> QED
    BY <1>1, <2>1, <2>2, RequestFacts, TypeFacts DEF TypeOK
<1>3. Monotone'
  BY <1>1, RequestFacts, TypeFacts DEF IInv, Monotone
<1>4. ASSUME redis PROVE RedisWindow'
  <2>1. RedisWindow
    BY <1>4 DEF IInv
  <2>2. CASE count = 0
    <3>1. left' = Interval /\ count' = 1 /\ Interval - left' = 0
      BY <1>1, <2>2, RequestFacts DEF TtlAfter
    <3>2. asked'[0] >= 1 /\ served'[0] <= 1
      BY <1>1, <2>1, <2>2, RequestFacts, TypeFacts DEF RedisWindow
    <3>3. \A i \in Ages : served'[i] <= Limit + 1 /\ served'[i] <= 2 * Limit
      BY <1>1, <2>1, <2>2, RequestFacts, TypeFacts DEF RedisWindow
    <3>4. asked'[Interval - left'] >= count'
      BY <3>1, <3>2
    <3>5. \A i \in 0..(Interval - left') : i = 0
      BY <3>1
    <3>6. served'[0] <= count' /\ served'[0] <= Limit
      BY <1>1, <3>1, <3>2, RequestFacts, TypeFacts
    <3> QED
      BY <3>1, <3>3, <3>4, <3>5, <3>6 DEF RedisWindow
  <2>3. CASE count > 0
    <3>1. left' = left /\ count' = count + 1 /\ left > 0
      BY <1>1, <1>4, <2>3, RequestFacts, TypeFacts DEF TtlAfter
    <3>2. Interval - left \in Ages
      BY <1>1, <3>1, TypeFacts
    <3>3. asked'[Interval - left] >= count + 1
      BY <1>1, <2>1, <2>3, <3>2, RequestFacts, TypeFacts DEF RedisWindow
    <3>4. \A i \in 0..(Interval - left) : i \in Ages =>
            served'[i] <= count + 1 /\ served'[i] <= Limit
      BY <1>1, <2>1, <2>3, RequestFacts, TypeFacts DEF RedisWindow
    <3>5. \A i \in Ages : served'[i] <= Limit + (count + 1) /\ served'[i] <= 2 * Limit
      BY <1>1, <2>1, RequestFacts, TypeFacts DEF RedisWindow
    <3> QED
      BY <1>1, <2>3, <3>1, <3>3, <3>4, <3>5, TypeFacts DEF RedisWindow
  <2> QED
    BY <1>1, <2>2, <2>3, TypeFacts
<1>5. ASSUME ~redis PROVE LocalWindow'
  <2>1. left' = Interval /\ LocalWindow
    BY <1>1, <1>5, RequestFacts DEF TtlAfter, IInv
  <2>2. \A i \in Ages : served'[i] <= count + 1 /\ served'[i] <= Limit
    BY <1>1, <2>1, RequestFacts, TypeFacts DEF LocalWindow
  <2> QED
    BY <1>1, <2>1, <2>2, RequestFacts DEF LocalWindow
<1> QED
  BY <1>1, <1>2, <1>3, <1>4, <1>5, RequestFacts DEF IInv

LEMMA TickFacts ==
  ASSUME TypeOK, Tick
  PROVE  /\ redis' = redis
         /\ left' = IF left = 0 THEN 0 ELSE left - 1
         /\ count' = IF left <= 1 THEN 0 ELSE count
         /\ asked' \in [Ages -> Nat] /\ served' \in [Ages -> Nat]
         /\ asked'[0] = 0 /\ served'[0] = 0
         /\ \A i \in Ages \ {0} : /\ i - 1 \in Ages
                                  /\ asked'[i] = asked[i - 1]
                                  /\ served'[i] = served[i - 1]
BY TypeFacts, OlderFacts DEF Tick

LEMMA TickStep ==
  ASSUME IInv, Tick
  PROVE  IInv'
<1>1. TypeOK
  BY DEF IInv
<1> USE AgeFacts
<1>2. TypeOK'
  <2>1. left' \in 0..Interval /\ count' \in Nat /\ (count' = 0 <=> left' = 0)
    BY <1>1, TickFacts, TypeFacts
  <2>2. \A i \in Ages : served'[i] <= asked'[i]
    BY <1>1, TickFacts, TypeFacts DEF TypeOK
  <2> QED
    BY <1>1, <2>1, <2>2, TickFacts DEF TypeOK
<1>3. Monotone'
  <2> SUFFICES ASSUME NEW i \in Ages, NEW j \in Ages, i <= j
               PROVE  asked'[i] <= asked'[j]
    BY DEF Monotone
  <2>1. asked'[j] \in Nat
    BY <1>1, TickFacts
  <2>2. CASE i = 0
    BY <1>1, <2>1, <2>2, TickFacts
  <2>3. CASE i # 0
    BY <1>1, <2>3, TickFacts DEF IInv, Monotone
  <2> QED
    BY <2>2, <2>3
<1>4. ASSUME redis PROVE RedisWindow'
  <2>1. RedisWindow
    BY <1>4 DEF IInv
  <2>2. CASE left <= 1
    <3>1. \A i \in Ages : served'[i] <= Limit
      <4> TAKE i \in Ages
      <4>1. CASE i = 0
        BY <1>1, <4>1, TickFacts
      <4>2. CASE i # 0 /\ count > 0
        BY <1>1, <2>1, <2>2, <4>2, TickFacts, TypeFacts DEF RedisWindow
      <4>3. CASE i # 0 /\ count = 0
        BY <1>1, <2>1, <4>3, TickFacts, TypeFacts DEF RedisWindow
      <4> QED
        BY <1>1, <4>1, <4>2, <4>3, TypeFacts
    <3> QED
      BY <1>1, <2>2, <3>1, TickFacts, TypeFacts DEF RedisWindow
  <2>3. CASE left > 1
    <3>1. left' = left - 1 /\ count' = count /\ count > 0
      BY <1>1, <2>3, TickFacts, TypeFacts
    <3> DEFINE edge == Interval - left
    <3>2. /\ edge \in Ages /\ edge + 1 \in Ages \ {0} /\ Interval - left' = edge + 1
          /\ edge \in Nat
      BY <1>1, <2>3, <3>1, TypeFacts
    <3>3. asked'[edge + 1] >= count
      <4>1. asked'[edge + 1] = asked[(edge + 1) - 1] /\ (edge + 1) - 1 = edge
        BY <1>1, <3>2, TickFacts
      <4> QED
        BY <2>1, <3>1, <4>1 DEF RedisWindow
    <3>4. \A i \in 0..(edge + 1) : i \in Ages =>
            served'[i] <= count /\ served'[i] <= Limit
      <4> TAKE i \in 0..(edge + 1)
      <4> HAVE i \in Ages
      <4>1. CASE i = 0
        BY <1>1, <4>1, TickFacts, TypeFacts
      <4>2. CASE i # 0
        <5>1. i - 1 \in 0..edge /\ i - 1 \in Ages /\ served'[i] = served[i - 1]
          BY <1>1, <3>2, <4>2, TickFacts
        <5> QED
          BY <2>1, <3>1, <5>1 DEF RedisWindow
      <4> QED
        BY <4>1, <4>2
    <3>5. \A i \in Ages : served'[i] <= Limit + count /\ served'[i] <= 2 * Limit
      <4> TAKE i \in Ages
      <4>1. CASE i = 0
        BY <1>1, <4>1, TickFacts, TypeFacts
      <4>2. CASE i # 0
        BY <1>1, <2>1, <4>2, TickFacts DEF RedisWindow
      <4> QED
        BY <4>1, <4>2
    <3> HIDE DEF edge
    <3> QED
      BY <3>1, <3>2, <3>3, <3>4, <3>5 DEF RedisWindow
  <2> QED
    BY <1>1, <2>2, <2>3, TypeFacts
<1>5. ASSUME ~redis PROVE LocalWindow'
  <2> SUFFICES ASSUME NEW i \in Ages
               PROVE  /\ served'[i] <= count' /\ served'[i] <= Limit
                      /\ i < Interval - left' => served'[i] = 0
    BY DEF LocalWindow
  <2>1. LocalWindow
    BY <1>5 DEF IInv
  <2>2. CASE i = 0
    BY <1>1, <2>2, TickFacts, TypeFacts
  <2>3. CASE i # 0
    <3>1. i - 1 \in Ages /\ served'[i] = served[i - 1]
      BY <1>1, <2>3, TickFacts
    <3>2. served[i - 1] <= count /\ served[i - 1] <= Limit
      BY <2>1, <3>1 DEF LocalWindow
    <3>3. i - 1 < Interval - left => served[i - 1] = 0
      BY <2>1, <3>1 DEF LocalWindow
    <3> QED
      BY <1>1, <3>1, <3>2, <3>3, TickFacts, TypeFacts
  <2> QED
    BY <2>2, <2>3
<1> QED
  BY <1>1, <1>2, <1>3, <1>4, <1>5, TickFacts DEF IInv

LEMMA InvariantHolds == Spec => []IInv
<1>1. IInv /\ [Next]_vars => IInv'
  <2> SUFFICES ASSUME IInv, [Next]_vars PROVE IInv'
    OBVIOUS
  <2>1. CASE UNCHANGED vars
    BY <2>1 DEF vars, IInv, TypeOK, Monotone, RedisWindow, LocalWindow
  <2> QED
    BY <2>1, RequestStep, TickStep DEF Next
<1> QED
  BY <1>1, Initial, PTL DEF Spec

-----------------------------------------------------------------------------
(* Theorems.                                                               *)

\* A counter that is there always has a TTL, whichever back end keeps it.
THEOREM TypeCorrect == Spec => []TypeOK
BY InvariantHolds, PTL DEF IInv

\* With Redis, account_ratelimit refuses only an account that made Limit
\* requests in the last Interval.
THEOREM RefusalsAreDue == Spec => RefusedOnlyOverLimit
<1> DEFINE A == redis /\ Request /\ served' = served => Recent(asked) >= Limit
<1>1. IInv => A
  <2> SUFFICES ASSUME IInv, redis, Request, served' = served
               PROVE  Recent(asked) >= Limit
    OBVIOUS
  <2>1. TypeOK /\ Monotone /\ RedisWindow
    BY DEF IInv
  <2>2. count + 1 > Limit
    <3>1. served[0] \in Nat
      BY <2>1, AgeFacts, TypeFacts
    <3> QED
      BY <2>1, <3>1, AgeFacts, RequestFacts
  <2>3. count >= Limit /\ count > 0
    BY <2>1, <2>2, AgeFacts, TypeFacts
  <2>4. Interval - left \in Ages /\ Interval - left <= Interval - 1
    BY <2>1, <2>3, AgeFacts, TypeFacts
  <2>5. asked[Interval - left] >= Limit /\ asked[Interval - 1] >= asked[Interval - left]
    BY <2>1, <2>3, <2>4, AgeFacts, TypeFacts DEF RedisWindow, Monotone
  <2> QED
    BY <2>1, <2>4, <2>5, AgeFacts, TypeFacts DEF Recent
<1> HIDE DEF A
<1>2. IInv /\ [Next]_vars => [A]_vars
  BY <1>1
<1>3. [][A]_vars => RefusedOnlyOverLimit
  BY DEF A, RefusedOnlyOverLimit
<1> QED
  BY <1>2, <1>3, InvariantHolds, PTL DEF Spec

\* A span of Interval ticks meets at most two windows of the counter, so no
\* burst around an expiry gets more than twice the limit through.
THEOREM BurstsAreBounded == Spec => []ServedWithinTwoWindows
<1>1. IInv => ServedWithinTwoWindows
  <2> SUFFICES ASSUME IInv PROVE served[Interval - 1] <= 2 * Limit
    BY DEF ServedWithinTwoWindows, Recent
  <2>1. TypeOK
    BY DEF IInv
  <2> QED
    BY <2>1, AgeFacts, TypeFacts DEF IInv, RedisWindow, LocalWindow
<1> QED
  BY <1>1, InvariantHolds, PTL
=============================================================================
