------------------------------ MODULE RateLimit ------------------------------
(***************************************************************************)
(* The counter behind account_ratelimit, for one account and one endpoint: *)
(* a Redis key that a script increments and expires, or, in development, a *)
(* SimpleCache entry behind a process-local lock.  Time passes in ticks.   *)
(***************************************************************************)
EXTENDS Integers

CONSTANTS
  Limit,      \* the limit argument
  Interval,   \* the interval argument, in ticks
  MaxPerTick, \* bound on requests in one tick
  MaxCount    \* bound on the counter, which SimpleCache may never expire

ASSUME RateAssumption ==
  /\ Limit \in Nat \ {0}
  /\ Interval \in Nat \ {0}
  /\ MaxPerTick \in Nat
  /\ MaxCount \in Nat

VARIABLES
  redis,    \* TRUE if the cache backend has a _write_client
  count,    \* the value of the key, 0 if there is none
  left,     \* ticks until the key expires
  asked,    \* requests made in this tick and the i before it (history)
  served    \* requests let through in this tick and the i before it (history)

vars == <<redis, count, left, asked, served>>

Ages == 0..(Interval - 1)
Recent(f) == f[Interval - 1]
OneMore(f) == [i \in Ages |-> f[i] + 1]

\* Slip: EXPIRE on every INCR.
TtlAfterEvery == Interval

\* Slip: a worker dies between INCR and EXPIRE.
TtlAfterIncrOnly == left

\* The script sets the TTL only when the key is new; cache.set always does.
TtlAfter == IF redis /\ count > 0 THEN left ELSE Interval

\* Slip: off by one.
LetThroughOneMore(n) == n <= Limit + 1

LetThrough(n) == n <= Limit

\* increment_rate_limit and the comparison; a refused request counts too.
Request ==
  /\ asked[0] < MaxPerTick
  /\ count < MaxCount
  /\ count' = count + 1
  /\ left' = TtlAfter
  /\ asked' = OneMore(asked)
  /\ served' = IF LetThrough(count + 1) THEN OneMore(served) ELSE served
  /\ UNCHANGED redis

Older(f) == [i \in Ages |-> IF i = 0 THEN 0 ELSE f[i - 1]]

Tick ==
  /\ left' = IF left = 0 THEN 0 ELSE left - 1
  /\ count' = IF left <= 1 THEN 0 ELSE count
  /\ asked' = Older(asked)
  /\ served' = Older(served)
  /\ UNCHANGED redis

Init ==
  /\ redis \in BOOLEAN
  /\ count = 0
  /\ left = 0
  /\ asked = [i \in Ages |-> 0]
  /\ served = [i \in Ages |-> 0]

Next == Request \/ Tick

Spec == Init /\ [][Next]_vars

-----------------------------------------------------------------------------
\* A key that is there has a TTL: it cannot count forever.
TypeOK ==
  /\ redis \in BOOLEAN
  /\ count \in Nat
  /\ left \in 0..Interval
  /\ count = 0 <=> left = 0
  /\ {asked, served} \subseteq [Ages -> Nat]
  /\ \A i \in Ages : served[i] <= asked[i]

\* With Redis, a request is refused only if the account made Limit others in
\* the last Interval ("Limit is {limit} requests in {interval} seconds").
RefusedOnlyOverLimit ==
  [][redis /\ Request /\ served' = served => Recent(asked) >= Limit]_vars

\* No Interval, wherever it starts, sees more than two windows' worth of
\* requests let through.
ServedWithinTwoWindows == Recent(served) <= 2 * Limit
==============================================================================
