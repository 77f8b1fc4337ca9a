---------------------------- MODULE RateLimiter ----------------------------
(***************************************************************************)
(* bridge_security.RateLimiter: one token bucket per API key, shared by the *)
(* handler threads of every POST.  allow() reads the clock first and takes *)
(* the lock afterwards, so a thread can bring a reading to the bucket that *)
(* is older than the bucket's last refill; and time.time() is a wall clock *)
(* that can be set back.  Time is counted in ticks and tokens in whole     *)
(* units of which a tick refills Rate and a request costs Cost: a float    *)
(* rate such as 0.5/s is a unit of half a token.                           *)
(***************************************************************************)
EXTENDS Integers

CONSTANTS
  Thread,     \* HTTP handler threads
  Key,        \* API keys that passed ApiKeyAuth.check, or "anonymous"
  Idle,       \* not a key: the thread is outside allow()
  Capacity,   \* bucket capacity
  Rate,       \* refill per tick
  Cost,       \* what one request costs
  MaxClock    \* bound on the clock readings

ASSUME IdleAssumption == Idle \notin Key
ASSUME CapacityAssumption == Capacity \in Nat
ASSUME RateAssumption == Rate \in Nat
ASSUME CostAssumption == Cost \in Nat \ {0}
ASSUME MaxClockAssumption == MaxClock \in Nat

VARIABLES
  clock,        \* time.time()
  tokens,       \* tokens[k] and last[k] are the bucket of key k;
  last,         \* b.last_refill
  buckets,      \* the keys that have a bucket
  wants, now,   \* a thread's key while it is inside allow(), and its `now`
  admitted,     \* history: the tokens spent on a key
  born          \* history: the reading a key's bucket was created with

vars == <<clock, tokens, last, buckets, wants, now, admitted, born>>

Lesser(a, b) == IF a <= b THEN a ELSE b

Init ==
  /\ clock \in 0..MaxClock
  /\ tokens = [k \in Key |-> 0]
  /\ last = [k \in Key |-> 0]
  /\ buckets = {}
  /\ wants = [h \in Thread |-> Idle]
  /\ now = [h \in Thread |-> 0]
  /\ admitted = [k \in Key |-> 0]
  /\ born = [k \in Key |-> 0]

(* The clock is read before the lock is taken.                             *)
ReadClock(h, k) ==
  /\ wants[h] = Idle
  /\ wants' = [wants EXCEPT ![h] = k]
  /\ now' = [now EXCEPT ![h] = clock]
  /\ UNCHANGED <<clock, tokens, last, buckets, admitted, born>>

(* Faulty variant: a refill that follows the clock back, without the       *)
(* elapsed > 0 guard.                                                      *)
RefillFromAnyReading(level, since, at) ==
  [level |-> Lesser(Capacity, level + (IF at > since THEN at - since ELSE 0) * Rate),
   since |-> at]

(* The bucket after its refill at the reading `at`.                        *)
Refill(level, since, at) ==
  IF at > since
    THEN [level |-> Lesser(Capacity, level + (at - since) * Rate), since |-> at]
    ELSE [level |-> level, since |-> since]

(* The part of allow() under the lock: create a full bucket for a new key, *)
(* refill it, and spend Cost tokens or refuse.                             *)
Decide(h) ==
  LET k == wants[h]
      new == k \notin buckets
      b == Refill(IF new THEN Capacity ELSE tokens[k],
                  IF new THEN now[h] ELSE last[k], now[h])
      spent == IF b.level >= Cost THEN Cost ELSE 0
  IN  /\ k # Idle
      /\ buckets' = buckets \cup {k}
      /\ born' = IF new THEN [born EXCEPT ![k] = now[h]] ELSE born
      /\ tokens' = [tokens EXCEPT ![k] = b.level - spent]
      /\ last' = [last EXCEPT ![k] = b.since]
      /\ admitted' = [admitted EXCEPT ![k] = @ + spent]
      /\ wants' = [wants EXCEPT ![h] = Idle]
      /\ UNCHANGED <<clock, now>>

(* The wall clock advances, or is set to any other reading.                *)
SetClock ==
  /\ clock' \in 0..MaxClock
  /\ UNCHANGED <<tokens, last, buckets, wants, now, admitted, born>>

Next ==
  \/ \E h \in Thread : Decide(h) \/ \E k \in Key : ReadClock(h, k)
  \/ SetClock

Spec == Init /\ [][Next]_vars

-----------------------------------------------------------------------------
(* The buckets' types, and the level of a bucket between 0 and Capacity.   *)
TypeOK ==
  /\ clock \in 0..MaxClock
  /\ tokens \in [Key -> 0..Capacity]
  /\ last \in [Key -> 0..MaxClock]
  /\ buckets \subseteq Key
  /\ wants \in [Thread -> Key \cup {Idle}]
  /\ now \in [Thread -> 0..MaxClock]
  /\ admitted \in [Key -> Nat]
  /\ born \in [Key -> 0..MaxClock]

(* The promise of the limiter: whatever stale readings the threads bring   *)
(* and wherever the clock jumps, a key has spent at most its burst plus    *)
(* the refill of the time its bucket has seen, so no interval is credited  *)
(* twice.                                                                  *)
RateBound ==
  \A k \in buckets : admitted[k] <= Capacity + Rate * (last[k] - born[k])

(* What makes RateBound inductive: tokens in the bucket are part of the    *)
(* same budget.                                                            *)
BudgetInv ==
  \A k \in buckets :
    /\ born[k] <= last[k]
    /\ admitted[k] + tokens[k] <= Capacity + Rate * (last[k] - born[k])
=============================================================================
