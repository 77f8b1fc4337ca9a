-------------------------- MODULE RateLimiterProofs --------------------------
(* Proofs about RateLimiter, for every number of threads and keys and every *)
(* capacity, rate, cost and behaviour of the clock.                        *)
EXTENDS RateLimiter, TLAPS

(* A refill keeps a level within the capacity, never moves last_refill     *)
(* back, and adds at most Rate for each tick it moves last_refill on.      *)
LEMMA RefillFacts ==
  ASSUME NEW level \in 0..Capacity,
         NEW since \in 0..MaxClock,
         NEW at \in 0..MaxClock
  PROVE  LET b == Refill(level, since, at)
         IN  /\ b.level \in 0..Capacity
             /\ b.since \in 0..MaxClock
             /\ since <= b.since
             /\ b.level <= level + Rate * (b.since - since)
<1> USE CapacityAssumption, RateAssumption, MaxClockAssumption
<1>1. CASE at > since
  <2>1. (at - since) * Rate \in Nat
    BY <1>1
  <2>2. (at - since) * Rate = Rate * (at - since)
    BY <1>1
  <2>3. QED
    BY <1>1, <2>1, <2>2 DEF Refill, Lesser
<1>2. CASE ~(at > since)
  BY <1>2 DEF Refill
<1>3. QED
  BY <1>1, <1>2

(* The inductive invariant: BudgetInv counts the tokens still in a bucket   *)
(* against the same budget, and a key without a bucket has spent nothing.  *)
Unspent == \A k \in Key \ buckets : admitted[k] = 0

Inv == TypeOK /\ BudgetInv /\ Unspent

LEMMA InitInv == Init => Inv
BY CapacityAssumption, MaxClockAssumption
   DEF Init, Inv, TypeOK, BudgetInv, Unspent

(* The only action that touches a bucket.                                  *)
LEMMA DecideInv ==
  ASSUME NEW h \in Thread, Inv, Decide(h)
  PROVE  Inv'
<1> USE CapacityAssumption, RateAssumption, CostAssumption, MaxClockAssumption
<1> DEFINE k == wants[h]
           new == k \notin buckets
           level == IF new THEN Capacity ELSE tokens[k]
           since == IF new THEN now[h] ELSE last[k]
           b == Refill(level, since, now[h])
           spent == IF b.level >= Cost THEN Cost ELSE 0
           start == IF new THEN now[h] ELSE born[k]
<1>1. k \in Key
  BY DEF Decide, Inv, TypeOK
<1>2. /\ level \in 0..Capacity
      /\ since \in 0..MaxClock
      /\ now[h] \in 0..MaxClock
      /\ start \in 0..MaxClock
      /\ admitted[k] \in Nat
  BY <1>1 DEF Inv, TypeOK
<1>3. start <= since
  BY <1>1, <1>2 DEF Inv, BudgetInv, TypeOK
<1>4. admitted[k] + level <= Capacity + Rate * (since - start)
  <2>1. CASE new
    BY <2>1, <1>1, <1>2 DEF Inv, Unspent
  <2>2. CASE ~new
    BY <2>2, <1>1, <1>2 DEF Inv, BudgetInv
  <2>3. QED
    BY <2>1, <2>2
<1>5. /\ buckets' = buckets \cup {k}
      /\ born' = [born EXCEPT ![k] = start]
      /\ tokens' = [tokens EXCEPT ![k] = b.level - spent]
      /\ last' = [last EXCEPT ![k] = b.since]
      /\ admitted' = [admitted EXCEPT ![k] = @ + spent]
      /\ wants' = [wants EXCEPT ![h] = Idle]
      /\ UNCHANGED <<clock, now>>
  BY <1>1 DEF Decide, Inv, TypeOK
<1> HIDE DEF new, level, since, start
<1>6. /\ b.level \in 0..Capacity
      /\ b.since \in 0..MaxClock
      /\ since <= b.since
      /\ b.level <= level + Rate * (b.since - since)
  BY <1>2, RefillFacts
<1> HIDE DEF b
<1>7. spent \in Nat /\ b.level - spent \in 0..Capacity
  BY <1>6
<1> HIDE DEF spent
<1>8. TypeOK'
  BY <1>1, <1>2, <1>5, <1>6, <1>7 DEF Inv, TypeOK
<1>9. BudgetInv'
  <2> SUFFICES ASSUME NEW j \in buckets'
               PROVE  /\ born'[j] <= last'[j]
                      /\ admitted'[j] + tokens'[j]
                           <= Capacity + Rate * (last'[j] - born'[j])
    BY DEF BudgetInv
  <2>1. CASE j # k
    BY <2>1, <1>1, <1>5 DEF Inv, TypeOK, BudgetInv
  <2>2. CASE j = k
    <3>1. /\ born'[k] = start /\ last'[k] = b.since
          /\ admitted'[k] = admitted[k] + spent
          /\ tokens'[k] = b.level - spent
      BY <1>1, <1>5 DEF Inv, TypeOK
    <3>2. Rate * (b.since - since) + Rate * (since - start)
            = Rate * (b.since - start)
      BY <1>2, <1>6
    <3>3. /\ Rate * (b.since - since) \in Int
          /\ Rate * (since - start) \in Int
          /\ Rate * (b.since - start) \in Int
      BY <1>2, <1>6
    <3>4. QED
      BY <2>2, <3>1, <3>2, <3>3, <1>2, <1>3, <1>4, <1>6, <1>7
  <2>3. QED
    BY <2>1, <2>2
<1>10. Unspent'
  BY <1>1, <1>5 DEF Inv, TypeOK, Unspent
<1>11. QED
  BY <1>8, <1>9, <1>10 DEF Inv

LEMMA StepInv == Inv /\ [Next]_vars => Inv'
<1> SUFFICES ASSUME Inv, [Next]_vars
             PROVE  Inv'
  OBVIOUS
<1>1. CASE \E h \in Thread : Decide(h)
  BY <1>1, DecideInv
<1>2. CASE \E h \in Thread, k \in Key : ReadClock(h, k)
  BY <1>2 DEF ReadClock, Inv, TypeOK, BudgetInv, Unspent
<1>3. CASE SetClock
  BY <1>3 DEF SetClock, Inv, TypeOK, BudgetInv, Unspent
<1>4. CASE UNCHANGED vars
  BY <1>4 DEF vars, Inv, TypeOK, BudgetInv, Unspent
<1>5. QED
  BY <1>1, <1>2, <1>3, <1>4 DEF Next

(* RateLimiter.allow keeps every bucket's level between 0 and its capacity. *)
THEOREM TypeCorrect == Spec => []TypeOK
<1>1. Inv => TypeOK
  BY DEF Inv
<1>2. QED
  BY <1>1, InitInv, StepInv, PTL DEF Spec

(* No interleaving of allow() calls and no movement of the wall clock lets *)
(* a key spend more than its burst plus the refill of the time its bucket  *)
(* has seen.                                                               *)
THEOREM RateBounded == Spec => []RateBound
<1>1. Inv => RateBound
  <2> SUFFICES ASSUME Inv, NEW k \in buckets
               PROVE  admitted[k] <= Capacity + Rate * (last[k] - born[k])
    BY DEF RateBound
  <2>1. /\ tokens[k] \in 0..Capacity /\ admitted[k] \in Nat
        /\ last[k] \in 0..MaxClock /\ born[k] \in 0..MaxClock
        /\ admitted[k] + tokens[k] <= Capacity + Rate * (last[k] - born[k])
    BY DEF Inv, TypeOK, BudgetInv
  <2>2. Rate * (last[k] - born[k]) \in Int
    BY <2>1, RateAssumption, MaxClockAssumption
  <2>3. QED
    BY <2>1, <2>2, CapacityAssumption
<1>2. QED
  BY <1>1, InitInv, StepInv, PTL DEF Spec

-----------------------------------------------------------------------------
(* Any interval of a bucket's life, not only the whole of it.              *)

(* A step never moves a bucket's last_refill back, and what it takes out   *)
(* of the bucket was in it or has been refilled for the time it moves      *)
(* last_refill on.                                                         *)
LEMMA StepSpends ==
  ASSUME Inv, [Next]_vars, NEW k \in buckets
  PROVE  /\ k \in buckets'
         /\ last[k] <= last'[k]
         /\ admitted'[k] + tokens'[k] <= admitted[k] + tokens[k] + Rate * (last'[k] - last[k])
<1> USE CapacityAssumption, RateAssumption, CostAssumption, MaxClockAssumption
<1>1. /\ k \in Key /\ tokens[k] \in 0..Capacity /\ last[k] \in 0..MaxClock
      /\ admitted[k] \in Nat
  BY DEF Inv, TypeOK
<1>2. ASSUME UNCHANGED <<tokens, last, buckets, admitted>>
      PROVE  /\ k \in buckets'
             /\ last[k] <= last'[k]
             /\ admitted'[k] + tokens'[k]
                  <= admitted[k] + tokens[k] + Rate * (last'[k] - last[k])
  <2>1. Rate * (last'[k] - last[k]) = 0
    BY <1>1, <1>2
  <2>2. QED
    BY <1>1, <1>2, <2>1
<1>3. ASSUME NEW h \in Thread, Decide(h)
      PROVE  /\ k \in buckets'
             /\ last[k] <= last'[k]
             /\ admitted'[k] + tokens'[k]
                  <= admitted[k] + tokens[k] + Rate * (last'[k] - last[k])
  <2>1. wants[h] \in Key /\ now[h] \in 0..MaxClock
    BY <1>3 DEF Decide, Inv, TypeOK
  <2>2. CASE wants[h] # k
    <3>1. /\ k \in buckets' /\ tokens'[k] = tokens[k] /\ last'[k] = last[k]
          /\ admitted'[k] = admitted[k]
      BY <1>1, <1>3, <2>1, <2>2 DEF Decide, Inv, TypeOK
    <3>2. Rate * (last'[k] - last[k]) = 0
      BY <1>1, <3>1
    <3>3. QED
      BY <1>1, <3>1, <3>2
  <2>3. CASE wants[h] = k
    <3>1. PICK b : b = Refill(tokens[k], last[k], now[h])
      OBVIOUS
    <3>2. /\ b.level \in 0..Capacity
          /\ b.since \in 0..MaxClock
          /\ last[k] <= b.since
          /\ b.level <= tokens[k] + Rate * (b.since - last[k])
      BY <1>1, <2>1, <3>1, RefillFacts
    <3>3. PICK spent : spent = IF b.level >= Cost THEN Cost ELSE 0
      OBVIOUS
    <3>4. /\ k \in buckets' /\ tokens'[k] = b.level - spent /\ last'[k] = b.since
          /\ admitted'[k] = admitted[k] + spent
      BY <1>1, <1>3, <2>3, <3>1, <3>3 DEF Decide, Inv, TypeOK
    <3>5. spent \in Nat /\ Rate * (b.since - last[k]) \in Int
      BY <1>1, <3>2, <3>3
    <3>6. QED
      BY <1>1, <3>2, <3>4, <3>5
  <2>4. QED
    BY <2>2, <2>3
<1>4. QED
  BY <1>2, <1>3 DEF Next, ReadClock, SetClock, vars

(* What a key has spent since it had spent a and its bucket was refilled   *)
(* at l, tokens still in the bucket included.                              *)
Since(k, a, l) ==
  /\ k \in buckets /\ l <= last[k]
  /\ admitted[k] + tokens[k] <= a + Capacity + Rate * (last[k] - l)

(* From any moment on, and not only from its first request, a key spends   *)
(* at most a burst and the refill of the time its bucket sees go by.  The  *)
(* moment is given by a and l; RateBound is the interval that starts with  *)
(* the bucket.                                                             *)
THEOREM NoIntervalOverspent ==
  ASSUME NEW k \in Key, NEW a \in Nat, NEW l \in Nat
  PROVE  Spec =>
           [](k \in buckets /\ admitted[k] = a /\ last[k] = l =>
                [](admitted[k] <= a + Capacity + Rate * (last[k] - l)))
<1> USE CapacityAssumption, RateAssumption, MaxClockAssumption
<1>1. Inv /\ k \in buckets /\ admitted[k] = a /\ last[k] = l => Since(k, a, l)
  <2> SUFFICES ASSUME Inv, k \in buckets, admitted[k] = a, last[k] = l
               PROVE  Since(k, a, l)
    OBVIOUS
  <2>1. tokens[k] \in 0..Capacity /\ Rate * (last[k] - l) = 0
    BY DEF Inv, TypeOK
  <2>2. QED
    BY <2>1 DEF Since
<1>2. Inv /\ Since(k, a, l) /\ [Next]_vars => Since(k, a, l)'
  <2> SUFFICES ASSUME Inv, Since(k, a, l), [Next]_vars
               PROVE  Since(k, a, l)'
    OBVIOUS
  <2>1. /\ k \in buckets' /\ last[k] <= last'[k]
        /\ admitted'[k] + tokens'[k] <= admitted[k] + tokens[k] + Rate * (last'[k] - last[k])
    BY StepSpends DEF Since
  <2>2. Inv'
    BY StepInv
  <2>3. /\ last[k] \in Nat /\ last'[k] \in Nat /\ admitted[k] \in Nat /\ tokens[k] \in Nat
        /\ admitted'[k] \in Nat /\ tokens'[k] \in Nat
    BY <2>2 DEF Inv, TypeOK
  <2>4. Rate * (last'[k] - last[k]) + Rate * (last[k] - l) = Rate * (last'[k] - l)
    BY <2>3
  <2>5. /\ Rate * (last'[k] - last[k]) \in Int /\ Rate * (last[k] - l) \in Int
        /\ Rate * (last'[k] - l) \in Int
    BY <2>3
  <2>6. QED
    BY <2>1, <2>3, <2>4, <2>5 DEF Since
<1>3. Inv /\ Since(k, a, l) => admitted[k] <= a + Capacity + Rate * (last[k] - l)
  <2> SUFFICES ASSUME Inv, Since(k, a, l)
               PROVE  admitted[k] <= a + Capacity + Rate * (last[k] - l)
    OBVIOUS
  <2>1. tokens[k] \in Nat /\ admitted[k] \in Nat /\ last[k] \in Nat
    BY DEF Inv, TypeOK
  <2>2. Rate * (last[k] - l) \in Int
    BY <2>1
  <2>3. QED
    BY <2>1, <2>2 DEF Since
<1>4. QED
  BY <1>1, <1>2, <1>3, InitInv, StepInv, PTL DEF Spec
=============================================================================
