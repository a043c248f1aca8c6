-------------------------- MODULE AdapterGuardProofs --------------------------
(***************************************************************************)
(* Theorems about AdapterGuard, for every set of callers, tuples and         *)
(* configurations, and every window, delay and bound on the clock.           *)
(***************************************************************************)
EXTENDS AdapterGuard, FiniteSetTheorems, SequenceTheorems, TLAPS

-------------------------------------------------------------------------------
(***************************************************************************)
(* Lemmas on the operators                                                  *)
(***************************************************************************)

\* A set of naturals that is not empty has a smallest element.
LEMMA SmallestExists ==
    ASSUME NEW S \in SUBSET Nat, S # {}
    PROVE  \E x \in S : \A y \in S : x <= y
  <1>1. PICK x \in S : \A y \in S : ~(<<y, x>> \in OpToRel(<, Nat))
    BY NatLessThanWellFounded, WFMin
  <1>2. \A y \in S : ~(y < x)
    BY <1>1 DEF OpToRel
  <1>3. \A y \in S : x \in Nat /\ y \in Nat
    OBVIOUS
  <1>4. \A y \in S : x <= y
    BY <1>2, <1>3
  <1> QED
    BY <1>4

\* A bounded set of naturals that is not empty has a largest element.
LEMMA LargestFacts ==
    ASSUME NEW bound \in Nat, NEW S \in SUBSET (0..bound), S # {}
    PROVE  Max(S) \in S /\ \A y \in S : y <= Max(S)
  <1> DEFINE T == {bound - x : x \in S}
  <1>1. T \in SUBSET Nat /\ T # {}
    <2>1. \A x \in S : bound - x \in Nat
      OBVIOUS
    <2> QED
      BY <2>1
  <1>2. PICK t \in T : \A y \in T : t <= y
    <2> HIDE DEF T
    <2> QED
      BY <1>1, SmallestExists
  <1>3. PICK m \in S : t = bound - m
    BY <1>2
  <1>4. \A y \in S : bound - m <= bound - y
    BY <1>2, <1>3
  <1>5. \A y \in S : m >= y
    BY <1>4
  <1>6. \E m1 \in S : \A y \in S : m1 >= y
    BY <1>5
  <1>7. Max(S) \in S /\ \A y \in S : Max(S) >= y
    BY <1>6 DEF Max
  <1> QED
    BY <1>7

\* A shard: every lease count is positive, so an absent one is the only zero.
Valid(s) ==
    /\ s = Shard(s.ts, s.fl)
    /\ DOMAIN s.ts \subseteq Keys
    /\ s.ts \in [DOMAIN s.ts -> Seq(0..MaxTime)]
    /\ DOMAIN s.fl \subseteq Keys
    /\ s.fl \in [DOMAIN s.fl -> Nat \ {0}]

\* No key of a set is tracked that has neither a timestamp nor a lease.
BusyKeys(s, keys) ==
    \A k \in DOMAIN s.ts \cap keys : s.ts[k] # <<>> \/ k \in DOMAIN s.fl

\* Popping the expired timestamps leaves a queue of timestamps.
LEMMA PopExpiredType ==
    ASSUME NEW q \in Seq(0..MaxTime), NEW cutoff \in Int
    PROVE  PopExpired(q, cutoff) \in Seq(0..MaxTime)
  <1> DEFINE live == {i \in DOMAIN q : q[i] >= cutoff}
  <1>1. CASE live = {}
    <2>1. PopExpired(q, cutoff) = <<>>
      BY <1>1 DEF PopExpired
    <2> QED
      BY <2>1
  <1>2. CASE live # {}
    <2>1. live \in SUBSET Nat
      OBVIOUS
    <2>2. Min(live) \in live
      <3> HIDE DEF live
      <3>1. \E x \in live : \A y \in live : x =< y
        BY <1>2, <2>1, SmallestExists
      <3> QED
        BY <3>1 DEF Min
    <2>3. Min(live) \in 1..Len(q)
      BY <2>2
    <2>4. PopExpired(q, cutoff) = SubSeq(q, Min(live), Len(q))
      BY <1>2 DEF PopExpired
    <2> HIDE DEF live
    <2>5. SubSeq(q, Min(live), Len(q)) \in Seq(0..MaxTime)
      <3> DEFINE m == Min(live)
                 n == Len(q)
                 S == 0..MaxTime
      <3> HIDE DEF S
      <3>1. q \in Seq(S) /\ m \in 1..n
        BY <2>3 DEF S
      <3> HIDE DEF m
      <3>2. /\ m \in Int /\ n \in Int
            /\ \A i \in m..n : q[i] \in S
        BY <3>1
      <3> HIDE DEF n
      <3>3. SubSeq(q, m, n) \in Seq(S)
        BY <3>2, SubSeqProperties
      <3> QED
        BY <3>3 DEF m, n, S
    <2> QED
      BY <2>4, <2>5
  <1> QED
    BY <1>1, <1>2

\* remove_tuple_if_idle loses no lease and no timestamp.
LEMMA RemoveIfIdleFacts ==
    ASSUME NEW s, Valid(s), NEW keys \in SUBSET Keys
    PROVE  /\ Valid(RemoveIfIdle(s, keys))
           /\ RemoveIfIdle(s, keys).fl = s.fl
           /\ BusyKeys(RemoveIfIdle(s, keys), keys)
           /\ \A k \in DOMAIN RemoveIfIdle(s, keys).ts :
                 /\ k \in DOMAIN s.ts
                 /\ RemoveIfIdle(s, keys).ts[k] = s.ts[k]
  <1> DEFINE kept == {k \in Keys : k \in keys =>
                         Lookup(s.fl, k, 0) > 0 \/ Lookup(s.ts, k, <<>>) # <<>>}
             ts == [k \in DOMAIN s.ts \cap kept |-> s.ts[k]]
             fl == [k \in DOMAIN s.fl \cap kept |-> s.fl[k]]
  <1>1. RemoveIfIdle(s, keys) = Shard(ts, fl)
    BY DEF RemoveIfIdle, Restrict
  <1>2. DOMAIN s.fl \cap kept = DOMAIN s.fl
    BY DEF Lookup, Valid
  <1>3. fl = s.fl
    BY <1>2 DEF Valid
  <1>4. /\ RemoveIfIdle(s, keys).ts = ts
        /\ RemoveIfIdle(s, keys).fl = s.fl
        /\ RemoveIfIdle(s, keys) = Shard(ts, s.fl)
    BY <1>1, <1>3 DEF Shard
  <1>5. /\ DOMAIN ts \subseteq DOMAIN s.ts
        /\ \A k \in DOMAIN ts : ts[k] = s.ts[k]
    OBVIOUS
  <1>6. \A k \in DOMAIN ts \cap keys : ts[k] # <<>> \/ k \in DOMAIN s.fl
    BY DEF Lookup
  <1>7. ts \in [DOMAIN ts -> Seq(0..MaxTime)]
    BY DEF Valid
  <1> HIDE DEF ts, fl, kept
  <1>8. Valid(RemoveIfIdle(s, keys))
    BY <1>4, <1>5, <1>7 DEF Valid
  <1> QED
    BY <1>4, <1>5, <1>6, <1>8 DEF BusyKeys

\* A sweep of the whole shard, on behalf of one key, loses no lease of any and
\* leaves no idle tuple.
LEMMA SweepFacts ==
    ASSUME NEW s, Valid(s), NEW cutoff \in Int
    PROVE  /\ Valid(Sweep(s, cutoff))
           /\ Sweep(s, cutoff).fl = s.fl
           /\ BusyKeys(Sweep(s, cutoff), Keys)
  <1> DEFINE ts == [k \in DOMAIN s.ts |-> PopExpired(s.ts[k], cutoff)]
             popped == Shard(ts, s.fl)
  <1>1. ts \in [DOMAIN s.ts -> Seq(0..MaxTime)]
    BY PopExpiredType DEF Valid
  <1>2. DOMAIN ts = DOMAIN s.ts
    OBVIOUS
  <1>3. Sweep(s, cutoff) = RemoveIfIdle(popped, DOMAIN s.ts)
    BY DEF Sweep
  <1> HIDE DEF ts
  <1>4. /\ popped.ts = ts /\ popped.fl = s.fl
        /\ Valid(popped)
    BY <1>1, <1>2 DEF Valid, Shard
  <1>5. DOMAIN s.ts \in SUBSET Keys
    BY DEF Valid
  <1> HIDE DEF popped
  <1>6. /\ Valid(Sweep(s, cutoff))
        /\ Sweep(s, cutoff).fl = s.fl
        /\ BusyKeys(Sweep(s, cutoff), DOMAIN s.ts)
        /\ DOMAIN Sweep(s, cutoff).ts \subseteq DOMAIN s.ts
    BY <1>2, <1>3, <1>4, <1>5, RemoveIfIdleFacts
  <1> QED
    BY <1>6 DEF BusyKeys

\* Nor does the rate check, which may leave an entry for its key.
LEMMA TouchFacts ==
    ASSUME NEW s, Valid(s), BusyKeys(s, Keys), NEW k \in Keys,
           NEW u, u = RemoveIfIdle(Shard(Insert(s.ts, k, Lookup(s.ts, k, <<>>)), s.fl), {k})
    PROVE  /\ Valid(u)
           /\ u.fl = s.fl
           /\ BusyKeys(u, Keys)
  <1> DEFINE ts == Insert(s.ts, k, Lookup(s.ts, k, <<>>))
             touched == Shard(ts, s.fl)
  <1>1. /\ DOMAIN ts = DOMAIN s.ts \cup {k}
        /\ ts \in [DOMAIN ts -> Seq(0..MaxTime)]
        /\ \A x \in DOMAIN s.ts : ts[x] = s.ts[x]
    <2> DEFINE v == Lookup(s.ts, k, <<>>)
    <2>1. /\ v \in Seq(0..MaxTime)
          /\ k \in DOMAIN s.ts => v = s.ts[k]
      <3>1. CASE k \in DOMAIN s.ts
        BY <3>1 DEF Lookup, Valid
      <3>2. CASE k \notin DOMAIN s.ts
        <4>1. v = <<>>
          BY <3>2 DEF Lookup
        <4> HIDE DEF v
        <4> QED
          BY <3>2, <4>1
      <3> QED
        BY <3>1, <3>2
    <2>2. ts = [x \in DOMAIN s.ts \cup {k} |-> IF x = k THEN v ELSE s.ts[x]]
      BY DEF Insert
    <2> HIDE DEF v, ts
    <2> QED
      BY <2>1, <2>2 DEF Valid
  <1> HIDE DEF ts
  <1>2. /\ touched.ts = ts /\ touched.fl = s.fl
        /\ Valid(touched)
    BY <1>1 DEF Valid, Shard
  <1>3. u = RemoveIfIdle(touched, {k})
    BY DEF ts
  <1> HIDE DEF touched
  <1>4. /\ Valid(u)
        /\ u.fl = s.fl
        /\ BusyKeys(u, {k})
        /\ \A x \in DOMAIN u.ts : x \in DOMAIN ts /\ u.ts[x] = ts[x]
    <2>1. {k} \in SUBSET Keys
      OBVIOUS
    <2>2. /\ Valid(RemoveIfIdle(touched, {k}))
          /\ RemoveIfIdle(touched, {k}).fl = touched.fl
          /\ BusyKeys(RemoveIfIdle(touched, {k}), {k})
          /\ \A x \in DOMAIN RemoveIfIdle(touched, {k}).ts :
                /\ x \in DOMAIN touched.ts
                /\ RemoveIfIdle(touched, {k}).ts[x] = touched.ts[x]
      BY <1>2, <2>1, RemoveIfIdleFacts, Zenon
    <2> QED
      BY <1>2, <1>3, <2>2
  <1>5. BusyKeys(u, Keys)
    BY <1>1, <1>4 DEF BusyKeys
  <1> QED
    BY <1>4, <1>5

-------------------------------------------------------------------------------
(***************************************************************************)
(* The inductive invariant.  LeaseAccounting alone is not inductive: that a  *)
(* release finds its count needs the callers' own state, and that no zero    *)
(* count stays behind needs the counts to be positive.                       *)
(***************************************************************************)
CallStates ==
    {Idle}
    \cup [pc : {"calling"}, key : Keys, config : Configs, now : 0..MaxTime]
    \cup [pc : {"holding"}, key : Keys]

LeaseCount ==
    \A k \in Keys :
        /\ IsFiniteSet(Leases(k))
        /\ Lookup(inflight_by_tuple, k, 0) = Cardinality(Leases(k))
        /\ Cardinality(Leases(k)) <= LargestInflight

GuardInv ==
    /\ clock \in 0..MaxTime
    /\ admitted \in [Keys -> Seq(0..MaxTime)]
    /\ call \in [Callers -> CallStates]
    /\ Valid(current)
    /\ BusyKeys(current, Keys)
    /\ LeaseCount

\* No configuration allows more leases than LargestInflight.
LEMMA LargestInflightFacts ==
    /\ LargestInflight \in Nat
    /\ \A cf \in Configs : cf.max_inflight_per_tuple <= LargestInflight
  <1> DEFINE S == {cf.max_inflight_per_tuple : cf \in Configs}
  <1>1. S \in SUBSET (0..MaxUsize) /\ S # {} /\ MaxUsize \in Nat
    BY GuardAssumption DEF Config
  <1>2. \A cf \in Configs : cf.max_inflight_per_tuple \in S
    OBVIOUS
  <1>3. LargestInflight = Max(S)
    BY DEF LargestInflight
  <1> HIDE DEF S
  <1>4. Max(S) \in S /\ \A y \in S : y <= Max(S)
    BY <1>1, LargestFacts
  <1>5. Max(S) \in Nat
    <2>1. Max(S) \in 0..MaxUsize
      BY <1>1, <1>4, Zenon
    <2> QED
      BY <1>1, <2>1
  <1> QED
    BY <1>2, <1>3, <1>4, <1>5

\* The fields of the shard that current is.
LEMMA CurrentFacts ==
    /\ current.ts = request_timestamps
    /\ current.fl = inflight_by_tuple
  BY DEF current, Shard

\* The maps start empty.
LEMMA InitGuardInv == Init => GuardInv
  <1> SUFFICES ASSUME Init PROVE GuardInv
    OBVIOUS
  <1>1. /\ clock \in 0..MaxTime
        /\ admitted \in [Keys -> Seq(0..MaxTime)]
        /\ call \in [Callers -> CallStates]
    BY GuardAssumption DEF Init, CallStates
  <1>2. current = Shard(<<>>, <<>>)
    BY DEF Init, current
  <1>3. Valid(current) /\ BusyKeys(current, Keys)
    <2>1. current.ts = <<>> /\ current.fl = <<>> /\ current = Shard(current.ts, current.fl)
      BY <1>2 DEF Shard
    <2>2. DOMAIN <<>> = {} /\ \A S : <<>> \in [{} -> S]
      OBVIOUS
    <2> QED
      BY <2>1, <2>2 DEF Valid, BusyKeys
  <1>4. LeaseCount
    <2> SUFFICES ASSUME NEW k \in Keys
                 PROVE  /\ IsFiniteSet(Leases(k))
                        /\ Lookup(inflight_by_tuple, k, 0) = Cardinality(Leases(k))
                        /\ Cardinality(Leases(k)) <= LargestInflight
      BY DEF LeaseCount
    <2>1. Leases(k) = {}
      BY DEF Init, Leases, Idle
    <2>2. Lookup(inflight_by_tuple, k, 0) = 0
      BY DEF Init, Lookup
    <2> QED
      BY <2>1, <2>2, FS_EmptySet, LargestInflightFacts
  <1> QED
    BY <1>1, <1>3, <1>4 DEF GuardInv

\* A step that moves no lease and leaves a valid shard with the same counts.
LEMMA QuietStep ==
    ASSUME GuardInv,
           clock' \in 0..MaxTime,
           admitted' = admitted,
           call' \in [Callers -> CallStates],
           \A k \in Keys : Leases(k)' = Leases(k),
           NEW u, Valid(u), BusyKeys(u, Keys), u.fl = inflight_by_tuple,
           SetShard(u)
    PROVE  GuardInv'
  <1>1. current' = Shard(u.ts, u.fl) /\ inflight_by_tuple' = inflight_by_tuple
    BY DEF current, SetShard
  <1>2. current' = u
    BY <1>1 DEF Valid
  <1>3. Valid(current)' /\ BusyKeys(current, Keys)'
    BY <1>2 DEF Valid, BusyKeys
  <1>4. LeaseCount'
    BY <1>1 DEF GuardInv, LeaseCount, Lookup, LargestInflight
  <1> QED
    BY <1>3, <1>4 DEF GuardInv

\* The calls that end without a lease, and the clock.
LEMMA RefusalGuardInv ==
    ASSUME GuardInv,
           \/ \E c \in Callers :
                 \/ \E key \in Keys, config \in Configs : Call(c, key, config)
                 \/ RefuseMisconfigured(c)
           \/ Tick
    PROVE  GuardInv'
  <1>1. /\ clock' \in 0..MaxTime
        /\ admitted' = admitted
        /\ SetShard(current)
    BY CurrentFacts, GuardAssumption
       DEF Call, RefuseMisconfigured, Tick, SetShard, GuardInv
  <1>2. ASSUME NEW c \in Callers,
               \/ \E key \in Keys, config \in Configs : Call(c, key, config)
               \/ RefuseMisconfigured(c)
        PROVE  /\ call' \in [Callers -> CallStates]
               /\ \A k \in Keys : Leases(k)' = Leases(k)
    <2>1. PICK x \in CallStates : /\ call' = [call EXCEPT ![c] = x]
                                  /\ x.pc # "holding"
                                  /\ call[c].pc # "holding"
      BY <1>2 DEF Call, RefuseMisconfigured, CallStates, Idle, Calling, GuardInv
    <2>2. \A k \in Keys : Leases(k)' = Leases(k)
      BY <2>1 DEF Leases, GuardInv
    <2> QED
      BY <2>1, <2>2 DEF GuardInv
  <1>3. ASSUME Tick
        PROVE  /\ call' \in [Callers -> CallStates]
               /\ \A k \in Keys : Leases(k)' = Leases(k)
    BY <1>3 DEF Tick, GuardInv, Leases
  <1>4. /\ call' \in [Callers -> CallStates]
        /\ \A k \in Keys : Leases(k)' = Leases(k)
    BY <1>2, <1>3
  <1> QED
    BY <1>1, <1>4, CurrentFacts, QuietStep DEF GuardInv

\* What a caller that calls has given, and what it finds under the mutex.
LEMMA CallingFacts ==
    ASSUME GuardInv, NEW c \in Callers, call[c].pc = "calling"
    PROVE  /\ call[c].key \in Keys
           /\ call[c].config \in Configs
           /\ call[c].now \in 0..MaxTime
           /\ Valid(Swept(c)) /\ BusyKeys(Swept(c), Keys)
           /\ Swept(c).fl = inflight_by_tuple
           /\ Valid(Touched(c)) /\ BusyKeys(Touched(c), Keys)
           /\ Touched(c).fl = inflight_by_tuple
  <1>1. /\ call[c].key \in Keys
        /\ call[c].config \in Configs
        /\ call[c].now \in 0..MaxTime
    BY DEF GuardInv, CallStates, Idle
  <1>2. call[c].now - Window \in Int
    BY <1>1, GuardAssumption
  <1>3. /\ Valid(Swept(c)) /\ BusyKeys(Swept(c), Keys)
        /\ Swept(c).fl = inflight_by_tuple
    BY <1>2, CurrentFacts, SweepFacts DEF GuardInv, Swept
  <1>4. /\ Valid(Touched(c)) /\ BusyKeys(Touched(c), Keys)
        /\ Touched(c).fl = inflight_by_tuple
    <2> DEFINE s == Swept(c)
               k == call[c].key
    <2>1. Touched(c) = RemoveIfIdle(Shard(Insert(s.ts, k, Lookup(s.ts, k, <<>>)), s.fl), {k})
      BY DEF Touched
    <2>2. Valid(s) /\ BusyKeys(s, Keys) /\ k \in Keys
      BY <1>1, <1>3
    <2>3. s.fl = inflight_by_tuple
      BY <1>3
    <2> HIDE DEF s, k
    <2>4. Valid(Touched(c)) /\ BusyKeys(Touched(c), Keys) /\ Touched(c).fl = s.fl
      BY <2>1, <2>2, TouchFacts
    <2> QED
      BY <2>3, <2>4
  <1> QED
    BY <1>1, <1>3, <1>4

\* Refusals under the mutex sweep the shard and move no lease.
LEMMA RefuseGuardInv ==
    ASSUME GuardInv, NEW c \in Callers, RefuseRate(c) \/ RefuseConcurrency(c)
    PROVE  GuardInv'
  <1>1. /\ call[c].pc = "calling"
        /\ call' = [call EXCEPT ![c] = Idle]
        /\ UNCHANGED <<clock, admitted>>
        /\ SetShard(Swept(c)) \/ SetShard(Touched(c))
    BY DEF RefuseRate, RefuseConcurrency
  <1>2. /\ call' \in [Callers -> CallStates]
        /\ \A k \in Keys : Leases(k)' = Leases(k)
    BY <1>1 DEF GuardInv, CallStates, Leases, Idle
  <1>3. clock' \in 0..MaxTime
    BY <1>1 DEF GuardInv
  <1> QED
    BY <1>1, <1>2, <1>3, CallingFacts, QuietStep

\* A lease is counted when it is granted, and only below the caller's limit.
LEMMA EnterGuardInv ==
    ASSUME GuardInv, NEW c \in Callers, Enter(c)
    PROVE  GuardInv'
  <1>0. PICK k \in Keys : k = call[c].key
    BY CallingFacts DEF Enter
  <1> DEFINE s == Touched(c)
             n == Lookup(s.fl, k, 0)
             ts == Insert(s.ts, k, Append(Lookup(s.ts, k, <<>>), call[c].now))
             fl == Insert(s.fl, k, n + 1)
  <1>1. /\ call[c].pc = "calling"
        /\ ~ConcurrencyExceeded(c)
        /\ request_timestamps' = ts
        /\ inflight_by_tuple' = fl
        /\ call' = [call EXCEPT ![c] = Holding(k)]
        /\ admitted' = [admitted EXCEPT ![k] = Append(@, clock)]
        /\ clock' = clock
    BY <1>0 DEF Enter, SetShard, Shard
  <1>2. /\ call[c].config \in Configs
        /\ call[c].now \in 0..MaxTime
        /\ Valid(s) /\ BusyKeys(s, Keys)
        /\ s.fl = inflight_by_tuple
    BY <1>1, CallingFacts
  <1>3. n = Cardinality(Leases(k)) /\ IsFiniteSet(Leases(k)) /\ n \in Nat
    BY <1>2, FS_CardinalityType DEF GuardInv, LeaseCount
  <1>4. n < LargestInflight /\ LargestInflight \in Nat
    <2>1. ~(n >= call[c].config.max_inflight_per_tuple)
      BY <1>0, <1>1 DEF ConcurrencyExceeded
    <2>2. call[c].config.max_inflight_per_tuple \in Nat
      BY <1>2, GuardAssumption DEF Config
    <2> HIDE DEF n
    <2> QED
      BY <1>2, <1>3, <2>1, <2>2, LargestInflightFacts
  <1>5. /\ DOMAIN ts \subseteq Keys
        /\ ts \in [DOMAIN ts -> Seq(0..MaxTime)]
        /\ \A x \in DOMAIN ts : x # k => x \in DOMAIN s.ts /\ ts[x] = s.ts[x]
    <2> DEFINE q == Append(Lookup(s.ts, k, <<>>), call[c].now)
    <2>1. Lookup(s.ts, k, <<>>) \in Seq(0..MaxTime)
      <3>1. CASE k \in DOMAIN s.ts
        BY <1>2, <3>1 DEF Lookup, Valid
      <3>2. CASE k \notin DOMAIN s.ts
        <4>1. Lookup(s.ts, k, <<>>) = <<>>
          BY <3>2 DEF Lookup
        <4>2. <<>> \in Seq(0..MaxTime)
          OBVIOUS
        <4> QED
          BY <4>1, <4>2, Zenon
      <3> QED
        BY <3>1, <3>2
    <2>2. q \in Seq(0..MaxTime)
      BY <1>2, <2>1
    <2>3. ts = [x \in DOMAIN s.ts \cup {k} |-> IF x = k THEN q ELSE s.ts[x]]
      BY DEF Insert
    <2> HIDE DEF q, ts, s
    <2> QED
      BY <1>2, <2>2, <2>3 DEF Valid
  <1>6. /\ DOMAIN fl = DOMAIN s.fl \cup {k}
        /\ fl \in [DOMAIN fl -> Nat \ {0}]
        /\ fl[k] = n + 1
        /\ \A x \in Keys \ {k} : Lookup(fl, x, 0) = Lookup(s.fl, x, 0)
    <2>1. fl = [x \in DOMAIN s.fl \cup {k} |-> IF x = k THEN n + 1 ELSE s.fl[x]]
      BY DEF Insert
    <2> HIDE DEF n, fl, s
    <2> QED
      BY <1>2, <1>3, <2>1 DEF Valid, Lookup
  <1> HIDE DEF ts, fl, n
  <1>7. /\ current' = Shard(ts, fl)
        /\ current'.ts = ts /\ current'.fl = fl
    BY <1>1 DEF current, Shard
  <1>8. Valid(current)'
    <2> HIDE DEF s
    <2>1. DOMAIN fl \subseteq Keys
      BY <1>2, <1>6 DEF Valid
    <2> QED
      BY <1>5, <1>6, <1>7, <2>1 DEF Valid
  <1>9. BusyKeys(current, Keys)'
    BY <1>2, <1>5, <1>6, <1>7 DEF BusyKeys
  <1>10. /\ Leases(k)' = Leases(k) \cup {c}
         /\ c \notin Leases(k)
         /\ \A x \in Keys \ {k} : Leases(x)' = Leases(x)
    BY <1>0, <1>1 DEF Leases, Holding, GuardInv
  <1>11. LeaseCount'
    <2> SUFFICES ASSUME NEW x \in Keys
                 PROVE  /\ IsFiniteSet(Leases(x)')
                        /\ Lookup(fl, x, 0) = Cardinality(Leases(x)')
                        /\ Cardinality(Leases(x)') <= LargestInflight
      BY <1>1 DEF LeaseCount, LargestInflight
    <2>1. CASE x = k
      <3>1. /\ IsFiniteSet(Leases(x)')
            /\ Cardinality(Leases(x)') = n + 1
        BY <1>3, <1>10, <2>1, FS_AddElement
      <3>2. Lookup(fl, x, 0) = n + 1
        BY <1>6, <2>1 DEF Lookup
      <3> QED
        BY <1>3, <1>4, <3>1, <3>2
    <2>2. CASE x # k
      <3>1. Leases(x)' = Leases(x) /\ Lookup(fl, x, 0) = Lookup(inflight_by_tuple, x, 0)
        BY <1>2, <1>6, <1>10, <2>2
      <3> QED
        BY <3>1 DEF GuardInv, LeaseCount
    <2> QED
      BY <2>1, <2>2
  <1>12. /\ clock' \in 0..MaxTime
         /\ admitted' \in [Keys -> Seq(0..MaxTime)]
    <2>1. admitted[k] \in Seq(0..MaxTime) /\ clock \in 0..MaxTime
      BY DEF GuardInv
    <2> DEFINE a == Append(admitted[k], clock)
    <2>2. a \in Seq(0..MaxTime)
      BY <2>1
    <2>3. admitted' = [admitted EXCEPT ![k] = a]
      BY <1>1
    <2> HIDE DEF a
    <2> QED
      BY <1>1, <2>1, <2>2, <2>3 DEF GuardInv
  <1>13. call' \in [Callers -> CallStates]
    BY <1>1 DEF GuardInv, CallStates, Holding
  <1> QED
    BY <1>8, <1>9, <1>11, <1>12, <1>13 DEF GuardInv

\* Dropping a lease takes one off its own count, and the count away with the
\* last one.
LEMMA ReleaseGuardInv ==
    ASSUME GuardInv, NEW c \in Callers, Release(c)
    PROVE  GuardInv'
  <1>0. PICK k \in Keys : k = call[c].key
    BY DEF Release, GuardInv, CallStates, Idle
  <1> DEFINE n == Lookup(inflight_by_tuple, k, 0)
             fl == IF k \notin DOMAIN inflight_by_tuple THEN inflight_by_tuple
                   ELSE IF n - 1 <= 0
                        THEN Restrict(inflight_by_tuple, DOMAIN inflight_by_tuple \ {k})
                        ELSE [inflight_by_tuple EXCEPT ![k] = n - 1]
             s == Shard(request_timestamps, fl)
  <1>1. /\ call[c].pc = "holding"
        /\ SetShard(RemoveIfIdle(s, {k}))
        /\ call' = [call EXCEPT ![c] = Idle]
        /\ UNCHANGED <<clock, admitted>>
    BY <1>0 DEF Release
  <1>3. /\ Leases(k)' = Leases(k) \ {c}
        /\ c \in Leases(k)
        /\ \A x \in Keys \ {k} : Leases(x)' = Leases(x)
    BY <1>0, <1>1 DEF Leases, Idle, GuardInv
  <1>4. /\ n = Cardinality(Leases(k)) /\ IsFiniteSet(Leases(k))
        /\ n \in Nat \ {0}
    <2>1. n = Cardinality(Leases(k)) /\ IsFiniteSet(Leases(k))
      BY DEF GuardInv, LeaseCount
    <2> QED
      BY <1>3, <2>1, FS_CardinalityType, FS_EmptySet
  <1>5. k \in DOMAIN inflight_by_tuple
    BY <1>4 DEF Lookup
  <1>6. /\ DOMAIN inflight_by_tuple \subseteq Keys
        /\ inflight_by_tuple \in [DOMAIN inflight_by_tuple -> Nat \ {0}]
        /\ DOMAIN request_timestamps \subseteq Keys
        /\ request_timestamps \in [DOMAIN request_timestamps -> Seq(0..MaxTime)]
    BY CurrentFacts DEF GuardInv, Valid
  <1>7. /\ DOMAIN fl \subseteq DOMAIN inflight_by_tuple
        /\ fl \in [DOMAIN fl -> Nat \ {0}]
        /\ Lookup(fl, k, 0) = n - 1
        /\ \A x \in Keys \ {k} : /\ Lookup(fl, x, 0) = Lookup(inflight_by_tuple, x, 0)
                                 /\ x \in DOMAIN inflight_by_tuple => x \in DOMAIN fl
    <2>1. CASE n - 1 <= 0
      <3>1. fl = [x \in DOMAIN inflight_by_tuple \ {k} |-> inflight_by_tuple[x]]
        BY <1>5, <2>1 DEF Restrict
      <3>2. n = 1
        BY <1>4, <2>1
      <3> HIDE DEF fl, n
      <3> QED
        BY <1>6, <3>1, <3>2 DEF Lookup
    <2>2. CASE ~(n - 1 <= 0)
      <3>1. fl = [inflight_by_tuple EXCEPT ![k] = n - 1]
        BY <1>5, <2>2
      <3>2. n - 1 \in Nat \ {0}
        BY <1>4, <2>2
      <3> HIDE DEF fl, n
      <3> QED
        BY <1>5, <1>6, <3>1, <3>2 DEF Lookup
    <2> QED
      BY <2>1, <2>2
  <1> HIDE DEF fl, n
  <1>8. s.ts = request_timestamps /\ s.fl = fl /\ s = Shard(s.ts, s.fl)
    BY DEF Shard
  <1>9. Valid(s)
    BY <1>6, <1>7, <1>8 DEF Valid
  <1>10. BusyKeys(s, Keys \ {k})
    BY <1>7, <1>8, CurrentFacts DEF BusyKeys, GuardInv
  <1> HIDE DEF s
  <1> DEFINE u == RemoveIfIdle(s, {k})
  <1>11. /\ Valid(u) /\ u.fl = s.fl /\ BusyKeys(u, {k})
         /\ \A x \in DOMAIN u.ts : x \in DOMAIN s.ts /\ u.ts[x] = s.ts[x]
    <2>1. {k} \in SUBSET Keys
      OBVIOUS
    <2> QED
      BY <1>9, <2>1, RemoveIfIdleFacts, Zenon
  <1> HIDE DEF u
  <1>12. BusyKeys(u, Keys)
    BY <1>10, <1>11 DEF BusyKeys
  <1>13. /\ current' = Shard(u.ts, u.fl)
         /\ inflight_by_tuple' = fl
    BY <1>1, <1>8, <1>11 DEF current, SetShard, u
  <1>14. current' = u
    BY <1>11, <1>13 DEF Valid
  <1>15. Valid(current)' /\ BusyKeys(current, Keys)'
    BY <1>11, <1>12, <1>14 DEF Valid, BusyKeys
  <1>16. LeaseCount'
    <2> SUFFICES ASSUME NEW x \in Keys
                 PROVE  /\ IsFiniteSet(Leases(x)')
                        /\ Lookup(fl, x, 0) = Cardinality(Leases(x)')
                        /\ Cardinality(Leases(x)') <= LargestInflight
      BY <1>13 DEF LeaseCount, LargestInflight
    <2>1. CASE x = k
      <3>1. /\ IsFiniteSet(Leases(x)')
            /\ Cardinality(Leases(x)') = n - 1
        BY <1>3, <1>4, <2>1, FS_RemoveElement
      <3>2. n <= LargestInflight
        BY <1>4 DEF GuardInv, LeaseCount
      <3> QED
        BY <1>4, <1>7, <2>1, <3>1, <3>2, LargestInflightFacts
    <2>2. CASE x # k
      <3>1. Leases(x)' = Leases(x) /\ Lookup(fl, x, 0) = Lookup(inflight_by_tuple, x, 0)
        BY <1>3, <1>7, <2>2
      <3> QED
        BY <3>1 DEF GuardInv, LeaseCount
    <2> QED
      BY <2>1, <2>2
  <1>17. /\ clock' \in 0..MaxTime
         /\ admitted' \in [Keys -> Seq(0..MaxTime)]
         /\ call' \in [Callers -> CallStates]
    BY <1>1 DEF GuardInv, CallStates
  <1> QED
    BY <1>15, <1>16, <1>17 DEF GuardInv

\* Every step of every caller preserves the invariant.
THEOREM GuardInductive == Spec => []GuardInv
  <1>1. GuardInv /\ [Next]_vars => GuardInv'
    <2>1. GuardInv /\ UNCHANGED vars => GuardInv'
      BY DEF GuardInv, vars, current, Valid, BusyKeys, LeaseCount, Leases, Lookup,
             LargestInflight
    <2> QED
      BY <2>1, RefusalGuardInv, RefuseGuardInv, EnterGuardInv, ReleaseGuardInv DEF Next
  <1> QED
    BY InitGuardInv, <1>1, PTL DEF Spec

-------------------------------------------------------------------------------
(***************************************************************************)
(* What follows from it                                                     *)
(***************************************************************************)

\* The count of every tuple is the number of its leases alive, whoever sweeps,
\* and never above the most generous limit.
THEOREM LeasesAccounted == Spec => []LeaseAccounting
  <1>1. GuardInv => LeaseAccounting
    <2> SUFFICES ASSUME GuardInv PROVE LeaseAccounting
      OBVIOUS
    <2>1. TypeOK
      BY CurrentFacts DEF GuardInv, Valid, TypeOK
    <2> QED
      BY <2>1 DEF GuardInv, LeaseCount, LeaseAccounting
  <1> QED
    BY <1>1, GuardInductive, PTL

\* The maps keep no tuple that has neither a timestamp nor a lease.
THEOREM IdleTuplesRemoved == Spec => []NoIdleTuples
  <1>1. GuardInv => NoIdleTuples
    <2> SUFFICES ASSUME GuardInv,
                        NEW k \in DOMAIN request_timestamps \cup DOMAIN inflight_by_tuple,
                        Lookup(request_timestamps, k, <<>>) = <<>>
                 PROVE  Leases(k) # {}
      BY DEF NoIdleTuples
    <2>1. k \in Keys
      BY CurrentFacts DEF GuardInv, Valid
    <2>2. k \in DOMAIN inflight_by_tuple
      BY <2>1, CurrentFacts DEF GuardInv, BusyKeys, Lookup
    <2>3. Lookup(inflight_by_tuple, k, 0) # 0
      BY <2>2, CurrentFacts DEF GuardInv, Valid, Lookup
    <2>4. Cardinality(Leases(k)) # 0
      BY <2>1, <2>3 DEF GuardInv, LeaseCount
    <2> QED
      BY <2>4, FS_EmptySet
  <1> QED
    BY <1>1, GuardInductive, PTL
-------------------------------------------------------------------------------
(***************************************************************************)
(* The rate limit.  A queue of timestamps is compared with the history of its *)
(* tuple: its entries are the readings of the latest admissions, and whatever *)
(* is not in it was popped when it was more than a window old.                *)
(***************************************************************************)
Queue(ts, k) == Lookup(ts, k, <<>>)

\* The admission that the entry j of the queue q stands for.
Of(q, a, j) == Len(a) - Len(q) + j

Tracks(q, a, time) ==
    /\ Len(q) <= Len(a)
    /\ \A j \in 1 .. Len(q) : q[j] <= a[Of(q, a, j)] /\ a[Of(q, a, j)] <= q[j] + MaxDelay
    /\ \A i \in 1 .. Len(a) - Len(q) : a[i] + Window < time + MaxDelay

\* A history is in order.
Chronicle(a, time) ==
    \A i \in 1 .. Len(a) : a[i] <= time /\ \A j \in i .. Len(a) : a[i] <= a[j]

During(a, from, to) == {i \in DOMAIN a : from <= a[i] /\ a[i] <= to}

Timely(c) == call[c].pc = "calling" => call[c].now <= clock /\ clock <= call[c].now + MaxDelay

RateInv ==
    /\ \A c \in Callers : Timely(c)
    /\ \A k \in Keys :
          Tracks(Queue(request_timestamps, k), admitted[k], clock) /\ Chronicle(admitted[k], clock)
    /\ RateBound

\* What the pops of a sweep leave: all behind the first timestamp that is live.
LEMMA PopExpiredFacts ==
    ASSUME NEW q \in Seq(0..MaxTime), NEW cutoff \in Int
    PROVE  \E p \in 0 .. Len(q) :
              /\ Len(PopExpired(q, cutoff)) = Len(q) - p
              /\ \A j \in 1 .. Len(q) - p : PopExpired(q, cutoff)[j] = q[p + j]
              /\ \A j \in 1 .. p : q[j] < cutoff
              /\ p < Len(q) => q[p + 1] >= cutoff
  <1> DEFINE live == {i \in DOMAIN q : q[i] >= cutoff}
  <1>1. /\ Len(q) \in Nat /\ DOMAIN q = 1 .. Len(q) /\ MaxTime \in Nat
        /\ \A i \in 1 .. Len(q) : q[i] \in Int
    BY GuardAssumption
  <1>2. CASE live = {}
    <2>1. PopExpired(q, cutoff) = <<>>
      BY <1>2 DEF PopExpired
    <2>2. \A j \in 1 .. Len(q) : q[j] < cutoff
      BY <1>1, <1>2
    <2>3. Len(PopExpired(q, cutoff)) = 0
      BY <2>1
    <2>4. Len(q) \in 0 .. Len(q) /\ Len(q) - Len(q) = 0 /\ ~(Len(q) < Len(q))
      BY <1>1
    <2>5. \A j \in 1 .. 0 : FALSE
      OBVIOUS
    <2> QED
      BY <2>2, <2>3, <2>4, <2>5, Zenon
  <1>3. CASE live # {}
    <2> DEFINE m == Min(live)
    <2>1. m \in live /\ \A y \in live : m <= y
      <3>1. live \in SUBSET Nat
        OBVIOUS
      <3> HIDE DEF live
      <3>2. \E x \in live : \A y \in live : x =< y
        BY <1>3, <3>1, SmallestExists
      <3> QED
        BY <3>2 DEF Min
    <2>2. PopExpired(q, cutoff) = SubSeq(q, m, Len(q))
      BY <1>3 DEF PopExpired
    <2> HIDE DEF m
    <2>3. m \in 1 .. Len(q) /\ q[m] >= cutoff
      BY <1>1, <2>1
    <2>4. \A j \in 1 .. m - 1 : q[j] < cutoff
      BY <1>1, <2>1, <2>3
    <2>5. /\ Len(SubSeq(q, m, Len(q))) = Len(q) - (m - 1)
          /\ \A j \in 1 .. Len(q) - (m - 1) : SubSeq(q, m, Len(q))[j] = q[(m - 1) + j]
      BY <1>1, <2>3
    <2> HIDE DEF live
    <2>6. m - 1 \in 0 .. Len(q) /\ (m - 1) + 1 = m
      BY <1>1, <2>3
    <2> QED
      BY <2>2, <2>3, <2>4, <2>5, <2>6
  <1> QED
    BY <1>2, <1>3

LEMMA OldEnough ==
    ASSUME NEW at \in Int, NEW reading \in Int, NEW now \in Nat, NEW time \in Nat, now <= time,
           reading < now - Window, at <= reading + MaxDelay
    PROVE  at + Window < time + MaxDelay
  BY GuardAssumption

\* Popping keeps a queue in step with the history: an entry that is popped by a
\* caller whose reading is not ahead of the clock is old enough.
LEMMA PopTracks ==
    ASSUME NEW q \in Seq(0..MaxTime), NEW a \in Seq(0..MaxTime), NEW time \in Nat,
           NEW now \in Nat, now <= time, Tracks(q, a, time)
    PROVE  Tracks(PopExpired(q, now - Window), a, time)
  <1> DEFINE u == PopExpired(q, now - Window)
  <1>1. Window \in Nat /\ MaxDelay \in Nat /\ MaxTime \in Nat /\ now - Window \in Int
    BY GuardAssumption
  <1>2. PICK p \in 0 .. Len(q) :
          /\ Len(u) = Len(q) - p
          /\ \A j \in 1 .. Len(q) - p : u[j] = q[p + j]
          /\ \A j \in 1 .. p : q[j] < now - Window
    BY <1>1, PopExpiredFacts
  <1> HIDE DEF u
  <1>3. /\ Len(q) \in Nat /\ Len(a) \in Nat /\ p \in Nat /\ p <= Len(q)
        /\ \A i \in 1 .. Len(q) : q[i] \in Int
        /\ \A i \in 1 .. Len(a) : a[i] \in Int
    BY <1>1
  <1>4. /\ Len(q) <= Len(a)
        /\ \A j \in 1 .. Len(q) : q[j] <= a[Of(q, a, j)] /\ a[Of(q, a, j)] <= q[j] + MaxDelay
        /\ \A i \in 1 .. Len(a) - Len(q) : a[i] + Window < time + MaxDelay
    BY DEF Tracks
  <1>5. Len(u) <= Len(a)
    BY <1>2, <1>3, <1>4
  <1>6. ASSUME NEW j \in 1 .. Len(u)
        PROVE  u[j] <= a[Of(u, a, j)] /\ a[Of(u, a, j)] <= u[j] + MaxDelay
    <2>1. p + j \in 1 .. Len(q) /\ u[j] = q[p + j] /\ Of(u, a, j) = Of(q, a, p + j)
      BY <1>2, <1>3 DEF Of
    <2> QED
      BY <1>4, <2>1
  <1>7. ASSUME NEW i \in 1 .. Len(a) - Len(u)
        PROVE  a[i] + Window < time + MaxDelay
    <2>1. CASE i <= Len(a) - Len(q)
      BY <1>2, <1>3, <1>4, <2>1
    <2>2. CASE i > Len(a) - Len(q)
      <3> DEFINE j == i - (Len(a) - Len(q))
      <3>1. j \in 1 .. p /\ j \in 1 .. Len(q) /\ Of(q, a, j) = i /\ i \in 1 .. Len(a)
        BY <1>2, <1>3, <1>4, <2>2 DEF Of
      <3> HIDE DEF j
      <3>2. q[j] < now - Window /\ a[i] <= q[j] + MaxDelay /\ q[j] \in Int /\ a[i] \in Int
        BY <1>2, <1>3, <1>4, <3>1
      <3> QED
        BY <1>1, <3>2, OldEnough
    <2> QED
      BY <1>3, <2>1, <2>2
  <1> QED
    BY <1>5, <1>6, <1>7 DEF Tracks, u

\* Time passing keeps them in step too.
LEMMA TimePasses ==
    ASSUME NEW q \in Seq(0..MaxTime), NEW a \in Seq(0..MaxTime), NEW time \in Nat,
           Tracks(q, a, time), Chronicle(a, time)
    PROVE  Tracks(q, a, time + 1) /\ Chronicle(a, time + 1)
  <1>1. /\ Window \in Nat /\ MaxDelay \in Nat /\ MaxTime \in Nat
        /\ Len(q) \in Nat /\ Len(a) \in Nat /\ \A i \in 1 .. Len(a) : a[i] \in Int
    BY GuardAssumption
  <1>2. ASSUME NEW i \in 1 .. Len(a) - Len(q) PROVE a[i] + Window < (time + 1) + MaxDelay
    <2>1. a[i] + Window < time + MaxDelay /\ i \in 1 .. Len(a)
      BY <1>1 DEF Tracks
    <2> QED
      BY <1>1, <2>1
  <1>3. ASSUME NEW i \in 1 .. Len(a) PROVE a[i] <= time + 1
    BY <1>1 DEF Chronicle
  <1> QED
    BY <1>2, <1>3 DEF Tracks, Chronicle

\* An admission is added to the queue by its reading and to the history by its time.
LEMMA AppendTracks ==
    ASSUME NEW q \in Seq(0..MaxTime), NEW a \in Seq(0..MaxTime), NEW time \in 0..MaxTime,
           NEW now \in 0..MaxTime, now <= time, time <= now + MaxDelay,
           Tracks(q, a, time), Chronicle(a, time)
    PROVE  Tracks(Append(q, now), Append(a, time), time) /\ Chronicle(Append(a, time), time)
  <1> DEFINE u == Append(q, now)
             b == Append(a, time)
  <1>1. Window \in Nat /\ MaxDelay \in Nat /\ MaxTime \in Nat
    BY GuardAssumption
  <1>2. /\ Len(q) \in Nat /\ Len(u) = Len(q) + 1 /\ u[Len(q) + 1] = now
        /\ \A j \in 1 .. Len(q) : u[j] = q[j]
    OBVIOUS
  <1>3. /\ Len(a) \in Nat /\ Len(b) = Len(a) + 1 /\ b[Len(a) + 1] = time
        /\ \A j \in 1 .. Len(a) : b[j] = a[j]
    OBVIOUS
  <1> HIDE DEF u, b
  <1>4. /\ Len(q) <= Len(a)
        /\ \A j \in 1 .. Len(q) : q[j] <= a[Of(q, a, j)] /\ a[Of(q, a, j)] <= q[j] + MaxDelay
        /\ \A i \in 1 .. Len(a) - Len(q) : a[i] + Window < time + MaxDelay
    BY DEF Tracks
  <1>5. ASSUME NEW j \in 1 .. Len(u)
        PROVE  u[j] <= b[Of(u, b, j)] /\ b[Of(u, b, j)] <= u[j] + MaxDelay
    <2>1. CASE j \in 1 .. Len(q)
      <3>1. Of(u, b, j) = Of(q, a, j) /\ Of(q, a, j) \in 1 .. Len(a)
        BY <1>2, <1>3, <1>4, <2>1 DEF Of
      <3> QED
        BY <1>2, <1>3, <1>4, <2>1, <3>1
    <2>2. CASE j = Len(q) + 1
      <3>1. Of(u, b, j) = Len(a) + 1
        BY <1>2, <1>3, <2>2 DEF Of
      <3> QED
        BY <1>2, <1>3, <2>2, <3>1
    <2> QED
      BY <1>2, <2>1, <2>2
  <1>6. Tracks(u, b, time)
    <2>1. ASSUME NEW i \in 1 .. Len(b) - Len(u) PROVE b[i] + Window < time + MaxDelay
      <3>1. i \in 1 .. Len(a) - Len(q) /\ i \in 1 .. Len(a)
        BY <1>2, <1>3
      <3> QED
        BY <1>3, <1>4, <3>1
    <2>2. Len(u) <= Len(b)
      BY <1>2, <1>3, <1>4
    <2> QED
      BY <1>5, <2>1, <2>2 DEF Tracks
  <1>7. Chronicle(b, time)
    <2> SUFFICES ASSUME NEW i \in 1 .. Len(b)
                 PROVE  b[i] <= time /\ \A j \in i .. Len(b) : b[i] <= b[j]
      BY DEF Chronicle
    <2>1. CASE i = Len(a) + 1
      BY <1>1, <1>3, <2>1
    <2>2. CASE i \in 1 .. Len(a)
      <3>1. b[i] = a[i] /\ a[i] <= time /\ \A j \in i .. Len(a) : a[i] <= a[j]
        BY <1>3, <2>2 DEF Chronicle
      <3>2. ASSUME NEW j \in i .. Len(b) PROVE b[i] <= b[j]
        <4>1. CASE j = Len(a) + 1
          BY <1>3, <3>1, <4>1
        <4>2. CASE j \in i .. Len(a)
          <5>1. j \in 1 .. Len(a)
            BY <1>3, <2>2, <4>2
          <5> QED
            BY <1>3, <3>1, <4>2, <5>1
        <4> QED
          BY <1>3, <2>2, <4>1, <4>2
      <3> QED
        BY <3>1, <3>2
    <2> QED
      BY <1>3, <2>1, <2>2
  <1> QED
    BY <1>6, <1>7 DEF u, b

\* How many admissions of a period there are, by the places they have in the history.
LEMMA DuringFinite ==
    ASSUME NEW a \in Seq(0..MaxTime), NEW from, NEW to
    PROVE  IsFiniteSet(During(a, from, to)) /\ Cardinality(During(a, from, to)) \in Nat
  <1>1. IsFiniteSet(1 .. Len(a))
    BY FS_Interval
  <1>2. During(a, from, to) \subseteq 1 .. Len(a)
    BY DEF During
  <1>3. IsFiniteSet(During(a, from, to))
    BY <1>1, <1>2, FS_Subset
  <1> QED
    BY <1>3, FS_CardinalityType

\* In a period that has not ended, only what is in the queue was admitted.
LEMMA AtMostQueue ==
    ASSUME NEW q \in Seq(0..MaxTime), NEW a \in Seq(0..MaxTime), NEW time \in Nat,
           Tracks(q, a, time), NEW t \in Nat, time <= t + Window - MaxDelay
    PROVE  Cardinality(During(a, t, t + Window - MaxDelay)) <= Len(q)
  <1> DEFINE I == Len(a) - Len(q) + 1 .. Len(a)
  <1>1. /\ Window \in Nat /\ MaxDelay \in Nat /\ MaxTime \in Nat
        /\ Len(q) \in Nat /\ Len(a) \in Nat /\ Len(q) <= Len(a)
        /\ \A i \in 1 .. Len(a) : a[i] \in Int
    BY GuardAssumption DEF Tracks
  <1>2. IsFiniteSet(I) /\ Cardinality(I) = Len(q)
    <2>1. Len(a) - Len(q) + 1 \in Int /\ Len(a) \in Int
      BY <1>1
    <2>2. /\ IsFiniteSet(I)
          /\ Cardinality(I) = IF Len(a) - Len(q) + 1 > Len(a) THEN 0
                              ELSE Len(a) - (Len(a) - Len(q) + 1) + 1
      BY <2>1, FS_Interval
    <2> HIDE DEF I
    <2> QED
      BY <1>1, <2>2
  <1>3. During(a, t, t + Window - MaxDelay) \subseteq I
    <2> SUFFICES ASSUME NEW i \in 1 .. Len(a), t <= a[i] PROVE i \in I
      BY DEF During
    <2>1. ~(i \in 1 .. Len(a) - Len(q))
      BY <1>1 DEF Tracks
    <2> QED
      BY <1>1, <2>1
  <1> HIDE DEF I
  <1> QED
    BY <1>2, <1>3, FS_Subset

\* The places p + 1 .. Len(a) of a history are as many.
LEMMA AtLeastTail ==
    ASSUME NEW a \in Seq(0..MaxTime), NEW from, NEW to, NEW p \in 0 .. Len(a),
           \A i \in p + 1 .. Len(a) : from <= a[i] /\ a[i] <= to
    PROVE  Cardinality(During(a, from, to)) >= Len(a) - p
  <1> DEFINE I == p + 1 .. Len(a)
  <1>1. Len(a) \in Nat /\ p \in Nat /\ p <= Len(a)
    OBVIOUS
  <1>2. Cardinality(I) = Len(a) - p
    <2>1. p + 1 \in Int /\ Len(a) \in Int
      BY <1>1
    <2>2. Cardinality(I) = IF p + 1 > Len(a) THEN 0 ELSE Len(a) - (p + 1) + 1
      BY <2>1, FS_Interval
    <2> HIDE DEF I
    <2> QED
      BY <1>1, <2>2
  <1>3. I \subseteq During(a, from, to)
    BY <1>1 DEF During
  <1>4. IsFiniteSet(During(a, from, to)) /\ Cardinality(During(a, from, to)) \in Nat
    BY DuringFinite
  <1> HIDE DEF I
  <1>5. Cardinality(I) <= Cardinality(During(a, from, to))
    BY <1>3, <1>4, FS_Subset
  <1> QED
    BY <1>1, <1>2, <1>4, <1>5
-------------------------------------------------------------------------------
(***************************************************************************)
(* RateInv is inductive relative to GuardInv                                *)
(***************************************************************************)

\* The queue of a tuple in a shard, and what the guard's operations make of it.
LEMMA QueueType ==
    ASSUME NEW s, Valid(s), NEW k \in Keys
    PROVE  Queue(s.ts, k) \in Seq(0..MaxTime)
  <1>1. CASE k \in DOMAIN s.ts
    BY <1>1 DEF Queue, Lookup, Valid
  <1>2. CASE k \notin DOMAIN s.ts
    <2>1. Queue(s.ts, k) = <<>>
      BY <1>2 DEF Queue, Lookup
    <2>2. <<>> \in Seq(0..MaxTime)
      OBVIOUS
    <2> QED
      BY <2>1, <2>2, Zenon
  <1> QED
    BY <1>1, <1>2

LEMMA InsertQueue ==
    ASSUME NEW ts, NEW x, NEW v, NEW k
    PROVE  Queue(Insert(ts, x, v), k) = IF k = x THEN v ELSE Queue(ts, k)
  BY DEF Queue, Lookup, Insert

LEMMA RemoveQueue ==
    ASSUME NEW ts, NEW fl, NEW keys, NEW k \in Keys
    PROVE  Queue(RemoveIfIdle(Shard(ts, fl), keys).ts, k) = Queue(ts, k)
  <1> DEFINE s == Shard(ts, fl)
             kept == {x \in Keys : x \in keys =>
                         Lookup(s.fl, x, 0) > 0 \/ Lookup(s.ts, x, <<>>) # <<>>}
             left == [x \in DOMAIN s.ts \cap kept |-> s.ts[x]]
  <1>1. RemoveIfIdle(s, keys).ts = left
    BY DEF RemoveIfIdle, Restrict, Shard
  <1>2. s.ts = ts
    BY DEF Shard
  <1>3. CASE k \in kept
    <2>1. k \in DOMAIN left <=> k \in DOMAIN ts
      BY <1>2, <1>3
    <2>2. k \in DOMAIN left => left[k] = ts[k]
      BY <1>2
    <2> HIDE DEF left
    <2> QED
      BY <1>1, <2>1, <2>2 DEF Queue, Lookup
  <1>4. CASE k \notin kept
    <2>1. Queue(ts, k) = <<>>
      BY <1>2, <1>4 DEF Queue
    <2>2. k \notin DOMAIN left
      BY <1>4
    <2> HIDE DEF left
    <2> QED
      BY <1>1, <2>1, <2>2 DEF Queue, Lookup
  <1> QED
    BY <1>3, <1>4

LEMMA SweepQueue ==
    ASSUME NEW s, NEW cutoff, NEW k \in Keys
    PROVE  Queue(Sweep(s, cutoff).ts, k) = PopExpired(Queue(s.ts, k), cutoff)
  <1> DEFINE ts == [x \in DOMAIN s.ts |-> PopExpired(s.ts[x], cutoff)]
  <1>1. Queue(Sweep(s, cutoff).ts, k) = Queue(ts, k)
    BY RemoveQueue DEF Sweep
  <1>2. CASE k \in DOMAIN s.ts
    <2>1. Queue(ts, k) = PopExpired(s.ts[k], cutoff) /\ Queue(s.ts, k) = s.ts[k]
      BY <1>2 DEF Queue, Lookup
    <2> QED
      BY <1>1, <2>1
  <1>3. CASE k \notin DOMAIN s.ts
    <2>1. Queue(ts, k) = <<>> /\ Queue(s.ts, k) = <<>>
      BY <1>3 DEF Queue, Lookup
    <2>2. PopExpired(<<>>, cutoff) = <<>>
      <3>1. {i \in DOMAIN <<>> : <<>>[i] >= cutoff} = {}
        OBVIOUS
      <3> QED
        BY <3>1, Zenon DEF PopExpired
    <2> QED
      BY <1>1, <2>1, <2>2
  <1> QED
    BY <1>2, <1>3

\* Under the mutex a caller finds every queue popped by its own reading.
LEMMA SweptQueues ==
    ASSUME NEW c \in Callers, NEW k \in Keys
    PROVE  LET popped == PopExpired(Queue(request_timestamps, k), call[c].now - Window) IN
           Queue(Swept(c).ts, k) = popped /\ Queue(Touched(c).ts, k) = popped
  <1>1. Queue(Swept(c).ts, k) = PopExpired(Queue(request_timestamps, k), call[c].now - Window)
    BY SweepQueue, CurrentFacts DEF Swept
  <1>2. Queue(Touched(c).ts, k) = Queue(Swept(c).ts, k)
    <2> DEFINE s == Swept(c)
               x == call[c].key
    <2>1. Touched(c) = RemoveIfIdle(Shard(Insert(s.ts, x, Lookup(s.ts, x, <<>>)), s.fl), {x})
      BY DEF Touched
    <2> HIDE DEF s, x
    <2>2. Queue(Touched(c).ts, k) = Queue(Insert(s.ts, x, Lookup(s.ts, x, <<>>)), k)
      BY <2>1, RemoveQueue
    <2>3. Queue(Insert(s.ts, x, Lookup(s.ts, x, <<>>)), k) = Queue(s.ts, k)
      BY InsertQueue DEF Queue
    <2> QED
      BY <2>2, <2>3 DEF s
  <1> QED
    BY <1>1, <1>2

LEMMA AdmittedIsDuring == \A k, from, to : AdmittedDuring(k, from, to) = Cardinality(During(admitted[k], from, to))
  BY DEF AdmittedDuring, During

LEMMA LargestRateFacts ==
    /\ LargestRate \in Nat
    /\ \A cf \in Configs : cf.max_requests_per_minute <= LargestRate
  <1> DEFINE S == {cf.max_requests_per_minute : cf \in Configs}
  <1>1. S \in SUBSET (0..MaxUsize) /\ S # {} /\ MaxUsize \in Nat
    BY GuardAssumption DEF Config
  <1>2. \A cf \in Configs : cf.max_requests_per_minute \in S
    OBVIOUS
  <1>3. LargestRate = Max(S)
    BY DEF LargestRate
  <1> HIDE DEF S
  <1>4. Max(S) \in S /\ \A y \in S : y <= Max(S)
    BY <1>1, LargestFacts
  <1>5. Max(S) \in Nat
    <2>1. Max(S) \in 0..MaxUsize
      BY <1>1, <1>4, Zenon
    <2> QED
      BY <1>1, <2>1
  <1> QED
    BY <1>2, <1>3, <1>4, <1>5

LEMMA InitRate == Init => RateInv
  <1> SUFFICES ASSUME Init PROVE RateInv
    OBVIOUS
  <1>1. \A c \in Callers : Timely(c)
    BY DEF Init, Timely, Idle
  <1>2. \A k \in Keys : Queue(request_timestamps, k) = <<>> /\ admitted[k] = <<>>
    BY DEF Init, Queue, Lookup
  <1>3. Tracks(<<>>, <<>>, clock) /\ Chronicle(<<>>, clock)
    BY DEF Tracks, Chronicle
  <1>4. RateBound
    <2> SUFFICES ASSUME NEW k \in Keys, NEW t \in 0..MaxTime
                 PROVE  AdmittedDuring(k, t, t + Window - MaxDelay) <= LargestRate
      BY DEF RateBound
    <2>1. During(admitted[k], t, t + Window - MaxDelay) = {}
      BY <1>2 DEF During
    <2> QED
      BY <2>1, AdmittedIsDuring, FS_EmptySet, LargestRateFacts
  <1> QED
    BY <1>1, <1>2, <1>3, <1>4 DEF RateInv

\* A step that admits nobody and at most pops what is expired.
LEMMA QuietRate ==
    ASSUME GuardInv, RateInv, UNCHANGED <<clock, admitted>>,
           \A c \in Callers : Timely(c)',
           NEW now \in Nat, now <= clock,
           \A k \in Keys :
              \/ Queue(request_timestamps', k) = Queue(request_timestamps, k)
              \/ Queue(request_timestamps', k) =
                     PopExpired(Queue(request_timestamps, k), now - Window)
    PROVE  RateInv'
  <1>1. ASSUME NEW k \in Keys
        PROVE  Tracks(Queue(request_timestamps', k), admitted[k], clock)
    <2>1. /\ Queue(request_timestamps, k) \in Seq(0..MaxTime)
          /\ admitted[k] \in Seq(0..MaxTime) /\ clock \in Nat
      BY QueueType, CurrentFacts, GuardAssumption DEF GuardInv
    <2>2. Tracks(Queue(request_timestamps, k), admitted[k], clock)
      BY DEF RateInv
    <2>3. Tracks(PopExpired(Queue(request_timestamps, k), now - Window), admitted[k], clock)
      BY <2>1, <2>2, PopTracks
    <2> QED
      BY <2>2, <2>3
  <1>2. \A k \in Keys : Chronicle(admitted[k], clock)
    BY DEF RateInv
  <1>3. RateBound'
    BY DEF RateInv, RateBound, AdmittedDuring, LargestRate
  <1> QED
    BY <1>1, <1>2, <1>3 DEF RateInv

LEMMA TickRate ==
    ASSUME GuardInv, RateInv, Tick
    PROVE  RateInv'
  <1>1. /\ clock' = clock + 1 /\ UNCHANGED <<request_timestamps, call, admitted>>
        /\ \A c \in Callers : call[c].pc = "calling" => clock < call[c].now + MaxDelay
    BY DEF Tick
  <1>2. ASSUME NEW c \in Callers PROVE Timely(c)'
    <2> SUFFICES ASSUME call[c].pc = "calling"
                 PROVE  call[c].now <= clock + 1 /\ clock + 1 <= call[c].now + MaxDelay
      BY <1>1 DEF Timely
    <2>1. call[c].now \in Nat /\ clock \in Nat /\ MaxDelay \in Nat
      BY CallingFacts, GuardAssumption DEF GuardInv
    <2>2. call[c].now <= clock /\ clock < call[c].now + MaxDelay
      BY <1>1 DEF RateInv, Timely
    <2> QED
      BY <2>1, <2>2
  <1>3. ASSUME NEW k \in Keys
        PROVE  /\ Tracks(Queue(request_timestamps, k), admitted[k], clock + 1)
               /\ Chronicle(admitted[k], clock + 1)
    <2>1. /\ Queue(request_timestamps, k) \in Seq(0..MaxTime)
          /\ admitted[k] \in Seq(0..MaxTime) /\ clock \in Nat
      BY QueueType, CurrentFacts, GuardAssumption DEF GuardInv
    <2> QED
      BY <2>1, TimePasses DEF RateInv
  <1>4. RateBound'
    BY <1>1 DEF RateInv, RateBound, AdmittedDuring, LargestRate
  <1> QED
    BY <1>1, <1>2, <1>3, <1>4 DEF RateInv

\* A period with the new admission in it has not ended, so it has at most what is
\* in the queue, which was below the limit; the others are as they were.
LEMMA EnterRate ==
    ASSUME GuardInv, RateInv, NEW c \in Callers, Enter(c)
    PROVE  RateInv'
  <1>0. call[c].pc = "calling"
    BY DEF Enter
  <1>1. PICK k \in Keys, now \in 0..MaxTime, config \in Configs :
          k = call[c].key /\ now = call[c].now /\ config = call[c].config
    BY <1>0, CallingFacts
  <1> DEFINE popped(x) == PopExpired(Queue(request_timestamps, x), now - Window)
             q == Append(popped(k), now)
             a == Append(admitted[k], clock)
  <1>2. /\ request_timestamps' =
              Insert(Touched(c).ts, k, Append(Queue(Touched(c).ts, k), now))
        /\ ~(Len(Queue(Swept(c).ts, k)) >= config.max_requests_per_minute)
        /\ call' = [call EXCEPT ![c] = Holding(k)]
        /\ admitted' = [admitted EXCEPT ![k] = a]
        /\ clock' = clock
    BY <1>1 DEF Enter, SetShard, Shard, RateExceeded, Queue
  <1>3. /\ Queue(request_timestamps', k) = q
        /\ \A x \in Keys \ {k} : Queue(request_timestamps', x) = popped(x)
        /\ ~(Len(popped(k)) >= config.max_requests_per_minute)
    <2>1. \A x \in Keys : Queue(Swept(c).ts, x) = popped(x) /\ Queue(Touched(c).ts, x) = popped(x)
      BY <1>1, SweptQueues
    <2> HIDE DEF popped
    <2> DEFINE ts == Touched(c).ts
               v == Append(Queue(ts, k), now)
    <2>2. request_timestamps' = Insert(ts, k, v)
      BY <1>2
    <2>3. v = q
      BY <2>1
    <2> HIDE DEF ts, v, q
    <2>4. \A x : Queue(Insert(ts, k, v), x) = IF x = k THEN v ELSE Queue(ts, x)
      BY InsertQueue
    <2>5. /\ Queue(request_timestamps', k) = q
          /\ \A x \in Keys \ {k} : Queue(request_timestamps', x) = Queue(ts, x)
      BY <2>2, <2>3, <2>4
    <2>6. ~(Len(popped(k)) >= config.max_requests_per_minute)
      BY <1>2, <2>1
    <2> QED
      BY <2>1, <2>5, <2>6 DEF ts
  <1>4. /\ admitted \in [Keys -> Seq(0..MaxTime)]
        /\ admitted'[k] = a /\ \A x \in Keys \ {k} : admitted'[x] = admitted[x]
    BY <1>2 DEF GuardInv
  <1>5. /\ clock \in 0..MaxTime /\ clock \in Nat /\ now \in Nat /\ MaxTime \in Nat
        /\ now <= clock /\ clock <= now + MaxDelay /\ Window \in Nat /\ MaxDelay \in Nat
    <2>1. Timely(c)
      BY DEF RateInv
    <2> QED
      BY <1>0, <1>1, <2>1, GuardAssumption DEF GuardInv, Timely
  <1>6. ASSUME NEW x \in Keys
        PROVE  /\ popped(x) \in Seq(0..MaxTime) /\ Tracks(popped(x), admitted[x], clock)
               /\ Chronicle(admitted[x], clock)
    <2>1. Queue(request_timestamps, x) \in Seq(0..MaxTime) /\ admitted[x] \in Seq(0..MaxTime)
      BY QueueType, CurrentFacts DEF GuardInv
    <2>2. Tracks(Queue(request_timestamps, x), admitted[x], clock) /\ Chronicle(admitted[x], clock)
      BY DEF RateInv
    <2>3. now - Window \in Int
      BY <1>5
    <2> QED
      BY <1>5, <2>1, <2>2, <2>3, PopTracks, PopExpiredType
  <1> HIDE DEF popped
  <1>7. /\ Tracks(q, a, clock) /\ Chronicle(a, clock)
        /\ q \in Seq(0..MaxTime) /\ a \in Seq(0..MaxTime) /\ Len(q) = Len(popped(k)) + 1
    <2>1. popped(k) \in Seq(0..MaxTime) /\ admitted[k] \in Seq(0..MaxTime)
      BY <1>4, <1>6
    <2>2. Tracks(q, a, clock) /\ Chronicle(a, clock)
      BY <1>5, <1>6, <2>1, AppendTracks
    <2> QED
      BY <1>5, <2>1, <2>2
  <1>8. \A x \in Callers : Timely(x)'
    BY <1>2 DEF RateInv, Timely, Holding, GuardInv
  <1>9. Len(q) <= LargestRate
    <2>1. config.max_requests_per_minute \in Nat /\ config.max_requests_per_minute <= LargestRate
      BY LargestRateFacts, GuardAssumption DEF Config
    <2>2. Len(popped(k)) \in Nat
      BY <1>6
    <2> HIDE DEF q
    <2> QED
      BY <1>3, <1>7, <2>1, <2>2, LargestRateFacts
  <1>10. RateBound'
    <2> SUFFICES ASSUME NEW x \in Keys, NEW t \in 0..MaxTime
                 PROVE  Cardinality(During(admitted'[x], t, t + Window - MaxDelay)) <= LargestRate
      BY DEF RateBound, AdmittedDuring, During, LargestRate
    <2>1. Cardinality(During(admitted[x], t, t + Window - MaxDelay)) <= LargestRate
      BY AdmittedIsDuring DEF RateInv, RateBound
    <2>2. CASE x # k
      BY <1>4, <2>1, <2>2
    <2>3. CASE x = k /\ clock <= t + Window - MaxDelay
      <3>1. t \in Nat
        BY <1>5
      <3>2. Cardinality(During(a, t, t + Window - MaxDelay)) <= Len(q)
        BY <1>5, <1>7, <2>3, <3>1, AtMostQueue
      <3> HIDE DEF q, a
      <3>3. Cardinality(During(a, t, t + Window - MaxDelay)) \in Nat /\ Len(q) \in Nat
        BY <1>7, DuringFinite
      <3> QED
        BY <1>4, <1>9, <2>3, <3>2, <3>3, LargestRateFacts
    <2>4. CASE x = k /\ ~(clock <= t + Window - MaxDelay)
      <3>1. admitted[k] \in Seq(0..MaxTime)
        BY <1>4
      <3>2. During(a, t, t + Window - MaxDelay) = During(admitted[k], t, t + Window - MaxDelay)
        <4>1. /\ Len(admitted[k]) \in Nat /\ DOMAIN admitted[k] = 1 .. Len(admitted[k])
              /\ DOMAIN a = 1 .. Len(admitted[k]) + 1 /\ a[Len(admitted[k]) + 1] = clock
              /\ \A i \in 1 .. Len(admitted[k]) : a[i] = admitted[k][i]
          BY <1>5, <3>1
        <4> HIDE DEF a
        <4> QED
          BY <2>4, <4>1 DEF During
      <3> QED
        BY <1>4, <2>1, <2>4, <3>2
    <2> QED
      BY <2>2, <2>3, <2>4
  <1>11. ASSUME NEW x \in Keys
         PROVE  Tracks(Queue(request_timestamps', x), admitted'[x], clock)
                /\ Chronicle(admitted'[x], clock)
    <2> HIDE DEF q, a
    <2> QED
      BY <1>3, <1>4, <1>6, <1>7
  <1> QED
    BY <1>2, <1>8, <1>10, <1>11 DEF RateInv

LEMMA StepRate == GuardInv /\ RateInv /\ [Next]_vars => RateInv'
  <1> SUFFICES ASSUME GuardInv, RateInv, [Next]_vars PROVE RateInv'
    OBVIOUS
  <1>0. clock \in Nat /\ clock <= clock
    BY GuardAssumption DEF GuardInv
  <1>1. ASSUME NEW c \in Callers, NEW key \in Keys, NEW config \in Configs, Call(c, key, config)
        PROVE  RateInv'
    <2>1. /\ call' = [call EXCEPT ![c] = Calling(key, config, clock)]
          /\ UNCHANGED <<clock, request_timestamps, admitted>>
      BY <1>1 DEF Call
    <2>2. \A x \in Callers : Timely(x)'
      BY <1>0, <2>1, GuardAssumption DEF RateInv, Timely, Calling, GuardInv
    <2> QED
      BY <1>0, <2>1, <2>2, QuietRate
  <1>2. ASSUME NEW c \in Callers, RefuseMisconfigured(c) PROVE RateInv'
    <2>1. /\ call' = [call EXCEPT ![c] = Idle]
          /\ UNCHANGED <<clock, request_timestamps, admitted>>
      BY <1>2 DEF RefuseMisconfigured
    <2>2. \A x \in Callers : Timely(x)'
      BY <2>1 DEF RateInv, Timely, Idle, GuardInv
    <2> QED
      BY <1>0, <2>1, <2>2, QuietRate
  <1>3. ASSUME NEW c \in Callers, RefuseRate(c) \/ RefuseConcurrency(c) PROVE RateInv'
    <2>1. /\ call' = [call EXCEPT ![c] = Idle] /\ UNCHANGED <<clock, admitted>>
          /\ call[c].pc = "calling"
          /\ request_timestamps' = Swept(c).ts \/ request_timestamps' = Touched(c).ts
      BY <1>3 DEF RefuseRate, RefuseConcurrency, SetShard
    <2>2. \A x \in Callers : Timely(x)'
      BY <2>1 DEF RateInv, Timely, Idle, GuardInv
    <2>3. call[c].now \in Nat /\ call[c].now <= clock
      BY <2>1, CallingFacts, GuardAssumption DEF RateInv, Timely
    <2>4. \A k \in Keys : Queue(request_timestamps', k) =
              PopExpired(Queue(request_timestamps, k), call[c].now - Window)
      BY <2>1, SweptQueues
    <2> QED
      BY <2>1, <2>2, <2>3, <2>4, QuietRate
  <1>4. ASSUME NEW c \in Callers, Release(c) PROVE RateInv'
    <2>1. PICK fl, keys : request_timestamps' = RemoveIfIdle(Shard(request_timestamps, fl), keys).ts
      BY <1>4 DEF Release, SetShard
    <2>2. call' = [call EXCEPT ![c] = Idle] /\ UNCHANGED <<clock, admitted>>
      BY <1>4 DEF Release
    <2>3. \A x \in Callers : Timely(x)'
      BY <2>2 DEF RateInv, Timely, Idle, GuardInv
    <2>4. \A k \in Keys : Queue(request_timestamps', k) = Queue(request_timestamps, k)
      BY <2>1, RemoveQueue
    <2> QED
      BY <1>0, <2>2, <2>3, <2>4, QuietRate
  <1>5. CASE UNCHANGED vars
    BY <1>0, <1>5, QuietRate DEF vars, RateInv, Timely
  <1> QED
    BY <1>1, <1>2, <1>3, <1>4, <1>5, TickRate, EnterRate DEF Next

\* Every queue holds the readings of the latest admissions, and what was popped
\* from it had left the window.
THEOREM RateInductive == Spec => []RateInv
  BY InitRate, StepRate, GuardInductive, PTL DEF Spec

\* The rate limit holds in real time, however late and out of order the readings of
\* the clock reach the shard, and whoever sweeps it.
THEOREM RateBounded == Spec => []RateBound
  <1>1. RateInv => RateBound
    BY DEF RateInv
  <1> QED
    BY <1>1, RateInductive, PTL

\* A timestamp that stays behind an out-of-order one is of an admission no older
\* than that one's, so a tuple that is refused for its rate was busy.
THEOREM RefusalsJustified == Spec => RefusalJustified
  <1>1. ASSUME GuardInv, RateInv, NEW c \in Callers, RefuseRate(c)
        PROVE  AdmittedDuring(call[c].key, clock - Window - MaxDelay, clock)
                   >= call[c].config.max_requests_per_minute
    <2>1. call[c].pc = "calling" /\ RateExceeded(c)
      BY <1>1 DEF RefuseRate
    <2>2. PICK k \in Keys, now \in 0..MaxTime, config \in Configs :
            k = call[c].key /\ now = call[c].now /\ config = call[c].config
      BY <1>1, <2>1, CallingFacts
    <2> DEFINE q == Queue(request_timestamps, k)
               a == admitted[k]
               u == PopExpired(q, now - Window)
    <2>3. Len(u) >= config.max_requests_per_minute
      <3>1. Len(Queue(Swept(c).ts, k)) >= config.max_requests_per_minute
        BY <2>1, <2>2 DEF RateExceeded, Queue
      <3> QED
        BY <2>2, <3>1, SweptQueues
    <2>4. /\ q \in Seq(0..MaxTime) /\ a \in Seq(0..MaxTime)
          /\ Tracks(q, a, clock) /\ Chronicle(a, clock)
      BY <1>1, QueueType, CurrentFacts DEF GuardInv, RateInv
    <2>5. /\ clock \in Nat /\ now \in Nat /\ Window \in Nat /\ MaxDelay \in Nat /\ MaxTime \in Nat
          /\ clock <= now + MaxDelay /\ now - Window \in Int
      <3>1. Timely(c)
        BY <1>1 DEF RateInv
      <3> QED
        BY <1>1, <2>1, <2>2, <3>1, GuardAssumption DEF GuardInv, Timely
    <2> HIDE DEF q, a
    <2>6. PICK p \in 0 .. Len(q) :
            /\ Len(u) = Len(q) - p
            /\ p < Len(q) => q[p + 1] >= now - Window
      BY <2>4, <2>5, PopExpiredFacts
    <2> HIDE DEF u
    <2> DEFINE first == Len(a) - Len(q) + p
    <2>7. /\ Len(a) \in Nat /\ Len(q) \in Nat /\ Len(q) <= Len(a) /\ first \in 0 .. Len(a)
          /\ Len(a) - first = Len(u)
          /\ \A i \in 1 .. Len(a) : a[i] \in Int
          /\ \A i \in 1 .. Len(q) : q[i] \in Int
      <3>1. Len(a) \in Nat /\ Len(q) \in Nat /\ Len(q) <= Len(a)
        BY <2>4 DEF Tracks
      <3>2. /\ \A i \in 1 .. Len(a) : a[i] \in Int
            /\ \A i \in 1 .. Len(q) : q[i] \in Int
        BY <2>4, <2>5
      <3>3. first \in 0 .. Len(a) /\ Len(a) - first = Len(u)
        BY <2>6, <3>1
      <3> QED
        BY <3>1, <3>2, <3>3
    <2>8. ASSUME NEW i \in first + 1 .. Len(a)
          PROVE  clock - Window - MaxDelay <= a[i] /\ a[i] <= clock
      <3>1. p + 1 \in 1 .. Len(q) /\ p < Len(q) /\ i \in 1 .. Len(a) /\ first + 1 \in 1 .. Len(a)
        BY <2>7
      <3>2. q[p + 1] <= a[first + 1]
        <4>1. Of(q, a, p + 1) = first + 1
          BY <2>7, <3>1 DEF Of
        <4> QED
          BY <2>4, <3>1, <4>1 DEF Tracks
      <3> HIDE DEF first
      <3>3. a[first + 1] <= a[i] /\ a[i] <= clock
        BY <2>4, <3>1 DEF Chronicle
      <3>4. q[p + 1] >= now - Window
        BY <2>6, <3>1
      <3>5. q[p + 1] \in Int /\ a[first + 1] \in Int /\ a[i] \in Int
        BY <2>7, <3>1
      <3> QED
        BY <2>5, <3>2, <3>3, <3>4, <3>5
    <2> HIDE DEF first
    <2>9. Cardinality(During(a, clock - Window - MaxDelay, clock)) >= Len(a) - first
      BY <2>4, <2>7, <2>8, AtLeastTail
    <2>10. Cardinality(During(a, clock - Window - MaxDelay, clock)) \in Nat
      BY <2>4, DuringFinite
    <2>11. AdmittedDuring(k, clock - Window - MaxDelay, clock) =
               Cardinality(During(a, clock - Window - MaxDelay, clock))
      BY AdmittedIsDuring DEF a
    <2>12. config.max_requests_per_minute \in Nat
      BY GuardAssumption DEF Config
    <2>13. Len(u) \in Nat
      BY <2>6, <2>7
    <2> QED
      BY <2>2, <2>3, <2>7, <2>9, <2>10, <2>11, <2>12, <2>13
  <1>2. GuardInv /\ RateInv =>
            [\A c \in Callers :
                RefuseRate(c) =>
                    AdmittedDuring(call[c].key, clock - Window - MaxDelay, clock)
                        >= call[c].config.max_requests_per_minute]_vars
    BY <1>1
  <1> QED
    BY <1>2, GuardInductive, RateInductive, PTL DEF RefusalJustified
===============================================================================
