----------------------------- MODULE AdapterGuard -----------------------------
(***************************************************************************)
(* The per-tuple rate and concurrency guard of the protocol adapters        *)
(* (src/src/adapters/guard.rs).                                             *)
(*                                                                          *)
(* A caller reads the clock, calls enter_adapter_guard with that reading,   *)
(* and on success holds a lease until it is dropped.  The reading is taken  *)
(* before the shard's mutex, so readings reach the shard out of order and   *)
(* late.  One shard is modelled: shards share nothing, and all keys in one  *)
(* shard is the case in which a call for one key sweeps the others.         *)
(***************************************************************************)
EXTENDS Integers, Sequences, FiniteSets, Functions, FiniteSetsExt

CONSTANTS
    Callers,      \* adapter threads
    Keys,         \* (agent_id, delegator_id) tuples of one shard
    Configs,      \* the AdapterGuardConfig values callers pass
    MaxUsize,     \* usize::MAX
    Window,       \* one minute
    MaxDelay,     \* longest time from reading the clock to taking the mutex
    MaxTime       \* bound on the clock

Config ==
    [max_requests_per_minute : 0..MaxUsize, max_inflight_per_tuple : 0..MaxUsize]

ASSUME GuardAssumption ==
    /\ MaxUsize \in Nat
    /\ Configs \subseteq Config /\ Configs # {}
    /\ Window \in Nat /\ MaxDelay \in Nat /\ MaxTime \in Nat
    /\ MaxDelay <= Window

VARIABLES
    clock,
    request_timestamps,  \* [some keys -> timestamps, in order of arrival]
    inflight_by_tuple,   \* [some keys -> number of leases]
    call,                \* what each caller is doing
    admitted             \* history: when each key was admitted, in order

vars == <<clock, request_timestamps, inflight_by_tuple, call, admitted>>

Idle == [pc |-> "idle"]
Calling(key, config, now) ==
    [pc |-> "calling", key |-> key, config |-> config, now |-> now]
Holding(key) == [pc |-> "holding", key |-> key]

Init ==
    /\ clock = 0
    /\ request_timestamps = <<>>
    /\ inflight_by_tuple = <<>>
    /\ call = [c \in Callers |-> Idle]
    /\ admitted = [k \in Keys |-> <<>>]

-------------------------------------------------------------------------------
(***************************************************************************)
(* The state of a shard is a pair of maps: ts, the timestamps of each       *)
(* tracked key, and fl, its leases in flight.                               *)
(***************************************************************************)
Shard(ts, fl) == [ts |-> ts, fl |-> fl]

Lookup(f, k, default) == IF k \in DOMAIN f THEN f[k] ELSE default
Insert(f, k, v) == [x \in DOMAIN f \cup {k} |-> IF x = k THEN v ELSE f[x]]

\* Mutant: leases in flight do not keep a tuple.
RemoveIfIdleByTimestamps(s, keys) ==
    LET kept == {k \in Keys : k \in keys => Lookup(s.ts, k, <<>>) # <<>>}
    IN  Shard(Restrict(s.ts, DOMAIN s.ts \cap kept),
              Restrict(s.fl, DOMAIN s.fl \cap kept))

\* remove_tuple_if_idle for each key of a set.
RemoveIfIdle(s, keys) ==
    LET kept == {k \in Keys : k \in keys =>
                    Lookup(s.fl, k, 0) > 0 \/ Lookup(s.ts, k, <<>>) # <<>>}
    IN  Shard(Restrict(s.ts, DOMAIN s.ts \cap kept),
              Restrict(s.fl, DOMAIN s.fl \cap kept))

\* Mutant: a timestamp exactly one window old is dropped.
PopExpiredEarly(q, cutoff) ==
    LET live == {i \in DOMAIN q : q[i] > cutoff}
    IN  IF live = {} THEN <<>> ELSE SubSeq(q, Min(live), Len(q))

\* Mutant: timestamps behind a live one are dropped from the back instead.
PopExpiredBack(q, cutoff) ==
    IF q # <<>> /\ q[Len(q)] < cutoff THEN SubSeq(q, 1, Len(q) - 1) ELSE q

\* pop_front while the front is before the cutoff: what is behind the first
\* live timestamp stays, expired or not.
PopExpired(q, cutoff) ==
    LET live == {i \in DOMAIN q : q[i] >= cutoff}
    IN  IF live = {} THEN <<>> ELSE SubSeq(q, Min(live), Len(q))

\* sweep_expired_timestamps
Sweep(s, cutoff) ==
    RemoveIfIdle(Shard([k \in DOMAIN s.ts |-> PopExpired(s.ts[k], cutoff)], s.fl),
                 DOMAIN s.ts)

current == Shard(request_timestamps, inflight_by_tuple)

SetShard(s) ==
    /\ request_timestamps' = s.ts
    /\ inflight_by_tuple' = s.fl

-------------------------------------------------------------------------------
\* The adapter reads the clock and calls enter_adapter_guard.
Call(c, key, config) ==
    /\ call[c] = Idle
    /\ call' = [call EXCEPT ![c] = Calling(key, config, clock)]
    /\ UNCHANGED <<clock, request_timestamps, inflight_by_tuple, admitted>>

Misconfigured(config) ==
    config.max_requests_per_minute = 0 \/ config.max_inflight_per_tuple = 0

RefuseMisconfigured(c) ==
    /\ call[c].pc = "calling"
    /\ Misconfigured(call[c].config)
    /\ call' = [call EXCEPT ![c] = Idle]
    /\ UNCHANGED <<clock, request_timestamps, inflight_by_tuple, admitted>>

\* Under the mutex: sweep the whole shard, then look the key up.
Swept(c) == Sweep(current, call[c].now - Window)

RateExceeded(c) ==
    Len(Lookup(Swept(c).ts, call[c].key, <<>>)) >= call[c].config.max_requests_per_minute

RefuseRate(c) ==
    /\ call[c].pc = "calling"
    /\ ~Misconfigured(call[c].config)
    /\ RateExceeded(c)
    /\ SetShard(Swept(c))
    /\ call' = [call EXCEPT ![c] = Idle]
    /\ UNCHANGED <<clock, admitted>>

\* The rate check leaves an entry for the key, unless the tuple is idle.
Touched(c) ==
    LET s == Swept(c)
        k == call[c].key
    IN  RemoveIfIdle(Shard(Insert(s.ts, k, Lookup(s.ts, k, <<>>)), s.fl), {k})

ConcurrencyExceeded(c) ==
    Lookup(Touched(c).fl, call[c].key, 0) >= call[c].config.max_inflight_per_tuple

RefuseConcurrency(c) ==
    /\ call[c].pc = "calling"
    /\ ~Misconfigured(call[c].config)
    /\ ~RateExceeded(c)
    /\ ConcurrencyExceeded(c)
    /\ SetShard(Touched(c))
    /\ call' = [call EXCEPT ![c] = Idle]
    /\ UNCHANGED <<clock, admitted>>

Enter(c) ==
    LET s == Touched(c)
        k == call[c].key
    IN
    /\ call[c].pc = "calling"
    /\ ~Misconfigured(call[c].config)
    /\ ~RateExceeded(c)
    /\ ~ConcurrencyExceeded(c)
    /\ SetShard(Shard(Insert(s.ts, k, Append(Lookup(s.ts, k, <<>>), call[c].now)),
                      Insert(s.fl, k, Lookup(s.fl, k, 0) + 1)))
    /\ call' = [call EXCEPT ![c] = Holding(k)]
    /\ admitted' = [admitted EXCEPT ![k] = Append(@, clock)]
    /\ UNCHANGED clock

\* Mutant: the lease's key is left behind in the maps.
ReleaseKeepsTuple(c) ==
    LET k == call[c].key IN
    /\ call[c].pc = "holding"
    /\ SetShard(Shard(request_timestamps,
                      Insert(inflight_by_tuple, k, Lookup(inflight_by_tuple, k, 0) - 1)))
    /\ call' = [call EXCEPT ![c] = Idle]
    /\ UNCHANGED <<clock, admitted>>

\* AdapterGuardLease::drop.
Release(c) ==
    LET k == call[c].key
        left == Lookup(inflight_by_tuple, k, 0) - 1
        fl == IF k \notin DOMAIN inflight_by_tuple THEN inflight_by_tuple
              ELSE IF left <= 0
                   THEN Restrict(inflight_by_tuple, DOMAIN inflight_by_tuple \ {k})
                   ELSE [inflight_by_tuple EXCEPT ![k] = left]
    IN
    /\ call[c].pc = "holding"
    /\ SetShard(RemoveIfIdle(Shard(request_timestamps, fl), {k}))
    /\ call' = [call EXCEPT ![c] = Idle]
    /\ UNCHANGED <<clock, admitted>>

\* Time passes; no caller is held up for more than MaxDelay before the mutex.
Tick ==
    /\ clock < MaxTime
    /\ \A c \in Callers : call[c].pc = "calling" => clock < call[c].now + MaxDelay
    /\ clock' = clock + 1
    /\ UNCHANGED <<request_timestamps, inflight_by_tuple, call, admitted>>

Next ==
    \/ \E c \in Callers :
          \/ \E key \in Keys, config \in Configs : Call(c, key, config)
          \/ RefuseMisconfigured(c)
          \/ RefuseRate(c)
          \/ RefuseConcurrency(c)
          \/ Enter(c)
          \/ Release(c)
    \/ Tick

Spec == Init /\ [][Next]_vars

-------------------------------------------------------------------------------
(***************************************************************************)
(* Properties                                                               *)
(***************************************************************************)

\* Every variable has its type.
TypeOK ==
    /\ clock \in 0..MaxTime
    /\ DOMAIN request_timestamps \subseteq Keys
    /\ \A k \in DOMAIN request_timestamps : request_timestamps[k] \in Seq(0..MaxTime)
    /\ DOMAIN inflight_by_tuple \subseteq Keys
    /\ \A k \in DOMAIN inflight_by_tuple : inflight_by_tuple[k] \in Nat
    /\ admitted \in [Keys -> Seq(0..MaxTime)]

Leases(k) == {c \in Callers : call[c].pc = "holding" /\ call[c].key = k}

LargestInflight == Max({cf.max_inflight_per_tuple : cf \in Configs})
LargestRate == Max({cf.max_requests_per_minute : cf \in Configs})

\* Every variable has its type, and the count of every tuple is the number of
\* leases alive: no sweep, refusal or release of another caller ever loses or
\* adds one, and at no moment do more callers hold a lease than the most
\* generous configuration allows.
LeaseAccounting ==
    /\ TypeOK
    /\ \A k \in Keys :
          /\ Lookup(inflight_by_tuple, k, 0) = Cardinality(Leases(k))
          /\ Cardinality(Leases(k)) <= LargestInflight

\* The maps hold no tuple that has neither a timestamp nor a lease: the
\* process-wide maps do not grow with tuples that went away.
NoIdleTuples ==
    \A k \in DOMAIN request_timestamps \cup DOMAIN inflight_by_tuple :
        Lookup(request_timestamps, k, <<>>) # <<>> \/ Leases(k) # {}

AdmittedDuring(k, from, to) ==
    Cardinality({i \in DOMAIN admitted[k] : from <= admitted[k][i] /\ admitted[k][i] <= to})

\* The rate limit in real time: although readings of the clock reach the
\* shard late and out of order, and calls for other keys sweep this key's
\* timestamps, no period of Window less the callers' delay sees more
\* admissions of a tuple than configured.
RateBound ==
    \A k \in Keys, t \in 0..MaxTime :
        AdmittedDuring(k, t, t + Window - MaxDelay) <= LargestRate

\* Only a busy tuple is refused for its rate: timestamps that stay behind an
\* out-of-order one never keep a tuple blocked beyond Window plus the delay.
RefusalJustified ==
    [][\A c \in Callers :
          RefuseRate(c) =>
              AdmittedDuring(call[c].key, clock - Window - MaxDelay, clock)
                  >= call[c].config.max_requests_per_minute]_vars
===============================================================================
