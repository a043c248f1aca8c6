-------------------------- MODULE MCRedisTrustState --------------------------
(***************************************************************************)
(* Small instances of RedisTrustState.                                      *)
(***************************************************************************)
EXTENDS RedisTrustState, TLC

T(agent, nonce, expires_at) ==
    [agent_id |-> agent, nonce |-> nonce, issued_at |-> 0, expires_at |-> expires_at]

\* Both expire on whole seconds while the clock runs, and carry one nonce.
WholeSecondToken == [t1 |-> T("a1", "n1", 2), t2 |-> T("a1", "n1", 4)]

\* Evaluations that race, one that administration races, and two administrators.
Pairs == {{"r1", "r2"}, {"r1", "m1"}, {"m1", "m2"}}

\* Long enough for a key to be evicted; administration has no use for the clock.
PairTimes == [c \in Crews |-> IF c \subseteq Requests THEN 5 ELSE 0]

\* Expires two thirds of a second after the second its key is given.
FractionToken == [t1 |-> T("a1", "n1", 5)]

Call(op, ids) == [op |-> op, ids |-> ids]

StoreCalls ==
    {Call("revoke_tokens", {"t1", "t2"}), Call("unrevoke_token", {"t1"}),
     Call("emergency_deny_agent", {"a1"}), Call("undeny_agent", {"a1"}),
     Call("clear_emergency_deny_list", {})}

\* The first batch of a scan is empty.
TwoBuckets == << {}, {"a1"} >>
OneBucket == << {"a1"} >>
NoCalls == {}
SixTicks == [c \in Crews |-> 6]
===============================================================================
