-------------------------- MODULE MCTrustEvaluation --------------------------
(***************************************************************************)
(* Small instances of TrustEvaluation.  Token "short" expires while the     *)
(* clock still runs; "long" outlives it, so that consuming it prunes.       *)
(***************************************************************************)
EXTENDS TrustEvaluation, TLC

MCToken ==
    [t \in TokenIds |->
        IF t = "short"
        THEN [nonce |-> "n1", agent_id |-> "alice", issued_at |-> 0, expires_at |-> 1]
        ELSE [nonce |-> "n2", agent_id |-> "alice", issued_at |-> 1, expires_at |-> 9]]

Present(t, agent, doc, flaws) ==
    [token_id |-> t, agent_id |-> agent, doc_expires_at |-> doc, flaws |-> flaws]

\* Genuine requests for both tokens: replay and pruning.
MCReplays == {Present(t, "alice", 9, {}) : t \in TokenIds}

\* One request for each way a body can be wrong, and one that is not.
MCFlawed ==
    {Present("short", "alice", 9, f) :
        f \in {{}} \cup {{x} : x \in AuthenticityFlaws \cup AuthorityFlaws}}
    \cup {Present("short", "alice", 1, {}), Present("short", "mallory", 9, {}),
          Present("short", "mallory", 9, {"evaluate_policy", "verify_signatures"})}

RequestSymmetry == Permutations(Requests)
===============================================================================
