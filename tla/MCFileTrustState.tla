--------------------------- MODULE MCFileTrustState ---------------------------
(***************************************************************************)
(* A small instance of FileTrustState: every operation on one token and one  *)
(* agent, a nonce whose token expires while the clock runs and one whose     *)
(* token outlives it.                                                        *)
(***************************************************************************)
EXTENDS FileTrustState, TLC

Op(op, nonce, valid_until) ==
    [op |-> op, token_id |-> "t1", agent_id |-> "alice",
     nonce |-> nonce, valid_until |-> valid_until]

MCCalls ==
    {Op(op, "n1", 0) : op \in Operations \ {"consume_nonce"}}
    \cup {Op("consume_nonce", "n1", 1), Op("consume_nonce", "n2", 9)}

ClientSymmetry == Permutations(Clients)
===============================================================================
