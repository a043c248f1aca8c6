---------------------------- MODULE MCControlPlane ----------------------------
(***************************************************************************)
(* A small instance of ControlPlane: two processes, one token, and every      *)
(* command.                                                                  *)
(***************************************************************************)
EXTENDS ControlPlane, TLC

Cmd(name, worth, decision) ==
    [name |-> name, request_id |-> "req1", token_id |-> "t1", agent_id |-> "alice",
     nonce |-> "n1", valid_until |-> 1, worth |-> worth, decision |-> decision]

MCCommands ==
    {Cmd("verify_request", "authorized", "deny"),
     Cmd("verify_request", "forged", "deny"),
     Cmd("revoke_token", "authorized", "deny"),
     Cmd("emergency_deny_agent", "authorized", "deny"),
     Cmd("approve_grant_interactive", "authorized", "approve"),
     Cmd("approve_grant", "authorized", "other")}
===============================================================================
