------------------------------- MODULE MCClient -------------------------------
(***************************************************************************)
(* A small instance of Client: two calls of others with any messages, or two  *)
(* attempts of the client with one envelope.                                 *)
(***************************************************************************)
EXTENDS Client, TLC

Msg(door, entry, defects, worth) ==
    [door |-> door, entry |-> entry, defects |-> defects, worth |-> worth,
     tuple |-> IF "bad_claims" \in defects THEN "unknown" ELSE "alice",
     nonce |-> "n1"]

MCLibraryMessages ==
    {Msg(d, "state", {}, "authorized") : d \in Doors \ {"mcp", "a2a"}}
    \cup {Msg(d, "runtime", {}, "authorized") : d \in {"http", "mcp", "a2a"}}
    \cup {Msg(d, "state", {}, "unauthorized") : d \in {"axum", "proxy"}}
    \cup {Msg(d, "state", {"not_tool_call"}, "forged") : d \in {"mcp", "proxy"}}

MCMessages ==
    MCLibraryMessages
    \cup {Msg(d, "state", {"not_json"}, "forged") : d \in {"axum", "proxy"}}
    \cup {Msg(d, "state", {"bad_claims"}, "forged") : d \in {"a2a"}}
    \cup {Msg("proxy", "state", {f}, "forged") : f \in {"unreadable", "not_utf8"}}
===============================================================================
