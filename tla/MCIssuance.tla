----------------------------- MODULE MCIssuance -----------------------------
(***************************************************************************)
(* A small instance of Issuance: one agent, an issuer that rotates from key   *)
(* "k1" to key "k2", a narrow and a broad order, orders the builders take and *)
(* the contract refuses, and one the builders refuse.                        *)
(***************************************************************************)
EXTENDS Issuance, TLC

Narrow ==
    [token_id |-> None, nonce |-> None, issuer |-> Some("https_issuer"),
     agent_id |-> Some("agent"), delegator_id |-> Some("alice"), owner_id |-> Some("org"),
     key_id |-> Some("kid1"), intent |-> None,
     audience |-> {"tool"}, allowed_actions |-> {"read"},
     calendar_ids |-> None, email_domain_allowlist |-> Some({"example"}),
     max_spend |-> Some([amount |-> 5, currency |-> "USD"]),
     max_delegation_depth |-> Some(1),
     issued_at |-> None, expires_at |-> None, expires_in |-> Some(1),
     signing_key |-> "k1"]

\* The second names the rotated key, the third is not signed with the key it
\* names, the fourth is not accepted by the contract and the fifth not built.
MCTokenOrders ==
    {Narrow,
     [Narrow EXCEPT !.key_id = Some("kid2"), !.signing_key = "k2", !.max_spend = None,
                    !.expires_in = Some(2)],
     [Narrow EXCEPT !.signing_key = "k2"],
     [Narrow EXCEPT !.email_domain_allowlist = Some({})],
     [Narrow EXCEPT !.expires_in = Some(0)]}

MCDocument ==
    [agent_id |-> Some("agent"), display_name |-> None, owner_id |-> Some("org"),
     issuer |-> Some("https_issuer"), identity_type |-> Some("oidc"),
     subject |-> Some("subject"), key_id |-> Some("kid1"),
     additional_public_keys |-> <<>>,
     supported_protocols |-> {"http"}, supported_auth_methods |-> {"delegation_token"},
     endpoints |-> << [protocol |-> "http", url |-> "url1"], [protocol |-> "http", url |-> "url2"] >>,
     created_at |-> None, expires_at |-> None, expires_in |-> None,
     signing_key |-> "k1"]

\* Before and after the rotation, and one that lists a kid twice.
MCDocumentOrders ==
    {MCDocument,
     [MCDocument EXCEPT !.key_id = Some("kid2"), !.signing_key = "k2", !.created_at = Some(0),
          !.additional_public_keys = << [kid |-> "kid1", key |-> "k1"] >>],
     [MCDocument EXCEPT !.created_at = Some(0), !.expires_in = Some(1),
          !.additional_public_keys = << [kid |-> "kid1", key |-> "k2"] >>]}

Spend(amount, currency, email) ==
    [requested_spend |-> Some(amount), spend_currency |-> currency,
     target_email |-> email, target_calendar_id |-> None]

MCRequest ==
    [request_id |-> Some(<<"given">>), profile |-> None, agent_id |-> None,
     delegator_id |-> None, audience |-> Some("tool"), action |-> Some("read"),
     resource |-> None, runtime_context |-> None]

MCMetadata == {[issuer |-> "https_issuer", jwks_uri |-> "uri"]}

MCHost ==
    [delegation_depth |-> None, cognitive_judge_scores_bps |-> None,
     cognitive_challenge_pass_bps |-> None, reputation_score_bps |-> None,
     risk_challenge_passed |-> None, extra_approval_granted |-> None,
     clock_leeway_secs |-> 0, action_aliases |-> EmptyMap]

\* A host that measures the agent, grants leeway and knows the action by
\* another name.
Measuring ==
    [MCHost EXCEPT !.delegation_depth = Some(1),
                   !.cognitive_judge_scores_bps = Some(<<8000, 9000>>),
                   !.cognitive_challenge_pass_bps = Some(9000),
                   !.reputation_score_bps = Some(6999),
                   !.extra_approval_granted = Some(TRUE),
                   !.clock_leeway_secs = 1,
                   !.action_aliases = [a \in {"get"} |-> "read"]]

Plain == [order |-> MCRequest, alteration |-> None, host |-> MCHost, verifier |-> None]

Alteration(field, value) == Some([field |-> field, value |-> value])

MCPresentations ==
    {Plain,
     [Plain EXCEPT !.verifier = Some({"agent"}), !.order.request_id = None],
     [Plain EXCEPT !.verifier = Some({})],
     [Plain EXCEPT !.order.profile = Some("oidc"),
                   !.order.runtime_context = Some(Spend(5, Some("USD"), Some("example")))],
     [Plain EXCEPT !.order.runtime_context = Some(Spend(5, None, None))],
     [Plain EXCEPT !.order.runtime_context = Some(Spend(6, Some("USD"), Some("no_domain"))),
                   !.alteration = Alteration("max_spend", None)],
     [Plain EXCEPT !.order.action = Some("write"),
                   !.alteration = Alteration("allowed_actions", {"read", "write"})],
     [Plain EXCEPT !.alteration = Alteration("signature", [form |-> "garbled"])],
     [Plain EXCEPT !.order.action = Some("get"), !.host = Measuring],
     [Plain EXCEPT !.host = [Measuring EXCEPT !.delegation_depth = Some(2)]],
     [Plain EXCEPT !.order.audience = None]}

ThreadSymmetry == Permutations(Threads)
===============================================================================
