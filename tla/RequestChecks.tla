---------------------------- MODULE RequestChecks ----------------------------
(***************************************************************************)
(* What signet decides about a request without a store: the contract        *)
(* (contracts.rs), the profile (profiles.rs), the signatures (crypto.rs),    *)
(* the lifetimes and the binding (stages.rs) and the policy (policy.rs).     *)
(*                                                                          *)
(* Records have the fields of models.rs.  An Option is a set of at most one  *)
(* element, a Vec whose order is never looked at is a set, Blank is a string *)
(* that trims to nothing, and an e-mail address is its domain.  An id is     *)
(* <<name>> where the caller gave it, <<prefix, counter, nanos>> where it was *)
(* generated, and <<>> where it is blank.  A signature is the key that made  *)
(* it with what it was made over.                                            *)
(***************************************************************************)
EXTENDS Integers, Sequences, FiniteSets

CONSTANTS
    HttpsUrls,    \* the strings that start with https://
    SpiffeUris    \* the strings that start with spiffe://

Blank == ""
BlankId == <<>>
None == {}
Some(v) == {v}

NoSignature == [form |-> "empty"]

\* What a host knows about the agent from sources of its own: HostContextBuilder
\* sets any of it, and what is left unset is absent.
HostContextFields ==
    {"delegation_depth", "cognitive_judge_scores_bps", "cognitive_challenge_pass_bps",
     "reputation_score_bps", "risk_challenge_passed", "extra_approval_granted",
     "clock_leeway_secs", "action_aliases"}

U16 == 0 .. 65535

IsHostContext(h) ==
    /\ DOMAIN h = HostContextFields
    /\ \A f \in {"delegation_depth", "cognitive_challenge_pass_bps", "reputation_score_bps"} :
          h[f] \subseteq U16
    /\ \A scores \in h.cognitive_judge_scores_bps : scores \in Seq(U16)
    /\ h.risk_challenge_passed \cup h.extra_approval_granted \subseteq BOOLEAN
    /\ h.clock_leeway_secs \in Nat

-------------------------------------------------------------------------------
(***************************************************************************)
(* The contract.                                                            *)
(***************************************************************************)
SupportedSpecVersions == {"0.1"}

validate_non_empty(value) == value # Blank
validate_non_empty_vec(values) == values # {} /\ \A v \in values : validate_non_empty(v)
validate_spec_version(value) == value \in SupportedSpecVersions
validate_kind(actual, expected) == actual = expected

\* An Option that is absent passes every check of its content.
AllNonEmpty(option) == \A v \in option : validate_non_empty(v)

validate_delegation_token(t) ==
    /\ validate_spec_version(t.spec_version)
    /\ validate_kind(t.kind, "DelegationToken")
    /\ t.token_id # BlankId /\ t.nonce # BlankId
    /\ \A s \in {t.issuer, t.agent_id, t.delegator_id, t.owner_id, t.key_id,
                 t.signature_alg} : validate_non_empty(s)
    /\ t.signature # NoSignature
    /\ validate_non_empty_vec(t.audience)
    /\ validate_non_empty_vec(t.allowed_actions)
    /\ AllNonEmpty(t.intent)
    /\ t.issued_at < t.expires_at
    /\ \A ids \in t.calendar_ids : validate_non_empty_vec(ids)
    /\ \A list \in t.email_domain_allowlist : validate_non_empty_vec(list)
    /\ \A m \in t.max_spend : validate_non_empty(m.currency)
    /\ t.signature_alg = "Ed25519"

validate_public_key(k) ==
    /\ validate_non_empty(k.kid)
    /\ k.kty = "OKP"
    /\ k.crv = Some("Ed25519")
    /\ k.x # None /\ AllNonEmpty(k.x)

validate_identity_document(d) ==
    /\ validate_spec_version(d.spec_version)
    /\ validate_kind(d.kind, "AgentIdentityDocument")
    /\ \A s \in {d.agent_id, d.owner_id, d.issuer, d.identity_type, d.subject} :
          validate_non_empty(s)
    /\ d.signature # NoSignature
    /\ validate_non_empty_vec(d.supported_protocols)
    /\ validate_non_empty_vec(d.supported_auth_methods)
    /\ AllNonEmpty(d.display_name)
    /\ d.public_keys # <<>>
    /\ \A i \in DOMAIN d.public_keys : validate_public_key(d.public_keys[i])
    /\ d.endpoints # <<>>
    /\ \A i \in DOMAIN d.endpoints :
          validate_non_empty(d.endpoints[i].protocol) /\ validate_non_empty(d.endpoints[i].url)
    /\ d.created_at < d.expires_at
    /\ \A a \in d.attestation :
          \A s \in {a.type_name, a.issuer, a.evidence_ref} : validate_non_empty(s)

validate_runtime_context(c) ==
    /\ \A spend \in c.requested_spend : spend >= 0
    /\ AllNonEmpty(c.spend_currency)
    /\ AllNonEmpty(c.target_email)
    /\ AllNonEmpty(c.target_calendar_id)

validate_request_contract(e) ==
    /\ validate_spec_version(e.spec_version)
    /\ validate_kind(e.kind, "TrustRequestEnvelope")
    /\ \A s \in {e.agent_id, e.delegator_id, e.audience, e.action} : validate_non_empty(s)
    /\ validate_runtime_context(e.runtime_context)
    /\ BlankId \notin e.request_id /\ AllNonEmpty(e.resource)
    /\ validate_delegation_token(e.token)
    /\ \A d \in e.identity_document :
          validate_identity_document(d) /\ d.agent_id = e.agent_id

-------------------------------------------------------------------------------
(***************************************************************************)
(* Profiles.                                                                *)
(***************************************************************************)
validate_profile_compatibility(e) ==
    \E d \in e.identity_document :
        \/ e.profile = "developer"
        \/ /\ e.profile = "oidc"
           /\ d.identity_type = "oidc"
           /\ d.issuer \in HttpsUrls
           /\ validate_non_empty(d.subject)
           /\ "delegation_token" \in d.supported_auth_methods
        \/ /\ e.profile = "spiffe"
           /\ d.identity_type = "spiffe"
           /\ d.subject \in SpiffeUris
           /\ "delegation_token" \in d.supported_auth_methods
           /\ d.supported_protocols \cap {"http", "mcp", "a2a"} # {}

-------------------------------------------------------------------------------
(***************************************************************************)
(* Signatures.  The payload is everything but the signature, in an order     *)
(* that does not depend on the field order of the JSON it came from.         *)
(***************************************************************************)
canonical_payload(record) == [record EXCEPT !.signature = NoSignature]

Sign(record, key) ==
    [form |-> "ed25519", key |-> key, payload |-> canonical_payload(record)]

\* decode_signature and VerifyingKey::verify, with the key material x.
Verifies(record, x) ==
    /\ record.signature.form = "ed25519"
    /\ record.signature.key = x
    /\ record.signature.payload = canonical_payload(record)

\* verifying_key_from_public_material: key material that is no Ed25519 key.
UsableKey(k) == k.kty = "OKP" /\ k.crv = Some("Ed25519") /\ k.x # None /\ k.x # Some("garbled")

verify_identity_document_signature(d) ==
    \E i \in DOMAIN d.public_keys :
        UsableKey(d.public_keys[i]) /\ \E x \in d.public_keys[i].x : Verifies(d, x)

\* Mutant: only the primary key, the first of the list, is looked at.
PrimaryKey(t, d) == {d.public_keys[1]}

\* The first key of the document with the token's key_id, if there is one.
KeyNamed(t, d) ==
    {d.public_keys[i] : i \in
        {j \in DOMAIN d.public_keys :
            /\ d.public_keys[j].kid = t.key_id
            /\ \A k \in 1 .. j - 1 : d.public_keys[k].kid # t.key_id}}

verify_delegation_token_signature(t, d) ==
    /\ t.signature_alg = "Ed25519"
    /\ \E k \in KeyNamed(t, d) : UsableKey(k) /\ \E x \in k.x : Verifies(t, x)

\* Mutant: the token's signature is not verified.
verify_signatures_document_only(e) ==
    \E d \in e.identity_document : verify_identity_document_signature(d)

verify_signatures(e) ==
    \E d \in e.identity_document :
        /\ d.issuer = e.token.issuer
        /\ d.agent_id = e.token.agent_id
        /\ d.owner_id = e.token.owner_id
        /\ verify_identity_document_signature(d)
        /\ verify_delegation_token_signature(e.token, d)

\* With an IdentityVerifier the verifier answers for the document and its
\* issuer and owner are not compared with the token's; RequireExplicitVerifier
\* vouches for no agent.
verify_signatures_with_verifier(e, verifier) ==
    \/ verifier = None /\ verify_signatures(e)
    \/ \E vouched \in verifier, d \in e.identity_document :
          d.agent_id \in vouched /\ verify_delegation_token_signature(e.token, d)

-------------------------------------------------------------------------------
(***************************************************************************)
(* Lifetimes and binding.                                                   *)
(***************************************************************************)
validate_identity_document_lifetime(e, now, leeway) ==
    \E d \in e.identity_document : now < d.expires_at + leeway

\* A leeway is a number of seconds that an i64 holds.
validate_token_lifetime(e, now, leeway) ==
    /\ e.token.issued_at <= now + leeway
    /\ now < e.token.expires_at + leeway

validate_token_binding(e) ==
    /\ e.token.agent_id = e.agent_id
    /\ e.token.delegator_id = e.delegator_id
    /\ e.audience \in e.token.audience

apply_action_aliases(e, host) ==
    [e EXCEPT !.action =
        IF @ \in DOMAIN host.action_aliases THEN host.action_aliases[@] ELSE @]

-------------------------------------------------------------------------------
(***************************************************************************)
(* The policy, in basis points where it measures.                           *)
(***************************************************************************)
MinCognitiveJudges == 2
MinCognitiveAvgScoreBps == 8500
MinCognitiveChallengePassBps == 9000
ReputationAlertThresholdBps == 7000

\* u32 arithmetic: at most 2^16 scores of 16 bits add up below 2^32.  Longer
\* lists are not modelled.
AverageScore(scores) ==
    LET total[i \in 0 .. Len(scores)] == IF i = 0 THEN 0 ELSE total[i - 1] + scores[i]
    IN  total[Len(scores)] \div Len(scores)

check_cognitive_gate(host) ==
    \A scores \in host.cognitive_judge_scores_bps :
        /\ Len(scores) >= MinCognitiveJudges
        /\ AverageScore(scores) >= MinCognitiveAvgScoreBps
        /\ \E rate \in host.cognitive_challenge_pass_bps : rate >= MinCognitiveChallengePassBps

check_reputation_risk_multiplier(host) ==
    \A score \in host.reputation_score_bps :
        \/ score >= ReputationAlertThresholdBps
        \/ host.risk_challenge_passed = Some(TRUE)
        \/ host.extra_approval_granted = Some(TRUE)

check_allowed_action(e) == e.action \in e.token.allowed_actions

check_calendar_constraint(e) ==
    \A ids \in e.token.calendar_ids :
        \A target \in e.runtime_context.target_calendar_id : target \in ids

\* An address without a domain is in no list.
check_email_domain_allowlist(e) ==
    \A list \in e.token.email_domain_allowlist :
        \A domain \in e.runtime_context.target_email :
            domain # "no_domain" /\ domain \in list

check_max_spend(e) ==
    \A m \in e.token.max_spend :
        \A spend \in e.runtime_context.requested_spend :
            /\ e.runtime_context.spend_currency = Some(m.currency)
            /\ spend <= m.amount

check_delegation_depth(e, host) ==
    \A max \in e.token.max_delegation_depth :
        \A depth \in host.delegation_depth : depth <= max

\* DefaultPolicy: the checks in their order; none looks at resource_constraints.extra.
simulate_policy(e, host) ==
    << check_allowed_action(e),
       check_cognitive_gate(host),
       check_reputation_risk_multiplier(host),
       check_calendar_constraint(e),
       check_email_domain_allowlist(e),
       check_max_spend(e),
       check_delegation_depth(e, host) >>

PolicyPasses(e, host) == \A i \in DOMAIN simulate_policy(e, host) : simulate_policy(e, host)[i]

\* The depth check that ends enforce_revocation_and_redelegation: an unknown
\* depth counts as 0.
DepthWithin(e, host) ==
    \A max \in e.token.max_delegation_depth :
        (IF host.delegation_depth = None THEN 0
         ELSE CHOOSE depth \in host.delegation_depth : TRUE) <= max

-------------------------------------------------------------------------------
(***************************************************************************)
(* The pipeline: what is checked before the nonce is consumed, and after.     *)
(***************************************************************************)
Authentic(raw, host, verifier, now) ==
    LET e == apply_action_aliases(raw, host) IN
    /\ validate_request_contract(raw)
    /\ validate_profile_compatibility(e)
    /\ verify_signatures_with_verifier(e, verifier)
    /\ validate_identity_document_lifetime(e, now, host.clock_leeway_secs)

Authorized(raw, host, now) ==
    LET e == apply_action_aliases(raw, host) IN
    /\ DepthWithin(e, host)
    /\ validate_token_lifetime(e, now, host.clock_leeway_secs)
    /\ validate_token_binding(e)
    /\ PolicyPasses(e, host)

\* simulate_request_policy: the policy alone, on the action as it was sent.
PreviewPasses(raw, host) == validate_request_contract(raw) /\ PolicyPasses(raw, host)
===============================================================================
