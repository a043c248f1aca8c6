--------------------------- MODULE TrustEvaluation ---------------------------
(***************************************************************************)
(* The evaluation pipeline of signet (src/src/engine.rs, src/src/stages.rs) *)
(* over the in-memory trust state (src/src/revocation.rs), with the audit   *)
(* write that precedes every answer.                                        *)
(*                                                                          *)
(* Each request is evaluated by a thread of its own.  A thread reads the    *)
(* clock once, on arrival, and judges every lifetime by that reading; the   *)
(* store reads the clock again, inside its mutex.  The threads and the      *)
(* administrators share nothing but the store, so the atomic steps are the  *)
(* three store calls, the pure code between them and the audit write.       *)
(***************************************************************************)
EXTENDS TrustState, FiniteSets

CONSTANTS
    Requests,     \* one evaluation thread per request
    Token,        \* [TokenIds -> the token's signed fields]
    Submissions,  \* the request bodies clients send
    Revocable,    \* the token ids administrators give revoke_token
    Deniable,     \* the agents administrators give emergency_deny_agent
    BulkLists,    \* the lists of token ids administrators give revoke_tokens
    Leeway,       \* HostContext::clock_leeway_secs
    MaxTime       \* bound on the clock

(***************************************************************************)
(* A body carries the set of stages it would fail for reasons that no clock  *)
(* and no store decides: malformed contract, unmet profile, bad signature,   *)
(* delegation depth above the token's maximum, wrong delegator or audience,  *)
(* refused by the policy.                                                    *)
(***************************************************************************)
AuthenticityFlaws ==
    {"normalize_request", "validate_profile_compatibility", "verify_signatures"}
AuthorityFlaws ==
    {"enforce_revocation_and_redelegation", "validate_token_binding",
     "evaluate_policy"}

TokenRecord ==
    [nonce : Nonces, agent_id : Agents, issued_at : Nat, expires_at : Nat]

Submission ==
    [token_id : TokenIds,
     agent_id : Agents,           \* the agent the envelope claims
     doc_expires_at : Nat,        \* expiry of the presented identity document
     flaws : SUBSET (AuthenticityFlaws \cup AuthorityFlaws)]

ASSUME TokenAssumption == Token \in [TokenIds -> TokenRecord]
ASSUME SubmissionAssumption == Submissions \subseteq Submission
ASSUME AdminAssumption ==
    /\ Revocable \subseteq TokenIds
    /\ Deniable \subseteq Agents
    /\ BulkLists \subseteq SUBSET TokenIds
ASSUME TimeAssumption == Leeway \in Nat /\ MaxTime \in Nat

VARIABLES
    clock,                    \* Utc::now()
    backend_available,        \* InMemoryTrustState::backend_available
    revoked_token_ids,        \* InMemoryTrustInner
    emergency_denied_agents,
    consumed_nonces,
    body,                     \* what each request says
    pc,                       \* where each evaluation is
    now,                      \* the clock reading each evaluation works with
    decision,                 \* "pending", "allow" or the stage that denied
    answer,                   \* what the caller got: "none", "allow", "deny", "error"
    audit,                    \* decision events in the audit log
    bulk,                     \* the revoke_tokens call in progress
    (* History, read only by the properties. *)
    consumed_at,              \* clock of each request's successful consume_nonce
    revoked_before,           \* requests whose token was revoked on arrival
    denied_before             \* requests whose token's agent was denied on
                              \* arrival and not cleared since

store == <<revoked_token_ids, emergency_denied_agents, consumed_nonces>>
evaluation == <<pc, now, decision, answer>>
history == <<consumed_at, revoked_before, denied_before>>
vars == <<clock, backend_available, store, body, evaluation, audit, bulk, history>>

NotConsumed == -1
tok(r) == Token[body[r].token_id]

Stages ==
    AuthenticityFlaws \cup
    {"validate_identity_document_lifetime", "enforce_revocation_and_redelegation",
     "validate_token_lifetime", "validate_token_binding", "evaluate_policy"}

ProgramCounters ==
    {"idle", "is_token_revoked", "is_agent_emergency_denied", "consume_nonce",
     "audit", "answered"}

Init ==
    /\ clock = 0
    /\ backend_available = TRUE
    /\ revoked_token_ids = {}
    /\ emergency_denied_agents = {}
    /\ consumed_nonces = {}
    /\ body \in [Requests -> Submissions]
    /\ pc = [r \in Requests |-> "idle"]
    /\ now = [r \in Requests |-> 0]
    /\ decision = [r \in Requests |-> "pending"]
    /\ answer = [r \in Requests |-> "none"]
    /\ audit = {}
    /\ bulk = [ids |-> {}, todo |-> {}, result |-> "ok"]
    /\ consumed_at = [r \in Requests |-> NotConsumed]
    /\ revoked_before = {}
    /\ denied_before = {}

-------------------------------------------------------------------------------
(***************************************************************************)
(* Moving one evaluation on.                                                *)
(***************************************************************************)
Proceed(r, from, to) ==
    /\ pc[r] = from
    /\ pc' = [pc EXCEPT ![r] = to]
    /\ UNCHANGED decision

Decide(r, from, outcome) ==
    /\ pc[r] = from
    /\ pc' = [pc EXCEPT ![r] = "audit"]
    /\ decision' = [decision EXCEPT ![r] = outcome]

-------------------------------------------------------------------------------
(***************************************************************************)
(* The evaluation of one request.                                           *)
(***************************************************************************)

(***************************************************************************)
(* The pure stages, as a sequence of named checks.  The pipeline is a chain  *)
(* of and_then: the first check that fails decides.                          *)
(***************************************************************************)
Check(stage, ok) == [stage |-> stage, ok |-> ok]

Outcome(checks) ==
    LET failed == {i \in DOMAIN checks : ~checks[i].ok}
    IN  IF failed = {}
        THEN "allow"
        ELSE checks[CHOOSE i \in failed : \A j \in failed : i <= j].stage

\* validate_identity_document_lifetime
DocumentLive(b, at) == at < b.doc_expires_at + Leeway

\* validate_token_lifetime
TokenLive(t, at) == t.issued_at <= at + Leeway /\ at < t.expires_at + Leeway

\* Mutant: the signatures are not verified.
AuthenticityChecksUnsigned(b, at) ==
    << Check("normalize_request", "normalize_request" \notin b.flaws),
       Check("validate_profile_compatibility",
             "validate_profile_compatibility" \notin b.flaws),
       Check("validate_identity_document_lifetime", DocumentLive(b, at)) >>

AuthenticityChecks(b, at) ==
    << Check("normalize_request", "normalize_request" \notin b.flaws),
       Check("validate_profile_compatibility",
             "validate_profile_compatibility" \notin b.flaws),
       Check("verify_signatures", "verify_signatures" \notin b.flaws),
       Check("validate_identity_document_lifetime", DocumentLive(b, at)) >>

\* Mutant: validate_token_binding compares no agent.
AuthorityChecksUnbound(b, t, at) ==
    << Check("enforce_revocation_and_redelegation",
             "enforce_revocation_and_redelegation" \notin b.flaws),
       Check("validate_token_lifetime", TokenLive(t, at)),
       Check("validate_token_binding", "validate_token_binding" \notin b.flaws),
       Check("evaluate_policy", "evaluate_policy" \notin b.flaws) >>

\* The first check is the delegation depth, which ends
\* enforce_revocation_and_redelegation after the nonce is consumed.
AuthorityChecks(b, t, at) ==
    << Check("enforce_revocation_and_redelegation",
             "enforce_revocation_and_redelegation" \notin b.flaws),
       Check("validate_token_lifetime", TokenLive(t, at)),
       Check("validate_token_binding",
             t.agent_id = b.agent_id /\ "validate_token_binding" \notin b.flaws),
       Check("evaluate_policy", "evaluate_policy" \notin b.flaws) >>

\* The caller reads the clock and calls evaluate_and_audit_with_policy, which
\* runs normalize_request up to validate_identity_document_lifetime on its own.
Arrive(r) ==
    LET outcome == Outcome(AuthenticityChecks(body[r], clock)) IN
    /\ \/ outcome = "allow" /\ Proceed(r, "idle", "is_token_revoked")
       \/ outcome # "allow" /\ Decide(r, "idle", outcome)
    /\ now' = [now EXCEPT ![r] = clock]
    /\ revoked_before' = revoked_before \cup
           {q \in {r} : body[q].token_id \in revoked_token_ids}
    /\ denied_before' = denied_before \cup
           {q \in {r} : tok(q).agent_id \in emergency_denied_agents}
    /\ UNCHANGED <<clock, backend_available, store, body, answer, audit, bulk,
                   consumed_at>>

\* Mutant: only a store error denies.
CheckTokenRevokedIgnored(r) ==
    /\ \/ /\ ~backend_available
          /\ Decide(r, "is_token_revoked", "enforce_revocation_and_redelegation")
       \/ /\ backend_available
          /\ Proceed(r, "is_token_revoked", "is_agent_emergency_denied")
    /\ UNCHANGED <<clock, backend_available, store, body, now, answer, audit,
                   bulk, history>>

\* is_token_revoked in enforce_revocation_and_redelegation: an error denies.
CheckTokenRevoked(r) ==
    /\ \/ /\ ~backend_available \/ body[r].token_id \in revoked_token_ids
          /\ Decide(r, "is_token_revoked", "enforce_revocation_and_redelegation")
       \/ /\ backend_available
          /\ body[r].token_id \notin revoked_token_ids
          /\ Proceed(r, "is_token_revoked", "is_agent_emergency_denied")
    /\ UNCHANGED <<clock, backend_available, store, body, now, answer, audit,
                   bulk, history>>

\* Mutant: an unavailable store is waited for instead of failing closed.
CheckAgentDeniedWaits(r) ==
    /\ backend_available
    /\ \/ /\ body[r].agent_id \in emergency_denied_agents
          /\ Decide(r, "is_agent_emergency_denied",
                    "enforce_revocation_and_redelegation")
       \/ /\ body[r].agent_id \notin emergency_denied_agents
          /\ Proceed(r, "is_agent_emergency_denied", "consume_nonce")
    /\ UNCHANGED <<clock, backend_available, store, body, now, answer, audit,
                   bulk, history>>

\* is_agent_emergency_denied is asked about the agent the envelope claims.
CheckAgentDenied(r) ==
    /\ \/ /\ ~backend_available \/ body[r].agent_id \in emergency_denied_agents
          /\ Decide(r, "is_agent_emergency_denied",
                    "enforce_revocation_and_redelegation")
       \/ /\ backend_available
          /\ body[r].agent_id \notin emergency_denied_agents
          /\ Proceed(r, "is_agent_emergency_denied", "consume_nonce")
    /\ UNCHANGED <<clock, backend_available, store, body, now, answer, audit,
                   bulk, history>>

\* consume_nonce, atomic under the store's mutex, and the pure stages after it.
\* The clock it prunes against is read inside the mutex; the lifetime is judged
\* by the reading taken on arrival.  The replay answer prunes too.
ConsumeNonce(r) ==
    LET t == tok(r)
        fresh == IsFresh(consumed_nonces, t.nonce, clock, t.expires_at)
    IN
    /\ \/ /\ ~backend_available
          /\ Decide(r, "consume_nonce", "enforce_revocation_and_redelegation")
          /\ UNCHANGED <<consumed_nonces, consumed_at>>
       \/ /\ backend_available
          /\ consumed_nonces' =
                 Consume(consumed_nonces, t.nonce, clock, t.expires_at)
          /\ \/ /\ fresh
                /\ Decide(r, "consume_nonce",
                          Outcome(AuthorityChecks(body[r], t, now[r])))
                /\ consumed_at' = [consumed_at EXCEPT ![r] = clock]
             \/ /\ ~fresh
                /\ Decide(r, "consume_nonce", "enforce_revocation_and_redelegation")
                /\ UNCHANGED consumed_at
    /\ UNCHANGED <<clock, backend_available, revoked_token_ids,
                   emergency_denied_agents, body, now, answer, audit, bulk,
                   revoked_before, denied_before>>

\* Mutant: the caller gets the denying stage in place of the verdict.
WriteAuditStage(r) ==
    /\ Proceed(r, "audit", "answered")
    /\ audit' = audit \cup {[request |-> r, decision |-> decision[r]]}
    /\ answer' = [answer EXCEPT ![r] = decision[r]]
    /\ UNCHANGED <<clock, backend_available, store, body, now, bulk, history>>

\* write_audit_event and the return of evaluate_and_audit_with_policy: the
\* decision is handed out only once its event is written.
WriteAudit(r) ==
    /\ Proceed(r, "audit", "answered")
    /\ audit' = audit \cup {[request |-> r, decision |-> decision[r]]}
    /\ answer' = [answer EXCEPT
                     ![r] = IF decision[r] = "allow" THEN "allow" ELSE "deny"]
    /\ UNCHANGED <<clock, backend_available, store, body, now, bulk, history>>

\* Mutant: the sink's error is dropped and the decision handed out.
AuditFailsIgnored(r) ==
    /\ Proceed(r, "audit", "answered")
    /\ answer' = [answer EXCEPT
                     ![r] = IF decision[r] = "allow" THEN "allow" ELSE "deny"]
    /\ UNCHANGED <<clock, backend_available, store, body, now, audit, bulk, history>>

\* The sink fails: the caller gets the i/o error instead of the decision.  The
\* file sink's write_event may fail before the event, inside of it or, when only
\* the newline cannot be written, behind it: then the event is in the log all
\* the same.
AuditFails(r) ==
    /\ Proceed(r, "audit", "answered")
    /\ answer' = [answer EXCEPT ![r] = "error"]
    /\ \/ UNCHANGED audit
       \/ audit' = audit \cup {[request |-> r, decision |-> decision[r]]}
    /\ UNCHANGED <<clock, backend_available, store, body, now, bulk, history>>

Step(r) ==
    \/ CheckTokenRevoked(r)
    \/ CheckAgentDenied(r)
    \/ ConsumeNonce(r)
    \/ WriteAudit(r)
    \/ AuditFails(r)

-------------------------------------------------------------------------------
(***************************************************************************)
(* Administration, concurrent with the evaluations.  An operation on an     *)
(* unavailable store returns an error and changes nothing.                  *)
(***************************************************************************)

RevokeToken(t) ==
    /\ backend_available
    /\ t \notin revoked_token_ids
    /\ revoked_token_ids' = revoked_token_ids \cup {t}
    /\ UNCHANGED <<clock, backend_available, emergency_denied_agents,
                   consumed_nonces, body, evaluation, audit, bulk, history>>

EmergencyDenyAgent(a) ==
    /\ backend_available
    /\ a \notin emergency_denied_agents
    /\ emergency_denied_agents' = emergency_denied_agents \cup {a}
    /\ UNCHANGED <<clock, backend_available, revoked_token_ids, consumed_nonces,
                   body, evaluation, audit, bulk, history>>

ClearEmergencyDenyList ==
    /\ backend_available
    /\ emergency_denied_agents # {}
    /\ emergency_denied_agents' = {}
    /\ denied_before' = {}
    /\ UNCHANGED <<clock, backend_available, revoked_token_ids, consumed_nonces,
                   body, evaluation, audit, bulk, consumed_at, revoked_before>>

\* flush_expired_nonces, called with a reading of the clock, as its name asks.
\* The code takes any time: one that lies ahead drops nonces of live tokens.
FlushExpiredNonces(reference_time) ==
    /\ backend_available
    /\ consumed_nonces' = Retain(consumed_nonces, reference_time)
    /\ UNCHANGED <<clock, backend_available, revoked_token_ids,
                   emergency_denied_agents, body, evaluation, audit, bulk, history>>

\* revoke_tokens: one revoke_token after the other, stopping at the first error.
StartRevokeTokens(ids) ==
    /\ bulk.result # "running"
    /\ bulk' = [ids |-> ids, todo |-> ids, result |-> "running"]
    /\ UNCHANGED <<clock, backend_available, store, body, evaluation, audit, history>>

\* Mutant: an id whose revocation fails is skipped.
RevokeNextTokenSkips ==
    /\ bulk.result = "running"
    /\ \E t \in bulk.todo :
          /\ revoked_token_ids' = revoked_token_ids \cup
                                     {u \in {t} : backend_available}
          /\ bulk' = [bulk EXCEPT !.todo = @ \ {t}]
    /\ UNCHANGED <<clock, backend_available, emergency_denied_agents,
                   consumed_nonces, body, evaluation, audit, history>>

RevokeNextToken ==
    /\ bulk.result = "running"
    /\ bulk.todo # {}
    /\ \/ /\ backend_available
          /\ \E t \in bulk.todo :
                /\ revoked_token_ids' = revoked_token_ids \cup {t}
                /\ bulk' = [bulk EXCEPT !.todo = @ \ {t}]
       \/ /\ ~backend_available
          /\ bulk' = [bulk EXCEPT !.result = "error"]
          /\ UNCHANGED revoked_token_ids
    /\ UNCHANGED <<clock, backend_available, emergency_denied_agents,
                   consumed_nonces, body, evaluation, audit, history>>

EndRevokeTokens ==
    /\ bulk.result = "running"
    /\ bulk.todo = {}
    /\ bulk' = [bulk EXCEPT !.result = "ok"]
    /\ UNCHANGED <<clock, backend_available, store, body, evaluation, audit, history>>

SetBackendAvailable(available) ==
    /\ backend_available' = available
    /\ UNCHANGED <<clock, store, body, evaluation, audit, bulk, history>>

Tick ==
    /\ clock < MaxTime
    /\ clock' = clock + 1
    /\ UNCHANGED <<backend_available, store, body, evaluation, audit, bulk, history>>

Administer ==
    \/ \E t \in Revocable : RevokeToken(t)
    \/ \E a \in Deniable : EmergencyDenyAgent(a)
    \/ ClearEmergencyDenyList
    \/ \E reference_time \in 0..clock : FlushExpiredNonces(reference_time)
    \/ \E ids \in BulkLists : StartRevokeTokens(ids)
    \/ RevokeNextToken
    \/ EndRevokeTokens
    \/ \E available \in BOOLEAN : SetBackendAvailable(available)

Next ==
    \/ \E r \in Requests : Arrive(r) \/ Step(r)
    \/ Administer
    \/ Tick

Spec == Init /\ [][Next]_vars

(***************************************************************************)
(* An evaluation thread that has read the clock runs to its answer: nothing *)
(* in it blocks, and the scheduler runs every runnable thread.  Requests    *)
(* need not arrive and administrators need not act.                         *)
(***************************************************************************)
Fairness == \A r \in Requests : WF_vars(Step(r))

FairSpec == Spec /\ Fairness

-------------------------------------------------------------------------------
(***************************************************************************)
(* Properties                                                               *)
(***************************************************************************)

\* Every variable has its type.
TypeOK ==
    /\ clock \in 0..MaxTime
    /\ backend_available \in BOOLEAN
    /\ revoked_token_ids \subseteq TokenIds
    /\ emergency_denied_agents \subseteq Agents
    /\ consumed_nonces \subseteq NonceEntry
    /\ body \in [Requests -> Submissions]
    /\ pc \in [Requests -> ProgramCounters]
    /\ now \in [Requests -> 0..MaxTime]
    /\ decision \in [Requests -> Stages \cup {"pending", "allow"}]
    /\ answer \in [Requests -> {"none", "allow", "deny", "error"}]
    /\ audit \subseteq [request : Requests, decision : Stages \cup {"allow"}]
    /\ bulk \in [ids : SUBSET TokenIds, todo : SUBSET TokenIds,
                 result : {"running", "ok", "error"}]
    /\ consumed_at \in [Requests -> 0..MaxTime \cup {NotConsumed}]
    /\ revoked_before \subseteq Requests
    /\ denied_before \subseteq Requests

HasConsumed(r) == consumed_at[r] # NotConsumed
EntryOf(r) == [nonce |-> tok(r).nonce, valid_until |-> tok(r).expires_at]

\* consume_nonce, the prunings of other requests' consume_nonce and
\* flush_expired_nonces together keep the nonce of every allowed request in
\* the store until its token expires, whatever the backend's outages.
AllowedNonceRemembered ==
    \A r \in Requests :
        decision[r] = "allow" =>
            EntryOf(r) \in consumed_nonces \/ clock > tok(r).expires_at

\* Replay resistance up to expiry: of two requests that consumed the same
\* nonce, in whatever interleaving, the later consumed it after the earlier
\* one's token had expired.  A request that lost its answer to an audit
\* failure counts as well.
NonceConsumedOnce ==
    \A r1, r2 \in Requests :
        (r1 # r2 /\ HasConsumed(r1) /\ HasConsumed(r2)
                 /\ tok(r1).nonce = tok(r2).nonce) =>
            \/ consumed_at[r1] > tok(r2).expires_at
            \/ consumed_at[r2] > tok(r1).expires_at

\* Revocation is effective at once: a request that arrives after its token
\* was revoked, singly or by revoke_tokens, is never allowed.
RevokedNeverAllowed ==
    \A r \in revoked_before : decision[r] # "allow"

\* So is the emergency deny list, whatever agent the envelope claims to be:
\* is_agent_emergency_denied looks up the claimed agent, and only
\* validate_token_binding, stages later, ties the claim to the token.
DeniedAgentNeverAllowed ==
    \A r \in denied_before : decision[r] # "allow"

\* A nonce is consumed only on behalf of an authentic request: bodies with a
\* broken contract, an unmet profile, a forged signature or an expired
\* identity document cannot use up the nonce of a genuine token.
OnlyAuthenticRequestsConsume ==
    \A r \in Requests :
        HasConsumed(r) =>
            /\ body[r].flaws \cap AuthenticityFlaws = {}
            /\ DocumentLive(body[r], now[r])

\* revoke_tokens answers Ok only when every one of its ids is revoked; after
\* an error, exactly the ids it still had to do may be missing.
BulkRevokeComplete ==
    /\ bulk.ids \ bulk.todo \subseteq revoked_token_ids
    /\ bulk.result = "ok" => bulk.ids \subseteq revoked_token_ids

\* The audit log holds the decision of a request that was answered with one,
\* and no other.  It may hold the decision of a request that was answered with
\* the sink's error, never a different one, and it says nothing of a request
\* that has no answer yet.
AnswersAreAudited ==
    \A r \in Requests :
        LET events == {e \in audit : e.request = r} IN
        /\ answer[r] = "allow" => events = {[request |-> r, decision |-> "allow"]}
        /\ answer[r] = "deny" =>
              \E s \in Stages : events = {[request |-> r, decision |-> s]}
        /\ answer[r] = "error" => events \subseteq {[request |-> r, decision |-> decision[r]]}
        /\ answer[r] = "none" => events = {}

\* No step drops a nonce from the store before its recorded expiry has passed.
NoncesKeptUntilExpiry ==
    [][\A e \in consumed_nonces \ consumed_nonces' : e.valid_until < clock]_vars

\* Every request that arrives is answered: no store outage, replay, denial
\* or sink failure leaves an evaluation hanging.
EveryRequestAnswered ==
    \A r \in Requests : pc[r] # "idle" ~> answer[r] # "none"

\* The evaluation is so prompt that consume_nonce still sees the clock reading
\* it began with.
Prompt(r) == HasConsumed(r) /\ consumed_at[r] = now[r]

\* "Nonce consumption MUST block replay": of any number of requests with one
\* token, at most one is allowed.  Only prompt evaluations: one that is delayed
\* past the expiry of its token may find the nonce pruned, while its lifetime
\* is still judged by the clock it began with.
NoPromptReplay ==
    \A r1, r2 \in Requests :
        (/\ r1 # r2
         /\ answer[r1] = "allow" /\ answer[r2] = "allow"
         /\ Prompt(r1) /\ Prompt(r2)) =>
            body[r1].token_id # body[r2].token_id

-------------------------------------------------------------------------------
(***************************************************************************)
(* The pipeline implements the gate.  A request is admitted when its nonce  *)
(* is consumed and allowed when the caller gets the answer.                 *)
(***************************************************************************)
phase ==
    [r \in Requests |->
        CASE pc[r] = "idle" -> "idle"
          [] pc[r] = "answered" ->
                IF answer[r] = "allow" THEN "allowed" ELSE "refused"
          [] OTHER -> IF HasConsumed(r) THEN "admitted" ELSE "pending"]

Gate == INSTANCE AuthorizationGate WITH
    revoked <- revoked_token_ids,
    denied <- emergency_denied_agents,
    presents <- [r \in Requests |-> body[r].token_id],
    phase <- phase,
    submitted_at <- now,
    spent <- {EntryOf(r) : r \in {q \in Requests : HasConsumed(q)}},
    barred <- [byToken |-> revoked_before, byAgent |-> denied_before]

\* Every behaviour of the pipeline over the pruning store is a behaviour of
\* the gate, which never forgets a nonce and admits in one atomic step.
ImplementsGate == Gate!Spec
===============================================================================
