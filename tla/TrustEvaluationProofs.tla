------------------------ MODULE TrustEvaluationProofs ------------------------
(***************************************************************************)
(* Theorems about TrustEvaluation, for every set of requests, tokens and    *)
(* submissions, every leeway and every bound on the clock.                  *)
(***************************************************************************)
EXTENDS TrustEvaluation, TrustStateProofs

(***************************************************************************)
(* The inductive invariant.  TypeOK alone is not inductive: that the audit  *)
(* log holds decisions needs Progress, which ties pc to decision.           *)
(***************************************************************************)
BeforeDecision ==
    {"idle", "is_token_revoked", "is_agent_emergency_denied", "consume_nonce"}

\* A request has a decision exactly from the audit write on, and before that
\* has neither consumed its nonce nor been answered.
Progress ==
    \A r \in Requests :
        /\ pc[r] \in BeforeDecision <=> decision[r] = "pending"
        /\ pc[r] \in BeforeDecision => consumed_at[r] = NotConsumed

\* The store remembers every consumed nonce until its token's expiry.
NonceRemembered ==
    \A r \in Requests :
        HasConsumed(r) => EntryOf(r) \in consumed_nonces \/ clock > tok(r).expires_at

\* An allowed request has consumed its nonce.
AllowedConsumed ==
    \A r \in Requests : decision[r] = "allow" => HasConsumed(r)

\* A request whose token was revoked on arrival does not pass is_token_revoked.
RevokedStopped ==
    \A r \in revoked_before :
        /\ body[r].token_id \in revoked_token_ids
        /\ pc[r] \notin {"idle", "is_agent_emergency_denied", "consume_nonce"}
        /\ decision[r] # "allow"

\* A request whose token's agent was denied on arrival passes
\* is_agent_emergency_denied only by claiming to be another agent.
DeniedStopped ==
    \A r \in denied_before :
        /\ tok(r).agent_id \in emergency_denied_agents
        /\ pc[r] # "idle"
        /\ pc[r] = "consume_nonce" => tok(r).agent_id # body[r].agent_id
        /\ decision[r] # "allow"

IInv ==
    /\ TypeOK
    /\ Progress
    /\ NonceRemembered
    /\ AllowedConsumed
    /\ NonceConsumedOnce
    /\ RevokedStopped
    /\ DeniedStopped

-------------------------------------------------------------------------------
(***************************************************************************)
(* Lemmas on the operators                                                  *)
(***************************************************************************)

\* The first failing check decides; only if none fails is the outcome "allow".
LEMMA OutcomeFacts ==
    ASSUME NEW checks, DOMAIN checks = 1..4,
           NEW S, \A i \in 1..4 : checks[i].stage \in S
    PROVE  /\ Outcome(checks) \in S \cup {"allow"}
           /\ (Outcome(checks) = "allow" /\ "allow" \notin S) =>
                 \A i \in 1..4 : checks[i].ok
  <1> DEFINE failed == {i \in DOMAIN checks : ~checks[i].ok}
  <1>1. CASE failed = {}
    BY <1>1 DEF Outcome
  <1>2. CASE failed # {}
    <2>1. \E i \in failed : \A j \in failed : i <= j
      <3>1. PICK k \in 1..4 : k \in failed
        BY <1>2
      <3>2. failed \subseteq 1..4
        OBVIOUS
      <3> HIDE DEF failed
      <3>3. CASE 1 \in failed
        BY <3>2, <3>3
      <3>4. CASE 1 \notin failed /\ 2 \in failed
        BY <3>2, <3>4
      <3>5. CASE 1 \notin failed /\ 2 \notin failed /\ 3 \in failed
        BY <3>2, <3>5
      <3>6. CASE 1 \notin failed /\ 2 \notin failed /\ 3 \notin failed
        BY <3>1, <3>2, <3>6
      <3> QED
        BY <3>3, <3>4, <3>5, <3>6
    <2> DEFINE first == CHOOSE i \in failed : \A j \in failed : i <= j
    <2>2. first \in failed
      BY <2>1
    <2>3. Outcome(checks) = checks[first].stage
      BY <1>2 DEF Outcome
    <2>4. first \in 1..4
      BY <2>2
    <2>5. checks[first].stage \in S
      BY <2>4
    <2> QED
      BY <2>3, <2>5
  <1> QED
    BY <1>1, <1>2

\* The pure stages before the store calls deny with one of the stages; a
\* request passes them only if it is authentic.
LEMMA AuthenticityOutcome ==
    ASSUME NEW b, NEW at
    PROVE  /\ Outcome(AuthenticityChecks(b, at)) \in Stages \cup {"allow"}
           /\ Outcome(AuthenticityChecks(b, at)) = "allow" =>
                 b.flaws \cap AuthenticityFlaws = {} /\ DocumentLive(b, at)
  <1> DEFINE checks == AuthenticityChecks(b, at)
  <1>1. DOMAIN checks = 1..4
    BY DEF AuthenticityChecks
  <1>2. \A i \in 1..4 : checks[i].stage \in Stages
    BY DEF AuthenticityChecks, Check, Stages, AuthenticityFlaws
  <1>3. "allow" \notin Stages
    BY DEF Stages, AuthenticityFlaws
  <1>4. /\ checks[1].ok = ("normalize_request" \notin b.flaws)
        /\ checks[2].ok = ("validate_profile_compatibility" \notin b.flaws)
        /\ checks[3].ok = ("verify_signatures" \notin b.flaws)
        /\ checks[4].ok = DocumentLive(b, at)
    BY DEF AuthenticityChecks, Check
  <1> HIDE DEF checks
  <1>5. Outcome(checks) = "allow" =>
            checks[1].ok /\ checks[2].ok /\ checks[3].ok /\ checks[4].ok
    BY <1>1, <1>2, <1>3, OutcomeFacts
  <1>6. Outcome(checks) \in Stages \cup {"allow"}
    BY <1>1, <1>2, OutcomeFacts
  <1>7. Outcome(checks) = "allow" => b.flaws \cap AuthenticityFlaws = {}
    BY <1>4, <1>5 DEF AuthenticityFlaws
  <1> QED
    BY <1>4, <1>5, <1>6, <1>7 DEF checks

\* So do the pure stages after them, and an allowed request has a live token
\* that is bound to the agent the envelope claims.
LEMMA AuthorityOutcome ==
    ASSUME NEW b, NEW t, NEW at
    PROVE  /\ Outcome(AuthorityChecks(b, t, at)) \in Stages \cup {"allow"}
           /\ Outcome(AuthorityChecks(b, t, at)) = "allow" =>
                 TokenLive(t, at) /\ t.agent_id = b.agent_id
  <1> DEFINE checks == AuthorityChecks(b, t, at)
  <1>1. DOMAIN checks = 1..4
    BY DEF AuthorityChecks
  <1>2. \A i \in 1..4 : checks[i].stage \in Stages
    BY DEF AuthorityChecks, Check, Stages, AuthenticityFlaws
  <1>3. "allow" \notin Stages
    BY DEF Stages, AuthenticityFlaws
  <1>4. /\ checks[2].ok = TokenLive(t, at)
        /\ checks[3].ok => t.agent_id = b.agent_id
    BY DEF AuthorityChecks, Check
  <1> HIDE DEF checks
  <1>5. Outcome(checks) = "allow" => checks[2].ok /\ checks[3].ok
    BY <1>1, <1>2, <1>3, OutcomeFacts
  <1>6. Outcome(checks) \in Stages \cup {"allow"}
    BY <1>1, <1>2, OutcomeFacts
  <1> QED
    BY <1>4, <1>5, <1>6 DEF checks

-------------------------------------------------------------------------------
(***************************************************************************)
(* The inductive invariant holds                                            *)
(***************************************************************************)

\* The fields of what a request presents have their types.
LEMMA BodyTypes ==
    ASSUME TypeOK, NEW r \in Requests
    PROVE  /\ body[r].token_id \in TokenIds
           /\ tok(r).nonce \in Nonces
           /\ tok(r).expires_at \in Nat
           /\ EntryOf(r) \in NonceEntry
  <1>1. body[r] \in Submission
    BY SubmissionAssumption DEF TypeOK
  <1>2. body[r].token_id \in TokenIds
    BY <1>1 DEF Submission
  <1>3. tok(r) \in TokenRecord
    BY <1>2, TokenAssumption DEF tok
  <1> QED
    BY <1>2, <1>3 DEF TokenRecord, EntryOf, NonceEntry

\* The invariant holds of a fresh store that no request has reached.
LEMMA InitIInv == Init => IInv
  <1> SUFFICES ASSUME Init PROVE IInv
    OBVIOUS
  <1>1. TypeOK
    BY TimeAssumption DEF Init, TypeOK, ProgramCounters, NotConsumed
  <1>2. Progress /\ NonceRemembered /\ AllowedConsumed /\ NonceConsumedOnce
    BY DEF Init, Progress, NonceRemembered, AllowedConsumed, NonceConsumedOnce,
           HasConsumed, BeforeDecision, NotConsumed
  <1>3. RevokedStopped /\ DeniedStopped
    BY DEF Init, RevokedStopped, DeniedStopped
  <1> QED
    BY <1>1, <1>2, <1>3 DEF IInv

\* Arrive reads the clock and runs the pure stages before the store calls.
LEMMA ArriveIInv ==
    ASSUME IInv, NEW r \in Requests, Arrive(r)
    PROVE  IInv'
  <1> USE DEF IInv
  <1> DEFINE outcome == Outcome(AuthenticityChecks(body[r], clock))
  <1>1. outcome \in Stages \cup {"allow"}
    BY AuthenticityOutcome
  <1>2. /\ pc[r] = "idle"
        /\ \/ /\ outcome = "allow"
              /\ pc' = [pc EXCEPT ![r] = "is_token_revoked"]
              /\ decision' = decision
           \/ /\ outcome # "allow"
              /\ pc' = [pc EXCEPT ![r] = "audit"]
              /\ decision' = [decision EXCEPT ![r] = outcome]
    BY DEF Arrive, Proceed, Decide
  <1>3. /\ now' = [now EXCEPT ![r] = clock]
        /\ revoked_before' = revoked_before \cup
               {q \in {r} : body[q].token_id \in revoked_token_ids}
        /\ denied_before' = denied_before \cup
               {q \in {r} : tok(q).agent_id \in emergency_denied_agents}
        /\ UNCHANGED <<clock, backend_available, revoked_token_ids,
                       emergency_denied_agents, consumed_nonces, body, answer,
                       audit, bulk, consumed_at>>
    BY DEF Arrive, store
  <1> HIDE DEF outcome
  <1>4. TypeOK'
    BY <1>1, <1>2, <1>3 DEF TypeOK, ProgramCounters
  <1>5. Progress'
    BY <1>1, <1>2, <1>3 DEF Progress, BeforeDecision, Stages, AuthenticityFlaws, TypeOK
  <1>6. NonceRemembered' /\ NonceConsumedOnce'
    BY <1>3 DEF NonceRemembered, NonceConsumedOnce, HasConsumed, EntryOf, tok
  <1>7. AllowedConsumed'
    BY <1>2, <1>3 DEF AllowedConsumed, HasConsumed, TypeOK
  <1>8. RevokedStopped'
    BY <1>2, <1>3 DEF RevokedStopped, Progress, BeforeDecision, TypeOK
  <1>9. DeniedStopped'
    BY <1>2, <1>3 DEF DeniedStopped, Progress, BeforeDecision, TypeOK, tok
  <1> QED
    BY <1>4, <1>5, <1>6, <1>7, <1>8, <1>9

\* The two read-only store calls.
LEMMA CheckIInv ==
    ASSUME IInv, NEW r \in Requests, CheckTokenRevoked(r) \/ CheckAgentDenied(r)
    PROVE  IInv'
  <1> USE DEF IInv
  <1>1. UNCHANGED <<clock, backend_available, revoked_token_ids,
                    emergency_denied_agents, consumed_nonces, body, now, answer,
                    audit, bulk, consumed_at, revoked_before, denied_before>>
    BY DEF CheckTokenRevoked, CheckAgentDenied, store, history
  <1>2. \/ /\ pc[r] \in {"is_token_revoked", "is_agent_emergency_denied"}
           /\ pc' = [pc EXCEPT ![r] = "audit"]
           /\ decision' = [decision EXCEPT ![r] = "enforce_revocation_and_redelegation"]
        \/ /\ pc[r] = "is_token_revoked"
           /\ body[r].token_id \notin revoked_token_ids
           /\ pc' = [pc EXCEPT ![r] = "is_agent_emergency_denied"]
           /\ decision' = decision
        \/ /\ pc[r] = "is_agent_emergency_denied"
           /\ body[r].agent_id \notin emergency_denied_agents
           /\ pc' = [pc EXCEPT ![r] = "consume_nonce"]
           /\ decision' = decision
    BY DEF CheckTokenRevoked, CheckAgentDenied, Proceed, Decide
  <1>3. TypeOK'
    BY <1>1, <1>2 DEF TypeOK, ProgramCounters, Stages
  <1>4. Progress'
    BY <1>1, <1>2 DEF Progress, BeforeDecision, TypeOK
  <1>5. NonceRemembered' /\ NonceConsumedOnce'
    BY <1>1 DEF NonceRemembered, NonceConsumedOnce, HasConsumed, EntryOf, tok
  <1>6. AllowedConsumed'
    BY <1>1, <1>2 DEF AllowedConsumed, HasConsumed, TypeOK
  <1>7. RevokedStopped'
    BY <1>1, <1>2 DEF RevokedStopped, TypeOK
  <1>8. DeniedStopped'
    BY <1>1, <1>2 DEF DeniedStopped, TypeOK, tok
  <1> QED
    BY <1>3, <1>4, <1>5, <1>6, <1>7, <1>8

\* consume_nonce.  Only here is a nonce recorded; ConsumeFacts carries the
\* argument that it stays recorded and that a second one comes after expiry.
LEMMA ConsumeNonceIInv ==
    ASSUME IInv, NEW r \in Requests, ConsumeNonce(r)
    PROVE  IInv'
  <1> USE DEF IInv
  <1> DEFINE outcome == Outcome(AuthorityChecks(body[r], tok(r), now[r]))
             fresh == IsFresh(consumed_nonces, tok(r).nonce, clock, tok(r).expires_at)
             after == Consume(consumed_nonces, tok(r).nonce, clock, tok(r).expires_at)
  <1>1. /\ outcome \in Stages \cup {"allow"}
        /\ outcome = "allow" => tok(r).agent_id = body[r].agent_id
    BY AuthorityOutcome
  <1>2. /\ after \subseteq NonceEntry
        /\ \A e \in consumed_nonces : e.valid_until >= clock => e \in after
        /\ fresh => /\ EntryOf(r) \in after
                    /\ \A e \in consumed_nonces :
                          e.nonce = tok(r).nonce => e.valid_until < clock
    <2>1. /\ tok(r).nonce \in Nonces
          /\ tok(r).expires_at \in Nat
          /\ clock \in Nat
          /\ consumed_nonces \in SUBSET NonceEntry
      BY BodyTypes, TimeAssumption DEF TypeOK
    <2> QED
      BY <2>1, ConsumeFacts DEF EntryOf
  <1>3. /\ pc[r] = "consume_nonce"
        /\ pc' = [pc EXCEPT ![r] = "audit"]
        /\ \/ /\ consumed_nonces' = consumed_nonces
              /\ consumed_at' = consumed_at
              /\ decision' = [decision EXCEPT ![r] = "enforce_revocation_and_redelegation"]
           \/ /\ consumed_nonces' = after
              /\ consumed_at' = consumed_at
              /\ decision' = [decision EXCEPT ![r] = "enforce_revocation_and_redelegation"]
           \/ /\ fresh
              /\ consumed_nonces' = after
              /\ consumed_at' = [consumed_at EXCEPT ![r] = clock]
              /\ decision' = [decision EXCEPT ![r] = outcome]
    BY DEF ConsumeNonce, Decide
  <1>4. UNCHANGED <<clock, backend_available, revoked_token_ids,
                    emergency_denied_agents, body, now, answer, audit, bulk,
                    revoked_before, denied_before>>
    BY DEF ConsumeNonce
  <1> HIDE DEF outcome, fresh, after
  <1>5. TypeOK'
    BY <1>1, <1>2, <1>3, <1>4 DEF TypeOK, ProgramCounters, Stages
  <1>6. Progress'
    BY <1>1, <1>3, <1>4 DEF Progress, BeforeDecision, Stages, AuthenticityFlaws, TypeOK
  <1>7. \A q \in Requests : /\ tok(q)' = tok(q)
                            /\ EntryOf(q)' = EntryOf(q)
                            /\ EntryOf(q).nonce = tok(q).nonce
                            /\ EntryOf(q).valid_until = tok(q).expires_at
                            /\ tok(q).expires_at \in Nat
    BY <1>4, BodyTypes DEF tok, EntryOf
  <1>8. clock \in Nat
    BY TimeAssumption DEF TypeOK
  <1>9. NonceRemembered'
    <2> SUFFICES ASSUME NEW q \in Requests, HasConsumed(q)'
                 PROVE  EntryOf(q) \in consumed_nonces' \/ clock > tok(q).expires_at
      BY <1>4, <1>7 DEF NonceRemembered
    <2>1. CASE q = r /\ ~HasConsumed(q)
      BY <1>2, <1>3, <2>1 DEF HasConsumed, TypeOK
    <2>2. CASE HasConsumed(q)
      <3>1. EntryOf(q) \in consumed_nonces \/ clock > tok(q).expires_at
        BY <2>2 DEF NonceRemembered
      <3> QED
        BY <1>2, <1>3, <1>7, <1>8, <3>1
    <2>3. CASE q # r /\ ~HasConsumed(q)
      BY <1>3, <2>3 DEF HasConsumed, TypeOK
    <2> QED
      BY <2>1, <2>2, <2>3
  <1>10. AllowedConsumed'
    BY <1>1, <1>3, <1>4, <1>8 DEF AllowedConsumed, HasConsumed, TypeOK, NotConsumed
  <1>11. NonceConsumedOnce'
    <2> SUFFICES ASSUME NEW q1 \in Requests, NEW q2 \in Requests, q1 # q2,
                        HasConsumed(q1)', HasConsumed(q2)',
                        tok(q1).nonce = tok(q2).nonce
                 PROVE  \/ consumed_at'[q1] > tok(q2).expires_at
                        \/ consumed_at'[q2] > tok(q1).expires_at
      BY <1>7 DEF NonceConsumedOnce
    <2>1. CASE consumed_at' = consumed_at
      BY <2>1 DEF NonceConsumedOnce, HasConsumed
    <2>2. CASE fresh /\ consumed_at' = [consumed_at EXCEPT ![r] = clock]
      <3>1. ASSUME NEW q \in Requests, q # r, HasConsumed(q)',
                   tok(q).nonce = tok(r).nonce
            PROVE  consumed_at'[r] > tok(q).expires_at
        <4>1. HasConsumed(q)
          BY <2>2, <3>1 DEF HasConsumed, TypeOK
        <4>2. EntryOf(q) \in consumed_nonces \/ clock > tok(q).expires_at
          BY <4>1 DEF NonceRemembered
        <4>3. clock > tok(q).expires_at
          BY <1>2, <1>7, <1>8, <2>2, <3>1, <4>2
        <4> QED
          BY <2>2, <4>3 DEF TypeOK
      <3>2. CASE q1 # r /\ q2 # r
        BY <2>2, <3>2 DEF NonceConsumedOnce, HasConsumed, TypeOK
      <3> QED
        BY <3>1, <3>2
    <2> QED
      BY <1>3, <2>1, <2>2
  <1>12. RevokedStopped'
    BY <1>3, <1>4 DEF RevokedStopped, TypeOK
  <1>13. DeniedStopped'
    BY <1>1, <1>3, <1>4 DEF DeniedStopped, TypeOK, tok
  <1> QED
    BY <1>5, <1>6, <1>9, <1>10, <1>11, <1>12, <1>13

\* The audit write, successful or not.
LEMMA AuditIInv ==
    ASSUME IInv, NEW r \in Requests, WriteAudit(r) \/ AuditFails(r)
    PROVE  IInv'
  <1> USE DEF IInv
  <1>1. /\ pc[r] = "audit"
        /\ pc' = [pc EXCEPT ![r] = "answered"]
        /\ UNCHANGED <<decision, clock, backend_available, revoked_token_ids,
                       emergency_denied_agents, consumed_nonces, body, now, bulk,
                       consumed_at, revoked_before, denied_before>>
    BY DEF WriteAudit, AuditFails, Proceed, store, history
  <1>2. /\ answer' \in [Requests -> {"none", "allow", "deny", "error"}]
        /\ audit' \subseteq audit \cup {[request |-> r, decision |-> decision[r]]}
    BY DEF WriteAudit, AuditFails, TypeOK
  <1>3. decision[r] \in Stages \cup {"allow"}
    BY <1>1 DEF Progress, BeforeDecision, TypeOK
  <1>4. [request |-> r, decision |-> decision[r]]
            \in [request : Requests, decision : Stages \cup {"allow"}]
    BY <1>3
  <1>5. TypeOK'
    BY <1>1, <1>2, <1>4 DEF TypeOK, ProgramCounters
  <1>6. Progress'
    BY <1>1 DEF Progress, BeforeDecision, TypeOK
  <1>7. NonceRemembered' /\ NonceConsumedOnce' /\ AllowedConsumed'
    BY <1>1 DEF NonceRemembered, NonceConsumedOnce, AllowedConsumed, HasConsumed,
                EntryOf, tok
  <1>8. RevokedStopped' /\ DeniedStopped'
    BY <1>1 DEF RevokedStopped, DeniedStopped, TypeOK, tok
  <1> QED
    BY <1>5, <1>6, <1>7, <1>8

\* Administration and the clock leave every evaluation where it is; they may
\* add revocations and denials, clear the latter, and drop expired nonces.
LEMMA AdministerIInv ==
    ASSUME IInv, Administer \/ Tick
    PROVE  IInv'
  <1> USE DEF IInv
  <1>1. UNCHANGED <<body, pc, now, decision, answer, audit, consumed_at,
                    revoked_before>>
    BY DEF Administer, RevokeToken, EmergencyDenyAgent, ClearEmergencyDenyList,
           FlushExpiredNonces, StartRevokeTokens, RevokeNextToken, EndRevokeTokens,
           SetBackendAvailable, Tick, evaluation, history
  <1>2. /\ clock' \in 0..MaxTime
        /\ clock' >= clock
        /\ backend_available' \in BOOLEAN
        /\ revoked_token_ids' \subseteq TokenIds
        /\ revoked_token_ids \subseteq revoked_token_ids'
        /\ emergency_denied_agents' \subseteq Agents
    BY AdminAssumption, TimeAssumption
       DEF Administer, RevokeToken, EmergencyDenyAgent, ClearEmergencyDenyList,
           FlushExpiredNonces, StartRevokeTokens, RevokeNextToken, EndRevokeTokens,
           SetBackendAvailable, Tick, store, TypeOK
  <1>3. bulk' \in [ids : SUBSET TokenIds, todo : SUBSET TokenIds,
                   result : {"running", "ok", "error"}]
    BY AdminAssumption
       DEF Administer, RevokeToken, EmergencyDenyAgent, ClearEmergencyDenyList,
           FlushExpiredNonces, StartRevokeTokens, RevokeNextToken, EndRevokeTokens,
           SetBackendAvailable, Tick, TypeOK
  <1>4. \/ /\ emergency_denied_agents \subseteq emergency_denied_agents'
           /\ denied_before' = denied_before
        \/ denied_before' = {}
    BY DEF Administer, RevokeToken, EmergencyDenyAgent, ClearEmergencyDenyList,
           FlushExpiredNonces, StartRevokeTokens, RevokeNextToken, EndRevokeTokens,
           SetBackendAvailable, Tick, store, history
  <1>5. /\ consumed_nonces' \subseteq consumed_nonces
        /\ \A e \in consumed_nonces : e.valid_until >= clock => e \in consumed_nonces'
    BY TimeAssumption
       DEF Administer, RevokeToken, EmergencyDenyAgent, ClearEmergencyDenyList,
           FlushExpiredNonces, StartRevokeTokens, RevokeNextToken, EndRevokeTokens,
           SetBackendAvailable, Tick, store, Retain, TypeOK, NonceEntry
  <1>6. TypeOK'
    BY <1>1, <1>2, <1>3, <1>4, <1>5 DEF TypeOK
  <1>7. Progress' /\ AllowedConsumed'
    BY <1>1 DEF Progress, AllowedConsumed, HasConsumed
  <1>8. NonceRemembered'
    <2> SUFFICES ASSUME NEW q \in Requests, HasConsumed(q)
                 PROVE  EntryOf(q) \in consumed_nonces' \/ clock' > tok(q).expires_at
      BY <1>1 DEF NonceRemembered, HasConsumed, EntryOf, tok
    <2>1. EntryOf(q) \in consumed_nonces \/ clock > tok(q).expires_at
      BY DEF NonceRemembered
    <2>2. /\ EntryOf(q).valid_until = tok(q).expires_at
          /\ tok(q).expires_at \in Nat
      BY BodyTypes DEF EntryOf
    <2>3. clock \in Nat /\ clock' \in Nat
      BY <1>2, TimeAssumption DEF TypeOK
    <2> QED
      BY <1>2, <1>5, <2>1, <2>2, <2>3
  <1>9. NonceConsumedOnce'
    BY <1>1 DEF NonceConsumedOnce, HasConsumed, tok
  <1>10. RevokedStopped'
    BY <1>1, <1>2 DEF RevokedStopped
  <1>11. DeniedStopped'
    BY <1>1, <1>4 DEF DeniedStopped, tok
  <1> QED
    BY <1>6, <1>7, <1>8, <1>9, <1>10, <1>11

\* The invariant depends on nothing but the variables.
LEMMA StutterIInv == IInv /\ UNCHANGED vars => IInv'
  BY DEF IInv, TypeOK, Progress, NonceRemembered, AllowedConsumed, NonceConsumedOnce,
         RevokedStopped, DeniedStopped, HasConsumed, EntryOf, tok, vars, store,
         evaluation, history

\* The invariant is inductive: every action of every actor preserves it.
THEOREM InductiveInvariant == Spec => []IInv
  <1>1. IInv /\ [Next]_vars => IInv'
    BY ArriveIInv, CheckIInv, ConsumeNonceIInv, AuditIInv, AdministerIInv, StutterIInv
       DEF Next, Step
  <1> QED
    BY InitIInv, <1>1, PTL DEF Spec

-------------------------------------------------------------------------------
(***************************************************************************)
(* What follows from it                                                     *)
(***************************************************************************)

\* Every variable keeps its type.
THEOREM TypeCorrect == Spec => []TypeOK
  BY InductiveInvariant, PTL DEF IInv

\* The store remembers the nonce of an allowed request until its token expires.
THEOREM Remembrance == Spec => []AllowedNonceRemembered
  <1>1. IInv => AllowedNonceRemembered
    BY DEF IInv, NonceRemembered, AllowedConsumed, AllowedNonceRemembered
  <1> QED
    BY <1>1, InductiveInvariant, PTL

\* Replay resistance up to expiry: consume_nonce succeeds a second time for a
\* nonce only after the token that first consumed it has expired.
THEOREM ReplayResistance == Spec => []NonceConsumedOnce
  BY InductiveInvariant, PTL DEF IInv

\* A request that arrives after its token was revoked is never allowed.
THEOREM RevocationEffective == Spec => []RevokedNeverAllowed
  <1>1. IInv => RevokedNeverAllowed
    BY DEF IInv, RevokedStopped, RevokedNeverAllowed
  <1> QED
    BY <1>1, InductiveInvariant, PTL

\* A request that arrives while its token's agent is on the emergency deny
\* list is not allowed unless the list is cleared, whatever agent it claims.
THEOREM DenyListEffective == Spec => []DeniedAgentNeverAllowed
  <1>1. IInv => DeniedAgentNeverAllowed
    BY DEF IInv, DeniedStopped, DeniedAgentNeverAllowed
  <1> QED
    BY <1>1, InductiveInvariant, PTL

\* No step of any actor drops a nonce before its recorded expiry has passed.
THEOREM Retention == Spec => NoncesKeptUntilExpiry
  <1> DEFINE Kept == \A e \in consumed_nonces \ consumed_nonces' : e.valid_until < clock
  <1>1. TypeOK /\ [Next]_vars => [Kept]_vars
    <2> SUFFICES ASSUME TypeOK, Next, NEW e \in consumed_nonces, e \notin consumed_nonces'
                 PROVE  e.valid_until < clock
      OBVIOUS
    <2>1. clock \in Nat /\ e.valid_until \in Nat
      BY TimeAssumption DEF TypeOK, NonceEntry
    <2>2. ASSUME NEW r \in Requests, ConsumeNonce(r)
          PROVE  e.valid_until < clock
      <3>1. /\ tok(r).nonce \in Nonces
            /\ tok(r).expires_at \in Nat
            /\ consumed_nonces \in SUBSET NonceEntry
        BY BodyTypes DEF TypeOK
      <3>2. consumed_nonces' = Consume(consumed_nonces, tok(r).nonce, clock, tok(r).expires_at)
        BY <2>2 DEF ConsumeNonce
      <3>3. ~(e.valid_until >= clock)
        BY <2>1, <3>1, <3>2, ConsumeFacts
      <3> QED
        BY <2>1, <3>3
    <2>3. ASSUME NEW reference_time \in 0..clock, FlushExpiredNonces(reference_time)
          PROVE  e.valid_until < clock
      BY <2>1, <2>3 DEF FlushExpiredNonces, Retain
    <2>4. ASSUME NEW r \in Requests, Arrive(r) \/ (Step(r) /\ ~ConsumeNonce(r))
          PROVE  FALSE
      BY <2>4 DEF Arrive, Step, CheckTokenRevoked, CheckAgentDenied, WriteAudit,
                  AuditFails, store
    <2>5. CASE Tick
      BY <2>5 DEF Tick, store
    <2>6. CASE Administer
      BY <2>3, <2>6
         DEF Administer, RevokeToken, EmergencyDenyAgent, ClearEmergencyDenyList,
             StartRevokeTokens, RevokeNextToken, EndRevokeTokens, SetBackendAvailable,
             store
    <2> QED
      BY <2>2, <2>4, <2>5, <2>6 DEF Next
  <1> QED
    BY <1>1, TypeCorrect, PTL DEF Spec, NoncesKeptUntilExpiry

-------------------------------------------------------------------------------
(***************************************************************************)
(* What an evaluation has established when it decides and answers.  The      *)
(* parts are inductive together, given the types and Progress of IInv.       *)
(***************************************************************************)

\* Past the pure stages of Arrive, up to and including consume_nonce, a request
\* is authentic and its identity document was live at its clock reading.
AuthenticWhenPast ==
    \A r \in Requests :
        pc[r] \in BeforeDecision \ {"idle"} \/ HasConsumed(r) =>
            /\ body[r].flaws \cap AuthenticityFlaws = {}
            /\ DocumentLive(body[r], now[r])

\* The token of an allowed request was live at the request's clock reading.
AllowedLive ==
    \A r \in Requests : decision[r] = "allow" => TokenLive(tok(r), now[r])

\* A request has its answer exactly when its evaluation has returned, and the
\* answer "allow" only for the decision "allow".
AnsweredLast ==
    \A r \in Requests :
        /\ answer[r] = "none" <=> pc[r] # "answered"
        /\ answer[r] = "allow" => decision[r] = "allow"

OutcomeInv ==
    /\ AuthenticWhenPast
    /\ AllowedLive
    /\ AnsweredLast
    /\ AnswersAreAudited
    /\ BulkRevokeComplete

\* It holds before the first request arrives.
LEMMA InitOutcomeInv == Init => OutcomeInv
  <1> SUFFICES ASSUME Init PROVE OutcomeInv
    OBVIOUS
  <1>1. AuthenticWhenPast /\ AllowedLive /\ AnsweredLast
    BY DEF Init, AuthenticWhenPast, AllowedLive, AnsweredLast, HasConsumed,
           BeforeDecision, NotConsumed
  <1>2. AnswersAreAudited
    BY DEF Init, AnswersAreAudited
  <1>3. BulkRevokeComplete
    BY DEF Init, BulkRevokeComplete
  <1> QED
    BY <1>1, <1>2, <1>3 DEF OutcomeInv

\* Arrive lets only an authentic request past.
LEMMA ArriveOutcomeInv ==
    ASSUME IInv, OutcomeInv, NEW r \in Requests, Arrive(r)
    PROVE  OutcomeInv'
  <1> USE DEF IInv, OutcomeInv
  <1> DEFINE outcome == Outcome(AuthenticityChecks(body[r], clock))
  <1>1. /\ outcome \in Stages \cup {"allow"}
        /\ outcome = "allow" => /\ body[r].flaws \cap AuthenticityFlaws = {}
                                /\ DocumentLive(body[r], clock)
    BY AuthenticityOutcome
  <1>2. /\ pc[r] = "idle"
        /\ \/ /\ outcome = "allow"
              /\ pc' = [pc EXCEPT ![r] = "is_token_revoked"]
              /\ decision' = decision
           \/ /\ outcome # "allow"
              /\ pc' = [pc EXCEPT ![r] = "audit"]
              /\ decision' = [decision EXCEPT ![r] = outcome]
    BY DEF Arrive, Proceed, Decide
  <1>3. /\ now' = [now EXCEPT ![r] = clock]
        /\ UNCHANGED <<revoked_token_ids, body, answer, audit, bulk, consumed_at>>
    BY DEF Arrive, store
  <1> HIDE DEF outcome
  <1>4. AuthenticWhenPast'
    BY <1>1, <1>2, <1>3
       DEF AuthenticWhenPast, BeforeDecision, HasConsumed, DocumentLive, TypeOK, Progress
  <1>5. AllowedLive'
    BY <1>2, <1>3 DEF AllowedLive, TokenLive, tok, TypeOK, Progress, BeforeDecision
  <1>6. AnsweredLast'
    BY <1>2, <1>3 DEF AnsweredLast, TypeOK, Progress, BeforeDecision
  <1>7. AnswersAreAudited' /\ BulkRevokeComplete'
    <2>1. \A q \in Requests : answer[q] = "error" => decision'[q] = decision[q]
      BY <1>2 DEF AnsweredLast, TypeOK
    <2> QED
      BY <1>3, <2>1 DEF AnswersAreAudited, BulkRevokeComplete
  <1> QED
    BY <1>4, <1>5, <1>6, <1>7

\* The three store calls: the last one decides.
LEMMA StoreCallOutcomeInv ==
    ASSUME IInv, OutcomeInv, NEW r \in Requests,
           CheckTokenRevoked(r) \/ CheckAgentDenied(r) \/ ConsumeNonce(r)
    PROVE  OutcomeInv'
  <1> USE DEF IInv, OutcomeInv
  <1> DEFINE outcome == Outcome(AuthorityChecks(body[r], tok(r), now[r]))
  <1>1. outcome = "allow" => TokenLive(tok(r), now[r])
    BY AuthorityOutcome
  <1>2. /\ pc[r] \in BeforeDecision \ {"idle"}
        /\ \E to \in {"is_agent_emergency_denied", "consume_nonce", "audit"} :
              pc' = [pc EXCEPT ![r] = to]
        /\ \/ decision' = decision
           \/ decision' = [decision EXCEPT ![r] = "enforce_revocation_and_redelegation"]
           \/ decision' = [decision EXCEPT ![r] = outcome]
    BY DEF CheckTokenRevoked, CheckAgentDenied, ConsumeNonce, Proceed, Decide,
           BeforeDecision
  <1>3. consumed_at' = consumed_at \/ consumed_at' = [consumed_at EXCEPT ![r] = clock]
    BY DEF CheckTokenRevoked, CheckAgentDenied, ConsumeNonce, history
  <1>4. UNCHANGED <<revoked_token_ids, body, now, answer, audit, bulk>>
    BY DEF CheckTokenRevoked, CheckAgentDenied, ConsumeNonce, store
  <1> HIDE DEF outcome
  <1>5. AuthenticWhenPast'
    BY <1>2, <1>3, <1>4
       DEF AuthenticWhenPast, BeforeDecision, HasConsumed, DocumentLive, TypeOK
  <1>6. AllowedLive'
    BY <1>1, <1>2, <1>4 DEF AllowedLive, TokenLive, tok, TypeOK
  <1>7. AnsweredLast'
    BY <1>2, <1>4 DEF AnsweredLast, TypeOK, Progress, BeforeDecision
  <1>8. AnswersAreAudited' /\ BulkRevokeComplete'
    <2>1. \A q \in Requests : answer[q] = "error" => decision'[q] = decision[q]
      BY <1>2 DEF AnsweredLast, TypeOK, BeforeDecision
    <2> QED
      BY <1>4, <2>1 DEF AnswersAreAudited, BulkRevokeComplete
  <1> QED
    BY <1>5, <1>6, <1>7, <1>8

\* The audit write precedes the answer, and happens once.
LEMMA AuditOutcomeInv ==
    ASSUME IInv, OutcomeInv, NEW r \in Requests, WriteAudit(r) \/ AuditFails(r)
    PROVE  OutcomeInv'
  <1> USE DEF IInv, OutcomeInv
  <1>1. /\ pc[r] = "audit"
        /\ pc' = [pc EXCEPT ![r] = "answered"]
        /\ UNCHANGED <<decision, revoked_token_ids, body, now, bulk, consumed_at>>
    BY DEF WriteAudit, AuditFails, Proceed, store, history
  <1> DEFINE event == [request |-> r, decision |-> decision[r]]
  <1>2. \/ /\ audit' = audit \cup {event}
           /\ answer' = [answer EXCEPT
                            ![r] = IF decision[r] = "allow" THEN "allow" ELSE "deny"]
        \/ /\ audit' = audit \/ audit' = audit \cup {event}
           /\ answer' = [answer EXCEPT ![r] = "error"]
    BY DEF WriteAudit, AuditFails
  <1>3. AuthenticWhenPast' /\ AllowedLive'
    BY <1>1 DEF AuthenticWhenPast, AllowedLive, BeforeDecision, HasConsumed, DocumentLive,
                TokenLive, tok, TypeOK
  <1>4. AnsweredLast'
    BY <1>1, <1>2 DEF AnsweredLast, TypeOK
  <1>5. AnswersAreAudited'
    <2>1. answer[r] = "none" /\ decision[r] \in Stages \cup {"allow"}
      BY <1>1 DEF AnsweredLast, Progress, BeforeDecision, TypeOK
    <2>2. {e \in audit : e.request = r} = {}
      BY <2>1 DEF AnswersAreAudited
    <2>3. ASSUME NEW q \in Requests, q # r
          PROVE  /\ {e \in audit' : e.request = q} = {e \in audit : e.request = q}
                 /\ answer'[q] = answer[q]
      BY <1>2, <2>3 DEF TypeOK
    <2>4. CASE /\ audit' = audit \/ audit' = audit \cup {event}
               /\ answer' = [answer EXCEPT ![r] = "error"]
      <3>1. {e \in audit' : e.request = r} \subseteq {event}
        BY <2>2, <2>4
      <3>2. answer'[r] = "error"
        BY <2>4 DEF TypeOK
      <3> QED
        BY <1>1, <2>3, <3>1, <3>2 DEF AnswersAreAudited
    <2>5. CASE /\ audit' = audit \cup {event}
               /\ answer' = [answer EXCEPT
                                ![r] = IF decision[r] = "allow" THEN "allow" ELSE "deny"]
      <3>1. {e \in audit' : e.request = r} = {event}
        BY <2>2, <2>5
      <3>2. answer'[r] = IF decision[r] = "allow" THEN "allow" ELSE "deny"
        BY <2>5 DEF TypeOK
      <3> QED
        BY <1>1, <2>1, <2>3, <3>1, <3>2 DEF AnswersAreAudited
    <2> QED
      BY <1>2, <2>4, <2>5
  <1>6. BulkRevokeComplete'
    BY <1>1 DEF BulkRevokeComplete
  <1> QED
    BY <1>3, <1>4, <1>5, <1>6

\* Administration never takes a revocation back, and revoke_tokens leaves its
\* list only for an id it has revoked.
LEMMA AdministerOutcomeInv ==
    ASSUME IInv, OutcomeInv, Administer \/ Tick
    PROVE  OutcomeInv'
  <1> USE DEF IInv, OutcomeInv
  <1>1. UNCHANGED <<body, pc, now, decision, answer, audit, consumed_at>>
    BY DEF Administer, RevokeToken, EmergencyDenyAgent, ClearEmergencyDenyList,
           FlushExpiredNonces, StartRevokeTokens, RevokeNextToken, EndRevokeTokens,
           SetBackendAvailable, Tick, evaluation, history
  <1>2. AuthenticWhenPast' /\ AllowedLive' /\ AnsweredLast' /\ AnswersAreAudited'
    BY <1>1 DEF AuthenticWhenPast, AllowedLive, AnsweredLast, AnswersAreAudited,
                HasConsumed, DocumentLive, TokenLive, tok
  <1>3. CASE UNCHANGED bulk
    <2>1. revoked_token_ids \subseteq revoked_token_ids'
      BY DEF Administer, RevokeToken, EmergencyDenyAgent, ClearEmergencyDenyList,
             FlushExpiredNonces, StartRevokeTokens, RevokeNextToken, EndRevokeTokens,
             SetBackendAvailable, Tick, store
    <2> QED
      BY <1>2, <1>3, <2>1 DEF BulkRevokeComplete
  <1>4. CASE \E ids \in BulkLists : StartRevokeTokens(ids)
    BY <1>2, <1>4 DEF StartRevokeTokens, BulkRevokeComplete, store
  <1>5. CASE RevokeNextToken
    BY <1>2, <1>5 DEF RevokeNextToken, BulkRevokeComplete, TypeOK
  <1>6. CASE EndRevokeTokens
    BY <1>2, <1>6 DEF EndRevokeTokens, BulkRevokeComplete, TypeOK, store
  <1>7. \/ UNCHANGED bulk
        \/ \E ids \in BulkLists : StartRevokeTokens(ids)
        \/ RevokeNextToken
        \/ EndRevokeTokens
    BY DEF Administer, RevokeToken, EmergencyDenyAgent, ClearEmergencyDenyList,
           FlushExpiredNonces, SetBackendAvailable, Tick
  <1> QED
    BY <1>3, <1>4, <1>5, <1>6, <1>7

\* The outcome invariant depends on nothing but the variables.
LEMMA StutterOutcomeInv == OutcomeInv /\ UNCHANGED vars => OutcomeInv'
  BY DEF OutcomeInv, AuthenticWhenPast, AllowedLive, AnsweredLast, AnswersAreAudited,
         BulkRevokeComplete, HasConsumed, DocumentLive, TokenLive, tok, vars, store,
         evaluation, history

\* Every step of every actor preserves what evaluations have established.
THEOREM OutcomeInductive == Spec => []OutcomeInv
  <1>1. IInv /\ OutcomeInv /\ [Next]_vars => OutcomeInv'
    BY ArriveOutcomeInv, StoreCallOutcomeInv, AuditOutcomeInv, AdministerOutcomeInv,
       StutterOutcomeInv
       DEF Next, Step
  <1> QED
    BY InitOutcomeInv, InductiveInvariant, <1>1, PTL DEF Spec

\* consume_nonce is reached only by authentic requests: nothing forged can use
\* up the nonce of a genuine token.
THEOREM AuthenticConsumption == Spec => []OnlyAuthenticRequestsConsume
  <1>1. OutcomeInv => OnlyAuthenticRequestsConsume
    BY DEF OutcomeInv, AuthenticWhenPast, OnlyAuthenticRequestsConsume
  <1> QED
    BY <1>1, OutcomeInductive, PTL

\* A verdict is in the audit log, alone, before it is given, and next to the
\* sink's error the log holds the pipeline's own decision or nothing.
THEOREM AuditBeforeAnswer == Spec => []AnswersAreAudited
  BY OutcomeInductive, PTL DEF OutcomeInv

\* revoke_tokens answers Ok only when all of its ids are revoked.
THEOREM BulkRevocation == Spec => []BulkRevokeComplete
  BY OutcomeInductive, PTL DEF OutcomeInv

\* With no clock leeway, no token is allowed twice to prompt evaluations.  With
\* a leeway this is false: a token stays live for Leeway seconds after its
\* nonce may have been pruned.
THEOREM PromptReplayBlocked ==
    ASSUME Leeway = 0
    PROVE  Spec => []NoPromptReplay
  <1>1. IInv /\ OutcomeInv => NoPromptReplay
    <2> SUFFICES ASSUME IInv, OutcomeInv,
                        NEW r1 \in Requests, NEW r2 \in Requests, r1 # r2,
                        answer[r1] = "allow", answer[r2] = "allow",
                        Prompt(r1), Prompt(r2),
                        body[r1].token_id = body[r2].token_id
                 PROVE  FALSE
      BY DEF NoPromptReplay
    <2>1. tok(r1) = tok(r2)
      BY DEF tok
    <2>2. TokenLive(tok(r1), now[r1]) /\ TokenLive(tok(r2), now[r2])
      BY DEF OutcomeInv, AnsweredLast, AllowedLive
    <2>3. /\ tok(r1).expires_at \in Nat
          /\ now[r1] \in Nat /\ now[r2] \in Nat
      BY BodyTypes, TimeAssumption DEF IInv, TypeOK
    <2>4. now[r1] < tok(r1).expires_at /\ now[r2] < tok(r1).expires_at
      BY <2>1, <2>2, <2>3 DEF TokenLive
    <2>5. now[r1] > tok(r1).expires_at \/ now[r2] > tok(r1).expires_at
      BY <2>1 DEF IInv, NonceConsumedOnce, Prompt
    <2> QED
      BY <2>3, <2>4, <2>5
  <1> QED
    BY <1>1, InductiveInvariant, OutcomeInductive, PTL

-------------------------------------------------------------------------------
(***************************************************************************)
(* The pipeline implements the gate.  IInv and OutcomeInv give the gate's    *)
(* guards: NonceRemembered that an admitted nonce was spent only by expired  *)
(* tokens, RevokedStopped, DeniedStopped and AllowedLive that an allowed     *)
(* request is not barred and was live.                                       *)
(***************************************************************************)

presents == [r \in Requests |-> body[r].token_id]
spent == {EntryOf(r) : r \in {q \in Requests : HasConsumed(q)}}

\* What a request presents, seen by the gate.
LEMMA PresentsFacts ==
    ASSUME NEW r \in Requests
    PROVE  Token[presents[r]] = tok(r)
  BY DEF presents, tok

\* The initial states are initial states of the gate.
LEMMA InitGate == Init => Gate!Init
  <1> SUFFICES ASSUME Init PROVE Gate!Init
    OBVIOUS
  <1>1. [r \in Requests |-> body[r].token_id] \in [Requests -> TokenIds]
    BY SubmissionAssumption DEF Init, Submission
  <1>2. phase = [r \in Requests |-> "idle"]
    BY DEF Init, phase
  <1>3. {EntryOf(r) : r \in {q \in Requests : HasConsumed(q)}} = {}
    BY DEF Init, HasConsumed, NotConsumed
  <1> QED
    BY <1>1, <1>2, <1>3 DEF Init, Gate!Init

\* One request's phase follows from its own pc, answer and consumed_at.
LEMMA PhaseStep ==
    ASSUME IInv, NEW r \in Requests,
           \A q \in Requests \ {r} :
               /\ pc'[q] = pc[q]
               /\ answer'[q] = answer[q]
               /\ consumed_at'[q] = consumed_at[q]
    PROVE  phase' = [phase EXCEPT ![r] = phase'[r]]
  <1>1. \A q \in Requests \ {r} : phase'[q] = phase[q]
    BY DEF phase, HasConsumed
  <1>2. /\ phase' = [q \in Requests |-> phase'[q]]
        /\ phase = [q \in Requests |-> phase[q]]
    BY DEF phase
  <1> QED
    BY <1>1, <1>2

\* Arrive is Submit, whatever the pure stages decide.
LEMMA ArriveGate ==
    ASSUME IInv, OutcomeInv, NEW r \in Requests, Arrive(r)
    PROVE  Gate!Submit(r)
  <1>1. /\ pc[r] = "idle"
        /\ pc' = [pc EXCEPT ![r] = pc'[r]]
        /\ pc'[r] \in {"is_token_revoked", "audit"}
    BY DEF Arrive, Proceed, Decide, IInv, TypeOK
  <1>2. /\ now' = [now EXCEPT ![r] = clock]
        /\ revoked_before' = revoked_before \cup
               {q \in {r} : body[q].token_id \in revoked_token_ids}
        /\ denied_before' = denied_before \cup
               {q \in {r} : tok(q).agent_id \in emergency_denied_agents}
        /\ UNCHANGED <<clock, revoked_token_ids, emergency_denied_agents, body,
                       answer, consumed_at>>
    BY DEF Arrive, store
  <1>3. phase[r] = "idle" /\ phase'[r] = "pending"
    <2>1. ~HasConsumed(r)'
      BY <1>1, <1>2 DEF IInv, Progress, BeforeDecision, HasConsumed
    <2> QED
      BY <1>1, <2>1 DEF phase
  <1>4. phase' = [phase EXCEPT ![r] = "pending"]
    <2>1. \A q \in Requests \ {r} : pc'[q] = pc[q]
      BY <1>1 DEF IInv, TypeOK
    <2> QED
      BY <1>2, <1>3, <2>1, PhaseStep
  <1>5. /\ UNCHANGED presents
        /\ UNCHANGED spent
    BY <1>2 DEF presents, spent, EntryOf, HasConsumed, tok
  <1>6. /\ {q \in {r} : presents[q] \in revoked_token_ids}
             = {q \in {r} : body[q].token_id \in revoked_token_ids}
        /\ {q \in {r} : Token[presents[q]].agent_id \in emergency_denied_agents}
             = {q \in {r} : tok(q).agent_id \in emergency_denied_agents}
    BY DEF presents, tok
  <1> QED
    BY <1>2, <1>3, <1>4, <1>5, <1>6 DEF Gate!Submit, presents, spent

\* A store call that does not consume, for whatever reason, is invisible.
LEMMA CheckGate ==
    ASSUME IInv, NEW r \in Requests,
           pc[r] \notin {"idle", "answered"},
           \E to \in ProgramCounters \ {"idle", "answered"} :
               pc' = [pc EXCEPT ![r] = to],
           UNCHANGED <<clock, revoked_token_ids, emergency_denied_agents, body, now,
                       answer, consumed_at, revoked_before, denied_before>>
    PROVE  UNCHANGED Gate!gateVars
  <1>1. phase'[r] = phase[r]
    BY DEF phase, HasConsumed, IInv, TypeOK
  <1>2. phase' = phase
    <2>1. \A q \in Requests \ {r} : pc'[q] = pc[q]
      BY DEF IInv, TypeOK
    <2>2. phase' = [phase EXCEPT ![r] = phase'[r]]
      BY <2>1, PhaseStep
    <2> QED
      BY <1>1, <2>2 DEF phase
  <1>3. UNCHANGED presents /\ UNCHANGED spent
    BY DEF presents, spent, EntryOf, HasConsumed, tok
  <1> QED
    BY <1>2, <1>3 DEF Gate!gateVars, presents, spent

\* consume_nonce is Admit when it finds the nonce fresh, and invisible if not.
LEMMA ConsumeGate ==
    ASSUME IInv, NEW r \in Requests, ConsumeNonce(r)
    PROVE  Gate!Admit(r) \/ UNCHANGED Gate!gateVars
  <1> DEFINE fresh == IsFresh(consumed_nonces, tok(r).nonce, clock, tok(r).expires_at)
  <1>1. /\ pc[r] = "consume_nonce"
        /\ pc' = [pc EXCEPT ![r] = "audit"]
        /\ \/ consumed_at' = consumed_at
           \/ fresh /\ consumed_at' = [consumed_at EXCEPT ![r] = clock]
        /\ UNCHANGED <<clock, revoked_token_ids, emergency_denied_agents, body, now,
                       answer, revoked_before, denied_before>>
    BY DEF ConsumeNonce, Decide
  <1>2. CASE consumed_at' = consumed_at
    BY <1>1, <1>2, CheckGate DEF ProgramCounters
  <1>3. CASE fresh /\ consumed_at' = [consumed_at EXCEPT ![r] = clock]
    <2>1. \A e \in consumed_nonces : e.nonce = tok(r).nonce => e.valid_until < clock
      <3>1. /\ tok(r).nonce \in Nonces
            /\ tok(r).expires_at \in Nat
            /\ clock \in Nat
            /\ consumed_nonces \in SUBSET NonceEntry
        BY BodyTypes, TimeAssumption DEF IInv, TypeOK
      <3> QED
        BY <1>3, <3>1, ConsumeFacts
    <2>2. \A e \in spent : e.nonce = tok(r).nonce => e.valid_until < clock
      <3> SUFFICES ASSUME NEW q \in Requests, HasConsumed(q),
                          EntryOf(q).nonce = tok(r).nonce
                   PROVE  EntryOf(q).valid_until < clock
        BY DEF spent
      <3>1. /\ EntryOf(q).valid_until = tok(q).expires_at
            /\ tok(q).expires_at \in Nat
            /\ clock \in Nat
        <4>1. TypeOK /\ clock \in Nat
          BY TimeAssumption DEF IInv, TypeOK
        <4>2. EntryOf(q).valid_until = tok(q).expires_at
          BY DEF EntryOf
        <4> QED
          BY <4>1, <4>2, BodyTypes
      <3>2. EntryOf(q) \in consumed_nonces \/ clock > tok(q).expires_at
        BY DEF IInv, NonceRemembered
      <3> QED
        BY <2>1, <3>1, <3>2
    <2>3. clock # NotConsumed
      BY TimeAssumption DEF IInv, TypeOK, NotConsumed
    <2>4. /\ HasConsumed(r)' /\ ~HasConsumed(r)
          /\ \A q \in Requests \ {r} : consumed_at'[q] = consumed_at[q] /\ pc'[q] = pc[q]
      BY <1>1, <1>3, <2>3 DEF HasConsumed, IInv, TypeOK, Progress, BeforeDecision
    <2>5. phase[r] = "pending" /\ phase'[r] = "admitted"
      <3>1. pc'[r] = "audit"
        BY <1>1 DEF IInv, TypeOK
      <3> QED
        BY <1>1, <2>4, <3>1 DEF phase
    <2>6. phase' = [phase EXCEPT ![r] = "admitted"]
      BY <1>1, <2>4, <2>5, PhaseStep
    <2>7. spent' = spent \cup {EntryOf(r)}
      <3>1. \A q \in Requests : EntryOf(q)' = EntryOf(q)
        BY <1>1 DEF EntryOf, tok
      <3>2. \A q \in Requests : HasConsumed(q)' <=> HasConsumed(q) \/ q = r
        BY <2>4 DEF HasConsumed
      <3> QED
        BY <3>1, <3>2 DEF spent
    <2>8. UNCHANGED presents
      BY <1>1 DEF presents
    <2>9. /\ EntryOf(r) = [nonce |-> tok(r).nonce, valid_until |-> tok(r).expires_at]
          /\ Token[presents[r]] = tok(r)
      BY PresentsFacts DEF EntryOf
    <2>10. Gate!Admit(r)
      BY <1>1, <2>2, <2>5, <2>6, <2>7, <2>8, <2>9 DEF Gate!Admit, presents, spent
    <2> QED
      BY <2>10
  <1> QED
    BY <1>1, <1>2, <1>3

\* The audit write is Allow or Refuse; a failed one is Refuse.
LEMMA AuditGate ==
    ASSUME IInv, OutcomeInv, NEW r \in Requests, WriteAudit(r) \/ AuditFails(r)
    PROVE  Gate!Allow(r) \/ Gate!Refuse(r)
  <1>1. /\ pc[r] = "audit"
        /\ pc' = [pc EXCEPT ![r] = "answered"]
        /\ UNCHANGED <<clock, revoked_token_ids, emergency_denied_agents, body, now,
                       consumed_at, revoked_before, denied_before>>
    BY DEF WriteAudit, AuditFails, Proceed, store, history
  <1>2. /\ answer' = [answer EXCEPT ![r] = answer'[r]]
        /\ answer'[r] = "allow" => decision[r] = "allow"
    BY DEF WriteAudit, AuditFails, IInv, TypeOK
  <1>3. UNCHANGED presents /\ UNCHANGED spent
    BY <1>1 DEF presents, spent, EntryOf, HasConsumed, tok
  <1>4. /\ pc'[r] = "answered"
        /\ \A q \in Requests \ {r} : pc'[q] = pc[q] /\ answer'[q] = answer[q]
    BY <1>1, <1>2 DEF IInv, TypeOK
  <1>5. /\ phase[r] = IF HasConsumed(r) THEN "admitted" ELSE "pending"
        /\ phase'[r] = IF answer'[r] = "allow" THEN "allowed" ELSE "refused"
    BY <1>1, <1>4 DEF phase
  <1>6. phase' = [phase EXCEPT ![r] = phase'[r]]
    BY <1>1, <1>4, PhaseStep
  <1>7. CASE answer'[r] = "allow"
    <2>1. decision[r] = "allow"
      BY <1>2, <1>7
    <2>2. HasConsumed(r)
      BY <2>1 DEF IInv, AllowedConsumed
    <2>3. r \notin revoked_before \cup denied_before
      BY <2>1 DEF IInv, RevokedStopped, DeniedStopped
    <2>4. Gate!Live(Token[presents[r]], now[r])
      BY <2>1, PresentsFacts DEF OutcomeInv, AllowedLive, TokenLive, Gate!Live
    <2>5. phase[r] = "admitted" /\ phase' = [phase EXCEPT ![r] = "allowed"]
      BY <1>5, <1>6, <1>7, <2>2
    <2>6. Gate!Allow(r)
      BY <1>1, <1>3, <2>3, <2>4, <2>5 DEF Gate!Allow, presents, spent
    <2> QED
      BY <2>6
  <1>8. CASE answer'[r] # "allow"
    <2>1. phase[r] \in {"pending", "admitted"} /\ phase' = [phase EXCEPT ![r] = "refused"]
      BY <1>5, <1>6, <1>8
    <2>2. Gate!Refuse(r)
      BY <1>1, <1>3, <2>1 DEF Gate!Refuse, presents, spent
    <2> QED
      BY <2>2
  <1> QED
    BY <1>7, <1>8

\* Administration and the clock are the gate's own, or invisible to it:
\* flushing nonces, outages and the bookkeeping of revoke_tokens.
LEMMA AdministerGate ==
    ASSUME IInv, Administer \/ Tick
    PROVE  [Gate!Next]_(Gate!gateVars)
  <1>1. UNCHANGED <<body, pc, now, answer, consumed_at, revoked_before>>
    BY DEF Administer, RevokeToken, EmergencyDenyAgent, ClearEmergencyDenyList,
           FlushExpiredNonces, StartRevokeTokens, RevokeNextToken, EndRevokeTokens,
           SetBackendAvailable, Tick, evaluation, history
  <1>2. UNCHANGED phase /\ UNCHANGED presents /\ UNCHANGED spent
    BY <1>1 DEF phase, presents, spent, EntryOf, HasConsumed, tok
  <1>3. CASE UNCHANGED <<clock, revoked_token_ids, emergency_denied_agents, denied_before>>
    BY <1>1, <1>2, <1>3 DEF Gate!gateVars, presents, spent
  <1>4. ASSUME NEW t \in TokenIds,
               revoked_token_ids' = revoked_token_ids \cup {t},
               UNCHANGED <<clock, emergency_denied_agents, denied_before>>
        PROVE  Gate!Next
    <2>1. Gate!Revoke(t)
      BY <1>1, <1>2, <1>4 DEF Gate!Revoke, presents, spent
    <2> QED
      BY <2>1 DEF Gate!Next
  <1>5. ASSUME NEW a \in Deniable, EmergencyDenyAgent(a)
        PROVE  Gate!Next
    <2>1. Gate!Deny(a)
      BY <1>1, <1>2, <1>5 DEF EmergencyDenyAgent, Gate!Deny, presents, spent, history
    <2> QED
      BY <2>1, AdminAssumption DEF Gate!Next
  <1>6. CASE ClearEmergencyDenyList
    <2>1. Gate!Clear
      BY <1>1, <1>2, <1>6 DEF ClearEmergencyDenyList, Gate!Clear, presents, spent
    <2> QED
      BY <2>1 DEF Gate!Next
  <1>7. CASE Tick
    <2>1. Gate!Tick
      BY <1>1, <1>2, <1>7 DEF Tick, Gate!Tick, presents, spent, store, history
    <2> QED
      BY <2>1 DEF Gate!Next
  <1>8. \/ UNCHANGED <<clock, revoked_token_ids, emergency_denied_agents, denied_before>>
        \/ \E t \in TokenIds :
              /\ revoked_token_ids' = revoked_token_ids \cup {t}
              /\ UNCHANGED <<clock, emergency_denied_agents, denied_before>>
        \/ \E a \in Deniable : EmergencyDenyAgent(a)
        \/ ClearEmergencyDenyList
        \/ Tick
    BY AdminAssumption
       DEF Administer, RevokeToken, FlushExpiredNonces, StartRevokeTokens,
           RevokeNextToken, EndRevokeTokens, SetBackendAvailable, store, history,
           IInv, TypeOK
  <1> QED
    BY <1>3, <1>4, <1>5, <1>6, <1>7, <1>8

\* The gate does not see a step that changes none of the variables.
LEMMA StutterGate == UNCHANGED vars => UNCHANGED Gate!gateVars
  BY DEF vars, store, evaluation, history, Gate!gateVars, phase, EntryOf, HasConsumed, tok

\* Every behaviour of the pipeline over the store that prunes is a behaviour
\* of the gate that never forgets a nonce and admits in one atomic step.
THEOREM PipelineImplementsGate == Spec => ImplementsGate
  <1>1. IInv /\ OutcomeInv /\ [Next]_vars => [Gate!Next]_(Gate!gateVars)
    <2> SUFFICES ASSUME IInv, OutcomeInv, [Next]_vars
                 PROVE  [Gate!Next]_(Gate!gateVars)
      OBVIOUS
    <2>1. ASSUME NEW r \in Requests, Arrive(r)
          PROVE  Gate!Next
      BY <2>1, ArriveGate DEF Gate!Next
    <2>2. ASSUME NEW r \in Requests, CheckTokenRevoked(r) \/ CheckAgentDenied(r)
          PROVE  UNCHANGED Gate!gateVars
      <3>1. /\ pc[r] \notin {"idle", "answered"}
            /\ \E to \in ProgramCounters \ {"idle", "answered"} :
                   pc' = [pc EXCEPT ![r] = to]
            /\ UNCHANGED <<clock, revoked_token_ids, emergency_denied_agents, body,
                           now, answer, consumed_at, revoked_before, denied_before>>
        BY <2>2 DEF CheckTokenRevoked, CheckAgentDenied, Proceed, Decide,
                    ProgramCounters, store, history
      <3> QED
        BY <3>1, CheckGate
    <2>3. ASSUME NEW r \in Requests, ConsumeNonce(r)
          PROVE  [Gate!Next]_(Gate!gateVars)
      BY <2>3, ConsumeGate DEF Gate!Next
    <2>4. ASSUME NEW r \in Requests, WriteAudit(r) \/ AuditFails(r)
          PROVE  Gate!Next
      BY <2>4, AuditGate DEF Gate!Next
    <2> QED
      BY <2>1, <2>2, <2>3, <2>4, AdministerGate, StutterGate DEF Next, Step
  <1> QED
    BY InitGate, <1>1, InductiveInvariant, OutcomeInductive, PTL
       DEF Spec, ImplementsGate, Gate!Spec
===============================================================================
