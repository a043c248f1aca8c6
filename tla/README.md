# A TLA+ verification project for signet (`delegated`)

signet decides whether an agent may perform an action on somebody's behalf. A
request carries an identity document and a delegation token, both signed; signet
verifies them, consults a trust state (revoked tokens, emergency-denied agents,
consumed nonces), applies a policy, writes an audit event and answers allow or
deny. Paths below are relative to the directory that holds `src/`; the Rust code
is under `src/src/`.

## 1. Inventory

| Component | State | Operations | Interacts with | What is hard | What makes it correct |
|---|---|---|---|---|---|
| Evaluation pipeline (`engine*.rs`, `stages*.rs`) | none of its own; one clock reading per request | `evaluate_and_audit_*`: nine stages in a fixed order | store (three calls), audit sink | requests interleave between the store calls; lifetime judged by an early clock reading; failure after the nonce is consumed | a token is allowed once; revoked or denied is never allowed; forged bodies consume nothing; every answer audited; every request answered |
| In-memory trust state (`revocation.rs`, `revocation_async.rs`) | `revoked_token_ids`, `emergency_denied_agents`, `consumed_nonces`, availability | `is_token_revoked`, `is_agent_emergency_denied`, `consume_nonce`, `revoke_token(s)`, `emergency_deny_agent`, `clear_emergency_deny_list`, `flush_expired_nonces` | all evaluations, administrators | pruning against two clocks; bulk operations that fail midway | no nonce forgotten before its expiry |
| File-backed trust state (`revocation.rs`) | JSON file, lock file | the same, each as lock/load/save/unlock | other processes, file system | crash between truncate and write, stale lock, lost update, lock timeout | acknowledged changes survive or the store fails closed; calls return |
| Redis trust state (`revocation_redis.rs`) | keys with expiry, on the server | the same and `unrevoke_token`, `undeny_agent`, each as the commands it sends | other instances, the server | lost replies and late commands, whole-second expiry, scan against concurrent writes | acknowledged changes stand; clearing clears and ends; errors deny; a nonce is granted once |
| Audit log (`audit.rs`) | append-only JSONL file | `write_event`, `read_events` in two orders | pipeline, control plane, CLI | two writes per event, cut-short writes, chunk boundaries, a file that grows while it is read | acknowledged events are readable; readers are exact |
| Adapter guard (`adapters/guard.rs`) | per tuple: timestamps, leases in flight | `enter_adapter_guard`, lease drop | adapters | clock readings late and out of order; one tuple's call sweeps the others | leases counted exactly; rate bound in real time; no leak |
| Adapters, axum layer, proxy (`adapters/*`, `bin/signet_proxy.rs`) | none | decode, guard, evaluate, forward, encode | guard, pipeline | answers that bypass the audit log; futures dropped while they wait; eight handlers to keep in step | nothing behind them reached without an audited allow; refusals cost no nonce; answers agree with the log |
| Runtime configuration (`revocation.rs`) | environment | production gate, choice of store | adapters, engine | - | no local store in production |
| Contracts, profiles, policy (`contracts.rs`, `profiles.rs`, `policy*.rs`) | none | pure checks of a request and a host context | pipeline, preview | field-by-field cases; the preview and the pipeline look at different actions | nothing beyond the token is allowed; what is built is accepted |
| Crypto, identity verifiers (`crypto.rs`, `identity_verifier.rs`) | none | sign, verify with a key of the document | pipeline, issuance | which key, which payload; key rotation | an altered token is refused, a rotated key accepted |
| Issuance (`issuance.rs`) | process-wide counter | three builders | threads of the issuer; contract | counter and clock read in two steps, restarts; checks that differ from the contract's | ids never repeat; what is built is accepted |
| Discovery (`discovery.rs`) | issuers' metadata, agents' documents | two registrations, four lookups | verifiers | re-registration while older tokens are about | the four endpoints tell one story |
| Client, wire (`client.rs`, `wire.rs`) | none | post and read, over three protocols | adapters | lost answers, posting again, answers that are not signet's | what a client believes agrees with the audit log |
| Control plane, delegation UX, CLI (`control_plane.rs`, `delegation_ux.rs`, `bin/signet.rs`) | proposal file | revoke, verify, approve, deny, with receipts | file store, operators | one of several steps failing; a proposal edited meanwhile | a receipt only for what is revoked; what is revoked is not allowed |
| Host context (`host_context.rs`) | none | builder, provider | policy | - | read by the checks |

Status of each component: `PROJECT.json`, "components". What can go wrong and a test
would hardly reach, line by line: `PROJECT.json`, "hazards".

## 2. Plan

1. *Done.* `TrustState`, `TrustEvaluation`, `AuthorizationGate`: the pipeline over the
   in-memory store, its abstract specification, the theorems about it.
2. *Done.* `FileTrustState`: the durable store. `AuditLog`: the log and its readers.
   `AdapterGuard`: the guard. `Adapters`: guard, runtime gate, pipeline and forwarding
   composed.
3. *Done.* `RedisTrustState`: the shared store, implementing the same gate.
   `RequestChecks`: contract, profile, signatures, lifetimes and policy. `Discovery` and
   `Issuance`: what is built, published and presented. `Client`: the client in front of
   `Adapters`. `ControlPlane`: operators over `FileTrustState`.
4. *Done.* The proofs: every safety property that a passing run checks is a theorem, and so
   are both refinements of `AuthorizationGate` (section 6). What stays with TLC, and why, is
   at the end of that section.

## 3. Modules

### TrustState
The operations on the nonce map that the in-memory and the file store share:
`retain`, the prune reference `min(Utc::now(), valid_until)`, and `consume_nonce` as
prune, test, insert.

### TrustEvaluation (with AuthorizationGate, MCTrustEvaluation)
One evaluation thread per request, and administrators, over the in-memory store.

| Code | Model |
|---|---|
| `now` passed to `evaluate_and_audit_*` | `now[r]`, set in `Arrive` |
| `Utc::now()` inside the store | `clock` at the step |
| `normalize_request` ... `validate_identity_document_lifetime` | `AuthenticityChecks`, evaluated in `Arrive` |
| `is_token_revoked`, `is_agent_emergency_denied`, `consume_nonce` in `enforce_revocation_and_redelegation` | `CheckTokenRevoked`, `CheckAgentDenied`, `ConsumeNonce` |
| depth check, `validate_token_lifetime`, `validate_token_binding`, policy | `AuthorityChecks`, evaluated in `ConsumeNonce` |
| `write_audit_event(sink, &event)?` and return | `WriteAudit`, `AuditFails` |
| admin trait | `RevokeToken`, `EmergencyDenyAgent`, `ClearEmergencyDenyList`, `FlushExpiredNonces`, `StartRevokeTokens`/`RevokeNextToken`/`EndRevokeTokens` |
| `set_backend_available` | `SetBackendAvailable` |

Pure code between two store calls is one step with the call before it: threads share
only the store, so nothing can be observed in between. Each store call is one step:
it holds the mutex throughout. (Availability is read just before the mutex is taken;
an outage that begins between the two is an outage that begins after the call.)
A body carries, as `flaws`, the verdicts of the stages that depend on nothing but the
body: contract, profile, signatures, delegation depth, delegator and audience, policy.
The claimed agent, the token and the document's expiry are data, because the deny
list, the store and the clock look at them. An action on an unavailable store that
returns an error and changes nothing is not a step, except where a caller's control
depends on the error. `consumed_at`, `revoked_before` and `denied_before` are history.

`AuditFails` is the sink's error, which the caller gets in place of the decision. The file
sink writes the event first and the newline second (`src/src/audit.rs:62`), so an error may
leave nothing, a part of the event, or all of it in the log: the model has the outcome
without an event and the one with it. (A part is no event.) `AnswersAreAudited` therefore
asks of an error only that the log hold nothing but the pipeline's own decision.
`FlushExpiredNonces` takes readings of the clock up to the present. The code takes any
reference time, and a caller who passes one that lies ahead drops nonces of live tokens;
`NoncesKeptUntilExpiry` does not hold of such a call.

`AuthorizationGate` is what callers are promised: nonces are never forgotten, a
request is admitted in one atomic step only if every earlier spending of its nonce was
by a token that has expired since, and allowed only if it was not barred on arrival.
`ImplementsGate` is the refinement, a request being admitted when its nonce is
consumed and allowed when the caller gets the answer.

### FileTrustState (with MCFileTrustState)
Clients run one operation at a time: `Begin`, `CreateLock`/`RetryLock`/`GiveUp`, `Load`
(with the computation), `Truncate`, `Write`, `Unlock`. `fs::write` is two steps because
it opens with truncation first; a file in between does not parse, because no proper
prefix of a JSON object is JSON. Faults: the lock cannot be created, the file cannot be
read, either half of the save fails, the lock file cannot be removed (the code ignores
it), and a crash anywhere. `path.exists()` (`src/src/revocation.rs:428`) is taken to tell
the truth. In the code it is false also where the file cannot be looked up, for instance
because a directory above it cannot be searched; a query then sees an empty store, and a
change, if the file can be written again by then, saves one. `AcknowledgedIsDurable` and
`FreshOnce` do not cover that. `RemoveStaleLock` is the environment: an operator who removes
a lock file no live process holds. `revoked_ok`, `denied_ok` and `granted` record what
callers were told.

### AuditLog (with MCAuditLog)
`writeln!` on a `File` formats straight into the file: one `write` for the event, one
for the newline. Each is atomic with respect to other appends (`O_APPEND`); nothing
makes the pair atomic. What `serde_json` makes of an event is the constant `Text`, of which
only this is assumed: it is not empty, has no newline in it and is UTF-8. `from_str` finds an
event in a line that is exactly its text.

Readers are processes of their own and step between the writers' steps.

| Code | Model |
|---|---|
| early returns, `open`, `seek(SeekFrom::End(0))` | `ReadEvents`; `file_len[r]` is the length at that moment |
| `read_exact` of a chunk, put before `left_fragment` | `ReadChunk`; `pos[r]` and `working[r]` as in the code |
| `for seg in segments.iter().rev()` | `WalkSegment`, one segment a step, taken from the right of `working[r]` |
| `left_fragment = segments.remove(0)` | `KeepFragment`: what remains of `working[r]` |
| `for line in reader.lines()` | `NextLine`, to the newline or to where the file ends by then; `EndOfFile` |

A forward scan that meets the end of the file inside a line which somebody is writing takes
the part as a line, and the rest as another if it comes in time. `CHUNK` is a field of the
query, so that one run has several. I/o errors of a reader end it and change nothing; they
are left out.

### AdapterGuard (with MCAdapterGuard)
`Call` reads the clock, the outcome (`RefuseMisconfigured`, `RefuseRate`,
`RefuseConcurrency`, `Enter`) happens under the shard's mutex up to `MaxDelay` later.
`Release` is the lease's `Drop`. `PopExpired` pops only from the front, as the code does.
`MaxUsize` is the largest value a limit can be configured to. `admitted` is history: the
real times at which each tuple was admitted, in order. `MaxDelay <= Window` says that no
caller is held up between reading the clock and taking the mutex for longer than a window,
a minute in the code.

### Adapters
A handler is a record: the body checks in their order, the wire answer of each
outcome, and whether it enters the guard, re-encodes typed claims, is a future, and
serves something behind it. The asynchronous handlers differ from their twins in one
field, which is the claim the map makes of those files. A call goes from `sent`
through `guard`, `evaluating` and `decided` to `ended`, or on to `forwarding` and
`delivered`.

| Code | Model |
|---|---|
| `require_shared_backend_in_production()` in the `*_with_runtime_config` calls | `RefuseRuntimeConfig` |
| early returns before the guard | `Receive` with `Decode` |
| `enter_adapter_guard` | `EnterGuard`, `Throttle`; one lease per call, the rate left to chance (`AdapterGuard` models it) |
| `serde_json::to_value(envelope)` failing | `EncodeFails` |
| `evaluate_and_audit_*` | `ConsumeNonce`, `Deny`, `WriteAudit`, `AuditFails`; without time (`TrustEvaluation` has it) |
| `inner.call`, `forward_to_upstream` | `Deliver`, `Serve`, `UpstreamFails` |
| the owner drops the future at an await | `Drop` |

`Deny` is always possible: an unreachable store denies. `decided` is the moment at
which the store has acted and its reply is on the way, so `Drop` there is a consumed
nonce without an event. The convenience calls share the process's store, the proxy has
its own, all others use the store they are given.

Read off the model, and visible in it: the layer does not enter the guard; the proxy
answers an allowed tool call with the verdict and does not forward it; a body that is
text but not JSON gets a parse error from the proxy, only one that is not UTF-8 is
passed through; the proxy and the `*_with_state` calls do not ask whether production
requires a shared store.

### RedisTrustState (with MCRedisTrustState)
Evaluations and administrators send commands to a server that executes them one at a
time. `sent[c]` is the command caller `c` waits for and `reply[c]` its reply. A broken
connection gives the caller an error while the command has been executed, is lost, or
stays in `strays` and may be executed later. `MULTI` is not used, so the `SET`s of
`revoke_tokens` are separate. `clear_emergency_deny_list` is its loop: `SCAN` returns
the keys of one bucket, perhaps more, and `DEL` removes them. Expiry is by `EXAT` in
whole seconds, so the clock has `TicksPerSecond` ticks to the second.
The server is external and modelled from what the code asks of it. Token and agent ids are
taken to be different (`RedisAssumption`) because the keys they become have different
prefixes. `spent`, `settled`,
`contested` and `to_clear` are history: what was granted, what is acknowledged and not
contradicted since, and what a clear must have removed.

### RequestChecks
The checks of `contracts.rs`, `profiles.rs`, `crypto.rs`, `stages.rs` and `policy.rs` as
operators with the names of the functions, over records with the fields of `models.rs`.
`TrustEvaluation` takes their verdicts as given; here they are computed. A signature is
the key with the payload it was made over: what Ed25519 promises, taken as a fact.
`Authentic` is what comes before the nonce is consumed, `Authorized` what comes after.

### Discovery, Issuance (with MCIssuance)
`Discovery` is the service as a record and its lookups as operators. `Issuance` runs the
builders in threads that share `ISSUANCE_COUNTER`: `StartToken` and `StartRequest` take a
number, `FinishToken` and `FinishRequest` read the clock; `Restart` sets the counter back
and takes at least a tick, a tick being the clock's resolution. An order is what a caller
set on a builder. `Presentations` are the ways in which a token, perhaps altered after it
was signed, is presented with some document, to some host, with or without an
`IdentityVerifier`; the properties quantify over all of them in every state. An altered
signature is none at all (`Forges`), and what decodes to no key is not one: what Ed25519
and base64 promise.

### Client (with MCClient)
`TrustClient` in front of every entry point of `Adapters`. `conclusion[c]` is what an
attempt has come to. Request and answer may be lost (`NetworkFails`; a request that was
posted may still arrive), a body may be cut off, and the same envelope may be posted
again after a network error, as a `reqwest` client with retries passed to `with_client`
does. Bodies are modelled by the fields the client looks for, because that is what
decides between allowed, not allowed and invalid; what an upstream, a host behind a
`PassThrough` or the inner service of `TrustLayer` answers is external, and may have the
form of a verdict of signet's, either way.

### ControlPlane (with MCControlPlane)
Each client of `FileTrustState` is an operator's process running one command: its store
calls in order (`todo`), stopping at the first that goes against it, then a report.
`StoreReturns` and `StoreFails` join the store's last step with what the command makes
of it. `issued_at` is the reading taken before the revocation; `shown` is what the
interactive approval has printed, `EditProposal` someone else's editor.
`emergency_deny_agent` has no command but is what a host calls, and is run like one.

Read off the model, and visible in it: the receipt of an interactive approval is for the
proposal in the file when the operator answers, which need not be the one shown.

## 4. Runs

| Run | Shows |
|---|---|
| `flaws` | one request of each kind against all administration and outages: `TypeOK`, `OnlyAuthenticRequestsConsume`, `DeniedAgentNeverAllowed`, `RevokedNeverAllowed`, `AnswersAreAudited`, `BulkRevokeComplete`, `EveryRequestAnswered` |
| `replay` | three requests, two tokens: `AllowedNonceRemembered`, `NonceConsumedOnce`, `NoPromptReplay`, `NoncesKeptUntilExpiry`, `ImplementsGate` |
| `leeway` | finding 1 below |
| `file_store` | two processes, every operation, every fault: `MutualExclusion`, `AcknowledgedIsDurable`, `FreshOnce` |
| `control` | two operators' processes over that store: `ControlTypeOK`, `ReceiptsAreTrue`, `AllowedAfterAsking`, `EveryCommandEnds` |
| `redis_store` | evaluations and administrators in pairs, one broken connection: `AcknowledgedHolds`, `ClearIsComplete`, `ImplementsGate`, `EveryCallReturns` |
| `redis_fraction` | finding 3 below |
| `audit_readers` | a reader among two writers, three events, cut-short writes: `NewestFirstIsExact`, `OldestFirstIsExact` |
| `audit_concurrent` | finding 2 below |
| `guard` | two callers, two tuples: `LeaseAccounting`, `NoIdleTuples`, `RateBound`, `RefusalJustified` |
| `client` | two calls of others through any two entry points, or two attempts of the client: `ReachedOnlyWhenEntitled`, `UnauditedRefusalsAreFree`, `OneAllowPerNonce`, `AnswersMatchAudit`, `LeasesMatchEvaluations`, `ConclusionsAgreeWithAudit`, `EveryPostConcludes` |
| `issuance` | two threads, a key rotation, a restart, eleven presentations: `UniqueIds`, `AllowedIsGranted`, `BuiltIsAccepted`, `DiscoveryAgrees` |

Every module has a type invariant. Where it is not a property of a run by itself it is
the first conjunct of one: of `MutualExclusion`, `AcknowledgedHolds`,
`NewestFirstIsExact`, `LeaseAccounting`, `ConclusionsAgreeWithAudit` and `UniqueIds`.

**Bounds.** `MaxTime` = 2 with tokens expiring at 1 and 9 gives times before, at and after
one expiry and a token that outlives the run, whose consumption prunes. Three requests
are the smallest number for a replay that needs a third to prune. One request is
enough for `flaws`, whose properties relate one request to the administrators; its
bodies are one per stage that can fail, plus an expiring document and a false claim of
identity. Two processes suffice for lost updates and stale locks; `MaxAttempts` (20 in
the code) is 1, since only whether an attempt is left matters. Audit files of three
events hold every merge of two lines and every cut; texts have one or two bytes, one of them
a character of two, and chunks of 1 to 3 bytes end at every place of them. One reader is
enough, since readers change nothing that others see. In the guard, `Window` = 2, `MaxDelay` = 1 and `MaxTime` = 4 let a
window pass and start again. In `client` two calls with one nonce on one tuple and
`MaxInflight` = 1 contend for both; a retry is the second call begun after the first has
ended or been given up. In `redis_store` two evaluations, an evaluation with an
administrator, and two administrators are each enough for a race; time runs only where
keys expire (`Horizon`), through the expiry of a token of one second and of one of two
with the same nonce; the first batch of a scan is empty, and one connection breaks at any
point. In `issuance` two numbers, one restart and `MaxTime` = 1 let threads share an
instant and a restarted process reuse a number; one token is enough because no property
relates two, and of two documents one replaces the other, or lists a kid twice. In
`control` two commands on one token, each command with each, meet in every order.
Runs with `CHECK_DEADLOCK FALSE` are those that may stop:
all requests answered and the clock at its bound, all events written, all calls ended.

**Fairness.** `EveryRequestAnswered`: weak fairness of each evaluation's own steps; an
evaluation thread never blocks, so the scheduler brings it to its answer. Requests
need not arrive, administrators need not act, the backend need not come back.
`EveryCommandEnds`: weak fairness of each process's own steps, faults excluded, so no
failure is relied on to end a command; nobody is assumed to remove a stale lock or to
answer a prompt. `EveryPostConcludes`: weak fairness of each handler's own steps, the
store call included, of the arrival of a request whose client waits, and of the client
reading an answer or noticing a closed connection; none of the upstream, which is awaited
without a timeout, none of `Drop`, and no client need give up or post again.
`EveryCallReturns`: the server executes what it is sent and callers take replies. The
connection has no response timeout, so a server that is silent on an open connection
makes its callers wait; the assumption says so.

## 5. Findings

1. *Replay within the clock leeway* (`leeway`). A nonce is forgotten once the clock
   passes the token's `expires_at` (`src/src/revocation.rs:283`), while the token is
   accepted until `expires_at + clock_leeway_secs` (`src/src/stages.rs:32`), by default
   30 seconds later. `src/SPEC.md:84`: "Nonce consumption MUST block replay."
2. *Audit events lost to interleaving* (`audit_concurrent`). Two writers put their events
   on one line before either has written its newline. The trace ends when the first newline
   is there: its writer has been told Ok, and no reader returns its event. The other event is
   on the same line, so it is lost as well once its writer goes on. `src/README.md:43`:
   "every allow and deny is written to a structured JSONL audit log". The theorem `SoleWriterReadable` says where the
   promise holds: with one writer whose writes do not fail.
3. *Replay within the last second* (`redis_fraction`). `EXAT` is given the expiry
   without its fraction (`src/src/revocation_redis.rs:89`), so the key is evicted while
   the token is live. `src/src/revocation_redis.rs:13`: "nonce keys are automatically
   evicted when the associated token expires". `redis_store` shows that tokens which
   expire on whole seconds keep the promise.

Some behaviour of the code bounds what the properties can say. `NoPromptReplay` leaves out
evaluations that are delayed past the expiry of their token: the lifetime is judged by
the reading taken on arrival, the store prunes by its own, and such a request can be
allowed although its nonce was spent, even without leeway. `OldestFirstIsExact` leaves out scans
that fail: at a line that is not UTF-8 the forward scan answers an error and
`read_newest_first` skips the line, where `src/src/audit.rs:109` says they match. And
`BuiltIsAccepted` names in its premises the kid listed twice, which the builders sign and of
which the pipeline tries only the first key, and the action aliases, which the preview does
not apply. Blank texts and empty constraint lists, which the builders take as well, need no
premise: the preview and the pipeline refuse them alike. `DiscoveryAgrees` leaves out blank
ids and protocols, which can be registered and not asked for.

The answers to a failing sink are ambiguous. The event may be in the log although the caller
got an error, so `AnswersMatchAudit` says of these answers that they read as neither verdict
and that the log holds the pipeline's decision or nothing; of all others, that the event is
there exactly when the answer says so. A client reads such an answer as not allowed, and it
reads whatever the inner service of `TrustLayer` answers to a request it was handed
(`src/src/adapters/axum_layer.rs:257`) as if signet had answered: a service that says
`"allowed": false` with a stage and a reason is taken for a refusal although the allow is in
the log (`src/src/client.rs:318`). `ConclusionsAgreeWithAudit` names these two as the only
ways in which a client that is told no can have an audited allow. In the other direction
nothing is left out: whoever concludes that it is allowed has spent its nonce and has its
allow event.

## 6. Proofs

All theorems hold for every value of the constants that satisfies the modules' `ASSUME`s.
Those give the constants their types, and otherwise say: `MaxDelay <= Window` (guard); the
buckets of a scan cover all agents, and token and agent ids differ (Redis); nobody forges a
signature (issuance); a runtime-config call is to a synchronous handler (adapters); the
library's client posts only what it can build (client); the text of an event is not empty,
is UTF-8 and has no newline in it (audit log). The runs evaluate every one.

| Module | Theorem | States |
|---|---|---|
| `TrustEvaluationProofs` | `TypeCorrect` | `Spec => []TypeOK` |
| | `Remembrance` | `Spec => []AllowedNonceRemembered` |
| | `ReplayResistance` | `Spec => []NonceConsumedOnce` |
| | `RevocationEffective` | `Spec => []RevokedNeverAllowed` |
| | `DenyListEffective` | `Spec => []DeniedAgentNeverAllowed` |
| | `Retention` | `Spec => NoncesKeptUntilExpiry` |
| | `AuthenticConsumption` | `Spec => []OnlyAuthenticRequestsConsume` |
| | `AuditBeforeAnswer` | `Spec => []AnswersAreAudited` |
| | `BulkRevocation` | `Spec => []BulkRevokeComplete` |
| | `PromptReplayBlocked` | `Leeway = 0` gives `Spec => []NoPromptReplay` |
| | `PipelineImplementsGate` | `Spec => ImplementsGate` |
| `ControlPlaneProofs` | `LockIsExclusive` | `Spec => []MutualExclusion` |
| | `AcknowledgedDurable` | `Spec => []AcknowledgedIsDurable` |
| | `FreshAtMostOnce` | `Spec => []FreshOnce` |
| | `ControlTypeCorrect` | `ControlSpec => []ControlTypeOK` |
| | `ReceiptsTrue` | `ControlSpec => []ReceiptsAreTrue` |
| | `AllowsAfterAsking` | `ControlSpec => []AllowedAfterAsking` |
| | `StoreUnderControl` | the file store's invariants, under the commands |
| `AdapterGuardProofs` | `LeasesAccounted` | `Spec => []LeaseAccounting` |
| | `IdleTuplesRemoved` | `Spec => []NoIdleTuples` |
| | `RateBounded` | `Spec => []RateBound` |
| | `RefusalsJustified` | `Spec => RefusalJustified` |
| `ClientProofs` | `EntitledOnly` | `ClientSpec => []ReachedOnlyWhenEntitled` |
| | `FreeRefusals` | `ClientSpec => []UnauditedRefusalsAreFree` |
| | `OneAllow` | `ClientSpec => []OneAllowPerNonce` |
| | `AnswersAgree` | `ClientSpec => []AnswersMatchAudit` |
| | `LeasesBounded` | `ClientSpec => []LeasesMatchEvaluations` |
| | `AdaptersTypeCorrect` | `ClientSpec => []TypeOK`, of `Adapters` |
| | `ConclusionsAgree` | `ClientSpec => []ConclusionsAgreeWithAudit` |
| `RedisTrustStateProofs` | `RedisAcknowledged` | `Spec => []AcknowledgedHolds` |
| | `ClearComplete` | `Spec => ClearIsComplete` |
| | `RedisImplementsGate` | `WholeSeconds` gives `Spec => ImplementsGate` |
| `IssuanceProofs` | `IdsUnique` | `Spec => []UniqueIds` |
| | `AllowedGranted` | `Spec => []AllowedIsGranted` |
| | `BuiltAccepted` | `Spec => []BuiltIsAccepted` |
| | `EndpointsAgree` | `Spec => []DiscoveryAgrees` |
| `AuditLogProofs` | `NewestExact` | `Spec => []NewestFirstIsExact` |
| | `OldestExact` | `Spec => []OldestFirstIsExact` |
| | `SoleWriterReadable` | `~Faults` and a single writer give `Spec => []AcknowledgedIsReadable` |

`TrustStateProofs` holds the lemmas on pruning and consuming that the pipeline and the
file store share. `ControlPlaneProofs` is in two parts, the file store and the commands over
it.

**Three theorems have a hypothesis.** Without `Leeway = 0`, without `WholeSeconds` (every
token expires on a whole second) and without a single writer the conclusions are false:
findings 1, 3 and 2 are their counterexamples, so the hypotheses say where the promise holds.

**The inductive invariants**, and why the properties alone are not inductive:

- *Pipeline.* `IInv` ties a request's position to its history: a request has a decision
  from the audit write on and consumed no nonce before `consume_nonce`; whatever was
  consumed is in the store until its expiry; a request whose token was revoked on arrival
  has not passed `is_token_revoked`; one whose token's agent was denied on arrival has
  passed `is_agent_emergency_denied` only by claiming another agent, which
  `validate_token_binding` refuses. Type correctness needs it too, since the audit log is
  typed only because a decision precedes it. `OutcomeInv` adds that whoever is past the
  authenticity checks has passed them, that the allowed were live by their own reading, and
  that answers come last. The core is the lemma `ConsumeFacts`: the prune reference never
  lies beyond the clock, so pruning keeps every entry that has not expired, and a nonce
  found fresh had either never been consumed or only by tokens that have expired.
- *File store.* What a call acknowledges it recorded several steps earlier, in a copy. So
  `StoreInv` says that the copy of the process inside the lock holds everything
  acknowledged so far and the call's own change (`CopyIsCurrent`), and that a result which
  is about to be returned is in the file (`ResultIsInFile`). Both survive the others' steps
  only because of the lock. Calls are typed by `Call`, not by the set `Calls` of a run, so
  that the invariant can be used of the calls that commands make.
- *Control plane.* `ControlInv` adds where in its list of store calls a command is
  (`CallsInOrder`) and what the calls behind it have established (`Established`).
- *Guard.* `GuardInv` is the accounting of leases with the shape of the two maps; the swept
  maps satisfy the same predicate as the current ones (`Valid`), so that the sweep at the
  head of every call is one lemma. `RateInv` connects a queue with real time: it holds the
  readings of the latest admissions, those popped from it had left the window, and a reading
  is at most `MaxDelay` older than the admission (`Tracks`, `Chronicle`, `Timely`). From it
  both sides follow: no more admissions than the limit within the window less the delay, and
  no refusal unless that many lie within the window plus the delay.
- *Adapters and client.* `CallInv` says of each position of a call what it has spent, what
  was audited and which answer it can come to; `SpentOnce` that a store's nonce is spent by
  one call. It is proved of `Next` and used of `ClientNext`, whose steps leave the calls
  alone or are steps of `Next`. What the eight handlers have in common (`HandlerOK`) is
  proved of their records once. `ClientInv` relates conclusions to answers. A sink's error
  with and without an event behind it are two cases of `AuditFails`; that the event agrees
  with the decision in both is what `AnswersAgree` and `ConclusionsAgree` rest on.
- *Redis.* `WireInv` lists, for each point of each call, what can have been sent and what
  can be answered. Relative to it: `AckInv` (a removal that is under way, or strays in the
  network, is known to every call it overlaps, and nothing it can remove counts as
  settled), `ScanInv` (of the agents a clear has to remove, those still denied are in the
  buckets before it or in the batch in its hands), `GrantInv` (a granted nonce has a key
  that lives, to the second, as long as its token; barred requests have not passed their
  check) and `GrantsTimed` (a grant records its own token's expiry).
- *Issuance.* `IdInv`: a suffix is a number and a reading of the clock, and no number is
  taken twice in one tick, because the counter grows within a process and a restart takes a
  tick. `BuiltInv`: every token, document and registered document is what some order builds.
  The other three properties are consequences of `BuiltInv` in each state, through the
  definitions of `RequestChecks` and `Discovery`.
- *Audit log.* What a reader returns it collected over many steps, from a file that others
  changed meanwhile, so `AuditInv` says what it has at each. The file only grows, hence what
  lies before a position stays as it is (`PrefixStays`). Backward: `working` is the part of
  the file from `pos` to a place that is followed by a newline or by the end, and `found` are
  the events recorded beyond that place (`NewestBeyond`); a chunk leaves the place where it
  is, a segment moves it to the newline before the segment, wherever the chunks end.
  Forward: for every prefix that is complete (`Stable`: it ends with a newline, or nothing
  was added to it) the scan has so far collected what is recorded in it up to `pos`
  (`OldestUpTo`), and what it collects later comes after. That each loop takes exactly one
  line a step rests on the lemma `LineEvent`: since no text has a newline in it, an event
  begins where a line does and is all of it. This needs no induction over the bytes, because
  the loops are steps of the model. `SoleInv`, for the single writer, says that the file
  ends with a newline between two events and with the writer's text before the newline, and
  that every acknowledged event has its newline, after which nothing appended can spoil it.

**The refinements.** Both gates are proved step by step. In the pipeline, `ConsumeNonce`
that finds the nonce fresh is the gate's admission (its guard is `ConsumeFacts`),
`WriteAudit` the answer, the administrators' steps are the gate's, and pruning is invisible
because the gate's spent nonces are the history of the consumption and not the map. Over
Redis a command takes effect when the server executes it, whoever still waits for it; a
stray command can bar or unbar but never grant, since a nonce counts as spent only when the
request that asked for it is still there to be answered; and that a key
which is gone means a token which has expired is where `WholeSeconds` is needed.

**Only model-checked.** Liveness (`EveryRequestAnswered`, `EveryCommandEnds`,
`EveryPostConcludes`, `EveryCallReturns`) is out of the prover's reach. The fairness that
TLC assumes is in section 4.

## 7. Not modelled

- Ed25519, base64 and canonical JSON: encodings, symbolic in `RequestChecks`.
- `check_extra_constraints`: the host's evaluator decides, and `DefaultPolicy` does not
  call it. Custom `Policy` implementations likewise.
- `export_audit_events` and `build_operational_report`: they count what `read_events`
  returns, which `AuditLog` models.
- The proxy's wait for its upstream: there is no timeout to model, and nothing is
  assumed of it.
- Connecting to Redis, building the axum layer, starting the proxy: construction.
- Capabilities and metadata of documents, which nothing reads; the field-by-field copies
  between envelope and claims, which are identities.
- Logging, metrics and tracing, configuration and command-line parsing, mutex poisoning
  (no code that holds one of these mutexes panics), the generator of test vectors and the
  examples.
- Two conversions at their limits: a `clock_leeway_secs` of 2^63 or more, which
  `as i64` (`src/src/engine.rs:68`) makes negative, and lists of more than 2^16 judge scores,
  whose sum may leave a `u32`. `RequestChecks` has a leeway that fits and a sum that does not
  overflow.
- Over Redis, requests that claim another agent than their token's. The deny list is asked
  about the claim (`src/src/stages.rs:164`) and `validate_token_binding` refuses the
  difference afterwards, whatever the store; `TrustEvaluation` has both, `RedisTrustState`
  only claims that are the token's.
- Several issuing hosts: two hosts may draw the same number in the same nanosecond;
  `UniqueIds` is about one process and its restarts.
