------------------------------- MODULE Adapters -------------------------------
(***************************************************************************)
(* The entry points through which requests reach the evaluation pipeline:   *)
(* the HTTP, MCP and A2A handlers, synchronous and asynchronous, the axum   *)
(* layer and the MCP sidecar proxy (src/src/adapters, src/src/bin).         *)
(*                                                                          *)
(* They differ in what they check of a body, whether they pass the adapter  *)
(* guard, whether their evaluation is a future its owner may drop, and      *)
(* whether something is served behind them.  The guard is AdapterGuard with  *)
(* the rate left to chance, the pipeline is TrustEvaluation without time:    *)
(* it consumes a nonce, decides, and writes its event.                      *)
(***************************************************************************)
EXTENDS Integers, Sequences, FiniteSets

CONSTANTS
    Calls,           \* requests in flight, each in a thread or task of its own
    Nonces,
    Tuples,          \* (agent_id, delegator_id), with the handlers' defaults
    Messages,        \* what clients send
    MaxInflight      \* AdapterGuardConfig::max_inflight_per_tuple

-------------------------------------------------------------------------------
(***************************************************************************)
(* Decoding.  A body has a set of defects; a handler looks for them in a    *)
(* fixed order and the first one found decides its outcome.                 *)
(***************************************************************************)
Finding(defect, outcome) == [defect |-> defect, outcome |-> outcome]

HttpChecks == << Finding("not_json", "malformed") >>

\* parse_shared_claims: absent, malformed or of another kind.
ClaimsChecks == << Finding("bad_claims", "invalid_params") >>

McpChecks ==
    << Finding("not_json", "parse_error"),
       Finding("not_object", "invalid_request"),
       Finding("not_jsonrpc", "invalid_request"),
       Finding("no_method", "invalid_request"),
       Finding("not_tool_call", "pass_through"),
       Finding("no_params", "invalid_params") >>
    \o ClaimsChecks

A2aChecks ==
    << Finding("not_json", "malformed"), Finding("bad_claims", "malformed") >>

AxumChecks ==
    << Finding("oversize", "too_large"),
       Finding("unreadable", "malformed"),
       Finding("not_json", "malformed") >>

\* Any error of to_bytes is reported as 413.
ProxyBodyChecks ==
    << Finding("oversize", "too_large"),
       Finding("unreadable", "too_large"),
       Finding("not_utf8", "pass_through") >>

Defects == {"oversize", "unreadable", "not_utf8", "not_json", "not_object",
            "not_jsonrpc", "no_method", "not_tool_call", "no_params", "bad_claims"}

Decode(checks, defects) ==
    LET found == {i \in DOMAIN checks : checks[i].defect \in defects}
    IN  IF found = {}
        THEN "evaluate"
        ELSE checks[CHOOSE i \in found : \A j \in found : i <= j].outcome

-------------------------------------------------------------------------------
(***************************************************************************)
(* Answers, as the client reads them.                                       *)
(***************************************************************************)

\* Mutant: the sink's failure is answered like a denial.
HttpAnswersConfused ==
    [allow |-> "200", deny |-> "403", malformed |-> "400", throttled |-> "429",
     audit_sink |-> "403", runtime_config |-> "500"]

HttpAnswers ==
    [allow |-> "200", deny |-> "403", malformed |-> "400", throttled |-> "429",
     audit_sink |-> "500", runtime_config |-> "500"]

McpAnswers ==
    [allow |-> "result", deny |-> "-32001", parse_error |-> "-32700",
     invalid_request |-> "-32600", invalid_params |-> "-32602",
     throttled |-> "-32029", encode |-> "-32603", audit_sink |-> "-32603",
     runtime_config |-> "-32603", pass_through |-> "PassThrough"]

A2aAnswers ==
    [allow |-> "ok", deny |-> "denied", malformed |-> "error",
     throttled |-> "denied", encode |-> "error", audit_sink |-> "error",
     runtime_config |-> "error"]

AxumAnswers ==
    [deny |-> "403", malformed |-> "400", too_large |-> "413",
     audit_sink |-> "500", served |-> "served"]

\* A JSON-RPC answer travels as the body of a 200.
ProxyAnswers ==
    [o \in DOMAIN McpAnswers \cup {"too_large", "served", "bad_gateway"} |->
        CASE o = "too_large" -> "413"
          [] o = "served" -> "served"
          [] o = "bad_gateway" -> "502"
          [] OTHER -> McpAnswers[o]]

-------------------------------------------------------------------------------
(***************************************************************************)
(* The handlers.                                                            *)
(***************************************************************************)
HttpHandler ==
    [checks |-> HttpChecks, answers |-> HttpAnswers,
     guarded |-> TRUE,      \* enters the adapter guard
     encodes |-> FALSE,     \* turns typed claims back into a raw envelope
     async |-> FALSE,       \* the owner may drop it while it waits
     serves |-> FALSE]      \* hands allowed requests to an inner service

HttpAsyncHandler == [HttpHandler EXCEPT !.async = TRUE]

McpHandler ==
    [HttpHandler EXCEPT !.checks = McpChecks, !.answers = McpAnswers,
                        !.encodes = TRUE]

McpAsyncHandler == [McpHandler EXCEPT !.async = TRUE]

A2aHandler ==
    [McpHandler EXCEPT !.checks = A2aChecks, !.answers = A2aAnswers]

A2aAsyncHandler == [A2aHandler EXCEPT !.async = TRUE]

\* The layer does not enter the guard.
TrustService ==
    [checks |-> AxumChecks, answers |-> AxumAnswers, guarded |-> FALSE,
     encodes |-> FALSE, async |-> TRUE, serves |-> TRUE]

\* proxy_handler around handle_mcp_jsonrpc_request_with_async_state.
ProxyHandler ==
    [McpAsyncHandler EXCEPT !.checks = ProxyBodyChecks \o McpChecks,
                            !.answers = ProxyAnswers]

Doors == {"http", "http_async", "mcp", "mcp_async", "a2a", "a2a_async", "axum", "proxy"}

Handler(door) ==
    CASE door = "http" -> HttpHandler
      [] door = "http_async" -> HttpAsyncHandler
      [] door = "mcp" -> McpHandler
      [] door = "mcp_async" -> McpAsyncHandler
      [] door = "a2a" -> A2aHandler
      [] door = "a2a_async" -> A2aAsyncHandler
      [] door = "axum" -> TrustService
      [] door = "proxy" -> ProxyHandler

(***************************************************************************)
(* What the pipeline makes of a body that is decoded: "forged" bodies are   *)
(* refused before the nonce is consumed, "unauthorized" ones after it.      *)
(* entry is "runtime" for the convenience calls that choose the store       *)
(* themselves and "state" for the ones that are given one.                  *)
(***************************************************************************)
Message ==
    [door : Doors, entry : {"runtime", "state"},
     defects : SUBSET Defects, tuple : Tuples, nonce : Nonces,
     worth : {"forged", "unauthorized", "authorized"}]

ASSUME MessageAssumption ==
    /\ Messages \subseteq Message
    /\ \A m \in Messages : m.entry = "runtime" => ~Handler(m.door).async
    /\ MaxInflight \in Nat

VARIABLES
    production,   \* require_shared_backend_in_production()
    message,      \* what each call carries
    pc,           \* where each call is
    leases,       \* calls that hold a lease of the guard
    spent,        \* consumed nonces, by store, with the call that consumed them
    decision,     \* the pipeline's decision on each call
    audit,        \* decision events
    reached,      \* calls that got to the inner service or to the upstream
    outcome       \* how each call ended

vars == <<production, message, pc, leases, spent, decision, audit, reached, outcome>>

h(c) == Handler(message[c].door)

\* The convenience calls share one store of the process, the proxy has its
\* own, all others are given one.
StoreOf(c) ==
    IF message[c].entry = "runtime" THEN "process"
    ELSE IF message[c].door = "proxy" THEN "proxy" ELSE "given"

Init ==
    /\ production \in BOOLEAN
    /\ message \in [Calls -> Messages]
    /\ pc = [c \in Calls |-> "sent"]
    /\ leases = {}
    /\ spent = {}
    /\ decision = [c \in Calls |-> "pending"]
    /\ audit = {}
    /\ reached = {}
    /\ outcome = [c \in Calls |-> "none"]

Goto(c, from, to) ==
    /\ pc[c] = from
    /\ pc' = [pc EXCEPT ![c] = to]

\* A handler that returns drops its lease.
End(c, from, result) ==
    /\ Goto(c, from, "ended")
    /\ outcome' = [outcome EXCEPT ![c] = result]
    /\ leases' = leases \ {c}

-------------------------------------------------------------------------------
\* The production gate comes before everything, the body is not looked at.
RefuseRuntimeConfig(c) ==
    /\ production
    /\ message[c].entry = "runtime"
    /\ End(c, "sent", "runtime_config")
    /\ UNCHANGED <<production, message, spent, decision, audit, reached>>

Decoded(c) == Decode(h(c).checks, message[c].defects)

\* Reading and decoding the body.  A pass-through is an answer of the handler;
\* the proxy, which called it, goes on and forwards the request.
Receive(c) ==
    /\ ~(production /\ message[c].entry = "runtime")
    /\ \/ /\ Decoded(c) = "evaluate"
          /\ Goto(c, "sent", IF h(c).guarded THEN "guard" ELSE "evaluating")
          /\ UNCHANGED <<leases, outcome>>
       \/ /\ Decoded(c) = "pass_through" /\ message[c].door = "proxy"
          /\ Goto(c, "sent", "forwarding")
          /\ UNCHANGED <<leases, outcome>>
       \/ /\ Decoded(c) # "evaluate"
          /\ ~(Decoded(c) = "pass_through" /\ message[c].door = "proxy")
          /\ End(c, "sent", Decoded(c))
    /\ UNCHANGED <<production, message, spent, decision, audit, reached>>

Inflight(c) == {d \in leases : message[d].tuple = message[c].tuple}

EnterGuard(c) ==
    /\ Cardinality(Inflight(c)) < MaxInflight
    /\ Goto(c, "guard", "evaluating")
    /\ leases' = leases \cup {c}
    /\ UNCHANGED <<production, message, spent, decision, audit, reached, outcome>>

\* Mutant: the guard is asked after the evaluation.
ThrottleLate(c) ==
    /\ \/ End(c, "guard", "throttled")
       \/ h(c).guarded /\ End(c, "decided", "throttled")
    /\ UNCHANGED <<production, message, spent, decision, audit, reached>>

\* Too many leases, or the rate of the tuple is used up, which depends on the
\* clock and on requests before these.
Throttle(c) ==
    /\ End(c, "guard", "throttled")
    /\ UNCHANGED <<production, message, spent, decision, audit, reached>>

\* serde_json::to_value refuses the envelope; the lease was just taken.
EncodeFails(c) ==
    /\ h(c).encodes
    /\ Cardinality(Inflight(c)) < MaxInflight
    /\ End(c, "guard", "encode")
    /\ UNCHANGED <<production, message, spent, decision, audit, reached>>

-------------------------------------------------------------------------------
(***************************************************************************)
(* The pipeline behind evaluate_and_audit.                                  *)
(***************************************************************************)
Fresh(c) == \A s \in spent : ~(s.store = StoreOf(c) /\ s.nonce = message[c].nonce)

\* A body the typed handlers would have refused is refused by normalize_request.
Forged(c) == message[c].worth = "forged" \/ message[c].defects # {}

\* Mutant: whether the nonce is fresh is not asked.
ConsumeNonceBlindly(c) ==
    /\ ~Forged(c)
    /\ Goto(c, "evaluating", "decided")
    /\ spent' = spent \cup
          {[store |-> StoreOf(c), nonce |-> message[c].nonce, by |-> c]}
    /\ decision' = [decision EXCEPT
          ![c] = IF message[c].worth = "authorized" THEN "allow" ELSE "deny"]
    /\ UNCHANGED <<production, message, leases, audit, reached, outcome>>

\* The store has consumed the nonce; its reply is on the way.
ConsumeNonce(c) ==
    /\ ~Forged(c)
    /\ Fresh(c)
    /\ Goto(c, "evaluating", "decided")
    /\ spent' = spent \cup
          {[store |-> StoreOf(c), nonce |-> message[c].nonce, by |-> c]}
    /\ decision' = [decision EXCEPT
          ![c] = IF message[c].worth = "authorized" THEN "allow" ELSE "deny"]
    /\ UNCHANGED <<production, message, leases, audit, reached, outcome>>

\* Refused before the nonce is consumed, as a replay, or because the store
\* could not be asked.
Deny(c) ==
    /\ Goto(c, "evaluating", "decided")
    /\ decision' = [decision EXCEPT ![c] = "deny"]
    /\ UNCHANGED <<production, message, leases, spent, audit, reached, outcome>>

\* The event is written, then the handler answers or the layer calls the
\* inner service.
WriteAudit(c) ==
    /\ audit' = audit \cup {[call |-> c, decision |-> decision[c]]}
    /\ \/ /\ decision[c] = "allow" /\ h(c).serves
          /\ Goto(c, "decided", "forwarding")
          /\ UNCHANGED <<leases, outcome>>
       \/ /\ ~(decision[c] = "allow" /\ h(c).serves)
          /\ End(c, "decided", decision[c])
    /\ UNCHANGED <<production, message, spent, decision, reached>>

\* Mutant: the layer logs the sink's error and serves the allowed request.
AuditFailsServes(c) ==
    /\ \/ /\ decision[c] = "allow" /\ h(c).serves
          /\ Goto(c, "decided", "forwarding")
          /\ UNCHANGED <<leases, outcome>>
       \/ /\ ~(decision[c] = "allow" /\ h(c).serves)
          /\ End(c, "decided", "audit_sink")
    /\ UNCHANGED <<production, message, spent, decision, audit, reached>>

\* Mutant: the request is evaluated again until its event can be written.
AuditFailsReevaluates(c) ==
    /\ Goto(c, "decided", "evaluating")
    /\ UNCHANGED <<production, message, leases, spent, decision, audit, reached,
                   outcome>>

\* The sink fails: the caller gets the error instead of the decision.  When
\* only the newline behind the event failed, the event is in the log.
AuditFails(c) ==
    /\ End(c, "decided", "audit_sink")
    /\ \/ UNCHANGED audit
       \/ audit' = audit \cup {[call |-> c, decision |-> decision[c]]}
    /\ UNCHANGED <<production, message, spent, decision, reached>>

-------------------------------------------------------------------------------
(***************************************************************************)
(* Behind the layer and the proxy.                                          *)
(***************************************************************************)
Deliver(c) ==
    /\ Goto(c, "forwarding", "delivered")
    /\ reached' = reached \cup {c}
    /\ UNCHANGED <<production, message, leases, spent, decision, audit, outcome>>

Serve(c) ==
    /\ End(c, "delivered", "served")
    /\ UNCHANGED <<production, message, spent, decision, audit, reached>>

\* forward_to_upstream fails to connect, or to read the answer.  The inner
\* service of the layer cannot fail.
UpstreamFails(c) ==
    /\ message[c].door = "proxy"
    /\ \/ End(c, "forwarding", "bad_gateway")
       \/ End(c, "delivered", "bad_gateway")
    /\ UNCHANGED <<production, message, spent, decision, audit, reached>>

\* Mutant: the lease outlives a dropped future.
DropLeaks(c) ==
    /\ h(c).async
    /\ \E at \in {"evaluating", "decided", "forwarding", "delivered"} :
          Goto(c, at, "ended")
    /\ outcome' = [outcome EXCEPT ![c] = "dropped"]
    /\ UNCHANGED <<production, message, leases, spent, decision, audit, reached>>

\* The client disconnects, or the host drops the future, while the handler
\* waits for the store, the inner service or the upstream.
Drop(c) ==
    /\ h(c).async
    /\ \E at \in {"evaluating", "decided", "forwarding", "delivered"} :
          End(c, at, "dropped")
    /\ UNCHANGED <<production, message, spent, decision, audit, reached>>

\* What the handler does by itself.
Handle(c) ==
    \/ RefuseRuntimeConfig(c) \/ Receive(c)
    \/ EnterGuard(c) \/ Throttle(c) \/ EncodeFails(c)
    \/ ConsumeNonce(c) \/ Deny(c) \/ WriteAudit(c) \/ AuditFails(c)

\* And what happens to its call besides.
Proceed(c) == Handle(c) \/ Deliver(c) \/ Serve(c) \/ UpstreamFails(c) \/ Drop(c)

Next == \E c \in Calls : Proceed(c)

Spec == Init /\ [][Next]_vars

-------------------------------------------------------------------------------
(***************************************************************************)
(* Properties                                                               *)
(***************************************************************************)

ProgramCounters ==
    {"sent", "guard", "evaluating", "decided", "forwarding", "delivered", "ended"}

\* Every variable has its type, and a call that ended with an answer ended
\* with one that its handler has.
TypeOK ==
    /\ production \in BOOLEAN
    /\ message \in [Calls -> Messages]
    /\ pc \in [Calls -> ProgramCounters]
    /\ leases \subseteq Calls
    /\ spent \subseteq [store : {"process", "proxy", "given"}, nonce : Nonces, by : Calls]
    /\ decision \in [Calls -> {"pending", "allow", "deny"}]
    /\ audit \subseteq [call : Calls, decision : {"allow", "deny"}]
    /\ reached \subseteq Calls
    /\ \A c \in Calls :
          IF pc[c] = "ended"
          THEN outcome[c] \in DOMAIN h(c).answers \cup {"dropped"}
          ELSE outcome[c] = "none"

Audited(c, d) == [call |-> c, decision |-> d] \in audit
HasSpent(c) == \E s \in spent : s.by = c
Ungated(c) == message[c].door = "proxy" /\
              message[c].defects \cap {"not_utf8", "not_tool_call"} # {}

\* Nothing behind signet is reached by a request that was not allowed: the
\* inner service of TrustLayer sees only requests that have spent a nonce of
\* their own and whose allow is in the audit log, whatever the sink does, and
\* the proxy's upstream sees no tool call.
ReachedOnlyWhenEntitled ==
    \A c \in reached :
        \/ Ungated(c)
        \/ h(c).serves /\ HasSpent(c) /\ Audited(c, "allow")

\* A refusal that leaves no audit event (throttled, malformed, misconfigured)
\* costs the client nothing: the nonce is still there for the retry.  Only a
\* failing sink and a dropped future spend a nonce without an event.
UnauditedRefusalsAreFree ==
    \A c \in Calls :
        (/\ pc[c] = "ended" /\ HasSpent(c)
         /\ \A d \in {"allow", "deny"} : ~Audited(c, d)) =>
            outcome[c] \in {"audit_sink", "dropped"}

\* Whatever entry points share a store, and whatever is dropped, retried or
\* fails on the way, one nonce gives one allow.
OneAllowPerNonce ==
    \A c, d \in Calls :
        (/\ c # d
         /\ Audited(c, "allow") /\ Audited(d, "allow")
         /\ StoreOf(c) = StoreOf(d)) =>
            message[c].nonce # message[d].nonce

Answer(c) == h(c).answers[outcome[c]]
Answered(c) == pc[c] = "ended" /\ outcome[c] # "dropped"

\* What the client reads agrees with the audit log: an answer that reads as an
\* allow has its allow event, one that reads as the pipeline's denial has its
\* deny event, and no other answer has an event, except for the answer to a
\* failing sink.  That one reads as neither verdict, and what the sink may have
\* left in the log is the pipeline's decision.  A2A says "denied" of a
\* throttled request too, which has no event.
AnswersMatchAudit ==
    \A c \in Calls : Answered(c) =>
        IF outcome[c] = "audit_sink"
        THEN /\ Answer(c) \notin {"200", "result", "ok", "403", "-32001", "denied"}
             /\ \A d \in {"allow", "deny"} : Audited(c, d) => d = decision[c]
        ELSE /\ Answer(c) \in {"200", "result", "ok"} <=>
                    Audited(c, "allow") /\ ~h(c).serves
             /\ (Answer(c) \in {"403", "-32001", "denied"} /\ outcome[c] # "throttled")
                    <=> Audited(c, "deny")

\* The guard's bound holds across all handlers, and a lease is held exactly as
\* long as a guarded handler evaluates: no answer and no dropped future keeps
\* one.
LeasesMatchEvaluations ==
    /\ leases = {c \in Calls : h(c).guarded /\ pc[c] \in {"evaluating", "decided"}}
    /\ \A c \in Calls : Cardinality(Inflight(c)) <= MaxInflight
===============================================================================
