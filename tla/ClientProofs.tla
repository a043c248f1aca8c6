----------------------------- MODULE ClientProofs -----------------------------
(***************************************************************************)
(* Theorems about Adapters and Client, for every set of calls, messages,     *)
(* nonces and tuples and every limit of the guard.                           *)
(***************************************************************************)
EXTENDS Client, FiniteSetTheorems, TLAPS

-------------------------------------------------------------------------------
(***************************************************************************)
(* Decoding                                                                 *)
(***************************************************************************)

\* A set of naturals that is not empty has a smallest element.
LEMMA FirstExists ==
    ASSUME NEW S \in SUBSET Nat, S # {}
    PROVE  \E x \in S : \A y \in S : x <= y
  <1>1. PICK x \in S : \A y \in S : ~(<<y, x>> \in OpToRel(<, Nat))
    BY NatLessThanWellFounded, WFMin
  <1>2. \A y \in S : ~(y < x)
    BY <1>1 DEF OpToRel
  <1>3. \A y \in S : x \in Nat /\ y \in Nat
    OBVIOUS
  <1>4. \A y \in S : x <= y
    BY <1>2, <1>3
  <1> QED
    BY <1>4

\* A body is evaluated, or refused for a defect it has.
LEMMA DecodeFacts ==
    ASSUME NEW F, NEW checks \in Seq(F), NEW defects,
           Decode(checks, defects) # "evaluate"
    PROVE  \E f \in F : f.defect \in defects /\ Decode(checks, defects) = f.outcome
  <1> DEFINE found == {i \in DOMAIN checks : checks[i].defect \in defects}
             first == CHOOSE i \in found : \A j \in found : i <= j
  <1>1. found # {} /\ Decode(checks, defects) = checks[first].outcome
    BY DEF Decode
  <1>2. found \in SUBSET Nat
    OBVIOUS
  <1>3. first \in found
    <2>1. \E x \in found : \A y \in found : x <= y
      <3> HIDE DEF found
      <3> QED
        BY <1>1, <1>2, FirstExists
    <2> QED
      BY <2>1
  <1>4. checks[first] \in F /\ checks[first].defect \in defects
    BY <1>3
  <1> QED
    BY <1>1, <1>4

\* The findings of each kind of check.
McpFindings ==
    {Finding("not_json", "parse_error"), Finding("not_object", "invalid_request"),
     Finding("not_jsonrpc", "invalid_request"), Finding("no_method", "invalid_request"),
     Finding("not_tool_call", "pass_through"), Finding("no_params", "invalid_params"),
     Finding("bad_claims", "invalid_params")}

ProxyFindings ==
    McpFindings \cup
    {Finding("oversize", "too_large"), Finding("unreadable", "too_large"),
     Finding("not_utf8", "pass_through")}

PlainFindings ==
    {Finding("not_json", "malformed"), Finding("bad_claims", "malformed")}

AxumFindings ==
    {Finding("oversize", "too_large"), Finding("unreadable", "malformed"),
     Finding("not_json", "malformed")}

\* The checks of every handler look for these findings.
LEMMA ChecksFacts ==
    /\ HttpChecks \in Seq(PlainFindings)
    /\ A2aChecks \in Seq(PlainFindings)
    /\ AxumChecks \in Seq(AxumFindings)
    /\ McpChecks \in Seq(McpFindings)
    /\ ProxyBodyChecks \o McpChecks \in Seq(ProxyFindings)
  <1>1. HttpChecks \in Seq(PlainFindings) /\ A2aChecks \in Seq(PlainFindings)
    BY DEF HttpChecks, A2aChecks, PlainFindings
  <1>2. AxumChecks \in Seq(AxumFindings)
    BY DEF AxumChecks, AxumFindings
  <1>3. McpChecks \in Seq(McpFindings)
    BY DEF McpChecks, ClaimsChecks, McpFindings
  <1>4. McpChecks \in Seq(ProxyFindings) /\ ProxyBodyChecks \in Seq(ProxyFindings)
    <2>1. ProxyBodyChecks \in Seq(ProxyFindings)
      BY DEF ProxyBodyChecks, ProxyFindings
    <2>2. McpFindings \subseteq ProxyFindings
      BY DEF ProxyFindings
    <2> QED
      BY <1>3, <2>1, <2>2
  <1> QED
    BY <1>1, <1>2, <1>3, <1>4

-------------------------------------------------------------------------------
(***************************************************************************)
(* The handlers                                                             *)
(***************************************************************************)

Refusals ==
    {"malformed", "parse_error", "invalid_request", "invalid_params", "too_large",
     "pass_through"}

\* What a handler's answers say: one of them is read as an allow and one as a
\* denial, and every other end has an answer of its own.
AnswersOK(answers) ==
    /\ {"deny", "audit_sink"} \subseteq DOMAIN answers
    /\ \A o \in DOMAIN answers :
          /\ answers[o] \in {"200", "result", "ok"} <=> o = "allow"
          /\ (answers[o] \in {"403", "-32001", "denied"} /\ o # "throttled")
                 <=> o = "deny"

\* What a handler's checks say of a body.
ChecksOK(checks, answers) ==
    \E F : /\ checks \in Seq(F)
          /\ \A f \in F :
                /\ f.outcome \in Refusals \cap DOMAIN answers
                /\ f.outcome = "pass_through" => f.defect \in {"not_utf8", "not_tool_call"}

\* Every table of answers tells allow and deny from all else.
LEMMA AnswerTables ==
    /\ AnswersOK(HttpAnswers)
    /\ AnswersOK(McpAnswers)
    /\ AnswersOK(A2aAnswers)
    /\ AnswersOK(AxumAnswers)
    /\ AnswersOK(ProxyAnswers)
  <1>1. AnswersOK(HttpAnswers)
    BY DEF AnswersOK, HttpAnswers
  <1>2. AnswersOK(McpAnswers)
    BY DEF AnswersOK, McpAnswers
  <1>3. AnswersOK(A2aAnswers)
    BY DEF AnswersOK, A2aAnswers
  <1>4. AnswersOK(AxumAnswers)
    BY DEF AnswersOK, AxumAnswers
  <1>5. AnswersOK(ProxyAnswers)
    <2>1. DOMAIN ProxyAnswers = DOMAIN McpAnswers \cup {"too_large", "served", "bad_gateway"}
      BY DEF ProxyAnswers
    <2>2. \A o \in DOMAIN ProxyAnswers :
              \/ o = "too_large" /\ ProxyAnswers[o] = "413"
              \/ o = "served" /\ ProxyAnswers[o] = "served"
              \/ o = "bad_gateway" /\ ProxyAnswers[o] = "502"
              \/ o \in DOMAIN McpAnswers /\ ProxyAnswers[o] = McpAnswers[o]
      BY DEF ProxyAnswers
    <2> HIDE DEF ProxyAnswers
    <2> QED
      BY <1>2, <2>1, <2>2 DEF AnswersOK
  <1> QED
    BY <1>1, <1>2, <1>3, <1>4, <1>5

\* Every handler's checks end in answers it has.
LEMMA CheckTables ==
    /\ ChecksOK(HttpChecks, HttpAnswers)
    /\ ChecksOK(McpChecks, McpAnswers)
    /\ ChecksOK(A2aChecks, A2aAnswers)
    /\ ChecksOK(AxumChecks, AxumAnswers)
    /\ ChecksOK(ProxyBodyChecks \o McpChecks, ProxyAnswers)
  <1> DEFINE Good(F, answers) ==
               \A f \in F :
                   /\ f.outcome \in Refusals \cap DOMAIN answers
                   /\ f.outcome = "pass_through" => f.defect \in {"not_utf8", "not_tool_call"}
  <1>1. ASSUME NEW checks, NEW answers, NEW F, checks \in Seq(F), Good(F, answers)
        PROVE  ChecksOK(checks, answers)
    BY <1>1 DEF ChecksOK
  <1>2. Good(PlainFindings, HttpAnswers)
    BY DEF PlainFindings, Finding, Refusals, HttpAnswers
  <1>3. Good(PlainFindings, A2aAnswers)
    BY DEF PlainFindings, Finding, Refusals, A2aAnswers
  <1>4. Good(AxumFindings, AxumAnswers)
    BY DEF AxumFindings, Finding, Refusals, AxumAnswers
  <1>5. Good(McpFindings, McpAnswers)
    BY DEF McpFindings, Finding, Refusals, McpAnswers
  <1>6. Good(ProxyFindings, ProxyAnswers)
    <2>1. DOMAIN ProxyAnswers = DOMAIN McpAnswers \cup {"too_large", "served", "bad_gateway"}
      BY DEF ProxyAnswers
    <2>2. "pass_through" \in DOMAIN McpAnswers
      BY DEF McpAnswers
    <2> QED
      BY <1>5, <2>1, <2>2 DEF ProxyFindings, Finding, Refusals
  <1> HIDE DEF Good
  <1> QED
    BY <1>1, <1>2, <1>3, <1>4, <1>5, <1>6, ChecksFacts

\* What the proofs need of a handler.
HandlerOK(door) ==
    LET H == Handler(door) IN
    /\ {H.guarded, H.encodes, H.async, H.serves} \subseteq BOOLEAN
    /\ AnswersOK(H.answers)
    /\ ChecksOK(H.checks, H.answers)
    /\ ~H.serves => "allow" \in DOMAIN H.answers
    /\ H.serves => "served" \in DOMAIN H.answers /\ ~H.guarded /\ door = "axum"
    /\ H.guarded => "throttled" \in DOMAIN H.answers
    /\ H.encodes => "encode" \in DOMAIN H.answers
    /\ ~H.async => "runtime_config" \in DOMAIN H.answers
    /\ door = "proxy" => {"served", "bad_gateway"} \subseteq DOMAIN H.answers /\ ~H.serves

\* Every handler is as the proofs need it.
LEMMA Handlers ==
    ASSUME NEW door \in Doors
    PROVE  HandlerOK(door)
  <1> DEFINE H == Handler(door)
  <1>1. CASE door = "http"
    <2>1. /\ H.checks = HttpChecks /\ H.answers = HttpAnswers
          /\ H.guarded = TRUE /\ H.encodes = FALSE
          /\ H.async = FALSE /\ H.serves = FALSE
      BY <1>1 DEF Handler, HttpHandler
    <2> QED
      BY <1>1, <2>1, AnswerTables, CheckTables DEF HandlerOK, HttpAnswers
  <1>2. CASE door = "http_async"
    <2>1. /\ H.checks = HttpChecks /\ H.answers = HttpAnswers
          /\ H.guarded = TRUE /\ H.encodes = FALSE
          /\ H.async = TRUE /\ H.serves = FALSE
      BY <1>2 DEF Handler, HttpHandler, HttpAsyncHandler
    <2> QED
      BY <1>2, <2>1, AnswerTables, CheckTables DEF HandlerOK, HttpAnswers
  <1>3. CASE door = "mcp"
    <2>1. /\ H.checks = McpChecks /\ H.answers = McpAnswers
          /\ H.guarded = TRUE /\ H.encodes = TRUE
          /\ H.async = FALSE /\ H.serves = FALSE
      BY <1>3 DEF Handler, HttpHandler, McpHandler
    <2> QED
      BY <1>3, <2>1, AnswerTables, CheckTables DEF HandlerOK, McpAnswers
  <1>4. CASE door = "mcp_async"
    <2>1. /\ H.checks = McpChecks /\ H.answers = McpAnswers
          /\ H.guarded = TRUE /\ H.encodes = TRUE
          /\ H.async = TRUE /\ H.serves = FALSE
      BY <1>4 DEF Handler, HttpHandler, McpHandler, McpAsyncHandler
    <2> QED
      BY <1>4, <2>1, AnswerTables, CheckTables DEF HandlerOK, McpAnswers
  <1>5. CASE door = "a2a"
    <2>1. /\ H.checks = A2aChecks /\ H.answers = A2aAnswers
          /\ H.guarded = TRUE /\ H.encodes = TRUE
          /\ H.async = FALSE /\ H.serves = FALSE
      BY <1>5 DEF Handler, HttpHandler, McpHandler, A2aHandler
    <2> QED
      BY <1>5, <2>1, AnswerTables, CheckTables DEF HandlerOK, A2aAnswers
  <1>6. CASE door = "a2a_async"
    <2>1. /\ H.checks = A2aChecks /\ H.answers = A2aAnswers
          /\ H.guarded = TRUE /\ H.encodes = TRUE
          /\ H.async = TRUE /\ H.serves = FALSE
      BY <1>6 DEF Handler, HttpHandler, McpHandler, A2aHandler, A2aAsyncHandler
    <2> QED
      BY <1>6, <2>1, AnswerTables, CheckTables DEF HandlerOK, A2aAnswers
  <1>7. CASE door = "axum"
    <2>1. /\ H.checks = AxumChecks /\ H.answers = AxumAnswers
          /\ H.guarded = FALSE /\ H.encodes = FALSE
          /\ H.async = TRUE /\ H.serves = TRUE
      BY <1>7 DEF Handler, TrustService
    <2> QED
      BY <1>7, <2>1, AnswerTables, CheckTables DEF HandlerOK, AxumAnswers
  <1>8. CASE door = "proxy"
    <2>1. /\ H.checks = ProxyBodyChecks \o McpChecks /\ H.answers = ProxyAnswers
          /\ H.guarded = TRUE /\ H.encodes = TRUE
          /\ H.async = TRUE /\ H.serves = FALSE
      BY <1>8 DEF Handler, HttpHandler, McpHandler, McpAsyncHandler, ProxyHandler
    <2> QED
      BY <1>8, <2>1, AnswerTables, CheckTables DEF HandlerOK, ProxyAnswers, McpAnswers
  <1> QED
    BY <1>1, <1>2, <1>3, <1>4, <1>5, <1>6, <1>7, <1>8 DEF Doors

-------------------------------------------------------------------------------
(***************************************************************************)
(* The inductive invariant of Adapters                                      *)
(***************************************************************************)
NoEvent(c) == ~Audited(c, "allow") /\ ~Audited(c, "deny")

\* What entitles a call to get behind the layer or the proxy.
Behind(c) ==
    \/ Ungated(c) /\ ~h(c).serves /\ decision[c] = "pending"
    \/ h(c).serves /\ Audited(c, "allow")

Outcomes ==
    {"none", "dropped", "allow", "deny", "audit_sink", "served", "bad_gateway",
     "throttled", "encode", "runtime_config"} \cup Refusals

\* How a call may end, and what it has then done.
EndedAs(c, o) ==
    /\ o \in DOMAIN h(c).answers \cup {"dropped"}
    /\ \/ o = "dropped"
       \/ o \in {"allow", "deny"} /\ Audited(c, o) /\ ~(o = "allow" /\ h(c).serves)
       \/ o = "audit_sink" /\ decision[c] # "pending"
       \/ o \in {"served", "bad_gateway"} /\ Behind(c)
       \/ /\ o \in Refusals \cup {"throttled", "encode", "runtime_config"}
          /\ decision[c] = "pending"
          /\ o = "pass_through" =>
                message[c].defects \cap {"not_utf8", "not_tool_call"} # {}

\* A call has a decision exactly from the pipeline on, an allow only with a
\* nonce, an event only with its decision.
CallOK(c) ==
    /\ HasSpent(c) => decision[c] # "pending"
    /\ decision[c] = "allow" => HasSpent(c)
    /\ \A d \in {"allow", "deny"} :
          Audited(c, d) => /\ d = decision[c]
                           /\ pc[c] \in {"forwarding", "delivered", "ended"}
    /\ pc[c] \in {"sent", "guard", "evaluating"} => decision[c] = "pending"
    /\ pc[c] = "guard" => h(c).guarded
    /\ pc[c] = "decided" => decision[c] # "pending"
    /\ pc[c] \in {"forwarding", "delivered"} => Behind(c)
    /\ c \in reached => Behind(c) /\ pc[c] \in {"delivered", "ended"}
    /\ pc[c] = "ended" => EndedAs(c, outcome[c])
    /\ pc[c] # "ended" => outcome[c] = "none"

Types ==
    /\ production \in BOOLEAN
    /\ message \in [Calls -> Messages]
    /\ pc \in [Calls -> ProgramCounters]
    /\ spent \subseteq [store : {"process", "proxy", "given"}, nonce : Nonces, by : Calls]
    /\ decision \in [Calls -> {"pending", "allow", "deny"}]
    /\ audit \subseteq [call : Calls, decision : {"allow", "deny"}]
    /\ reached \subseteq Calls
    /\ outcome \in [Calls -> Outcomes]

\* Every store's nonces are spent once, by the call that carries them.
SpentOnce ==
    /\ \A s \in spent : s.store = StoreOf(s.by) /\ s.nonce = message[s.by].nonce
    /\ \A s, t \in spent : s.store = t.store /\ s.nonce = t.nonce => s.by = t.by

LeaseInv == LeasesMatchEvaluations /\ IsFiniteSet(leases)

CallInv ==
    /\ Types
    /\ \A c \in Calls : CallOK(c)
    /\ SpentOnce
    /\ LeaseInv

\* The handler of a call is as the proofs need it.
LEMMA CallHandler ==
    ASSUME Types, NEW c \in Calls
    PROVE  /\ HandlerOK(message[c].door)
           /\ message[c] \in Message
           /\ message[c].entry = "runtime" => ~h(c).async
  BY Handlers, MessageAssumption DEF Types, Message, h

\* A body that is not evaluated is refused with an answer the handler has.
LEMMA DecodedFacts ==
    ASSUME Types, NEW c \in Calls, Decoded(c) # "evaluate"
    PROVE  /\ Decoded(c) \in Refusals \cap DOMAIN h(c).answers
           /\ Decoded(c) = "pass_through" =>
                 message[c].defects \cap {"not_utf8", "not_tool_call"} # {}
  <1>1. ChecksOK(h(c).checks, h(c).answers)
    BY CallHandler DEF HandlerOK, h
  <1>2. PICK F : /\ h(c).checks \in Seq(F)
                 /\ \A f \in F :
                       /\ f.outcome \in Refusals \cap DOMAIN h(c).answers
                       /\ f.outcome = "pass_through" =>
                             f.defect \in {"not_utf8", "not_tool_call"}
    BY <1>1 DEF ChecksOK
  <1>3. \E f \in F : /\ f.defect \in message[c].defects
                     /\ Decode(h(c).checks, message[c].defects) = f.outcome
    BY <1>2, DecodeFacts DEF Decoded
  <1> QED
    BY <1>2, <1>3 DEF Decoded

\* No call has begun.
LEMMA InitCallInv == Init => CallInv
  <1> SUFFICES ASSUME Init PROVE CallInv
    OBVIOUS
  <1>1. Types
    BY DEF Init, Types, ProgramCounters, Outcomes
  <1>2. \A c \in Calls : CallOK(c)
    BY DEF Init, CallOK, HasSpent, Audited
  <1>3. SpentOnce
    BY DEF Init, SpentOnce
  <1>4. LeaseInv
    <2>1. \A c \in Calls : Inflight(c) = {}
      BY DEF Init, Inflight
    <2>2. leases = {c \in Calls : h(c).guarded /\ pc[c] \in {"evaluating", "decided"}}
      BY DEF Init
    <2>3. IsFiniteSet(leases)
      BY FS_EmptySet DEF Init
    <2>4. \A c \in Calls : Cardinality(Inflight(c)) <= MaxInflight
      BY <2>1, FS_EmptySet, MessageAssumption
    <2> QED
      BY <2>2, <2>3, <2>4 DEF LeaseInv, LeasesMatchEvaluations
  <1> QED
    BY <1>1, <1>2, <1>3, <1>4 DEF CallInv

\* A step of one call leaves what the others have done.
MovesOnly(c) ==
    /\ UNCHANGED <<production, message>>
    /\ \A d \in Calls \ {c} :
          /\ pc'[d] = pc[d] /\ decision'[d] = decision[d] /\ outcome'[d] = outcome[d]
          /\ d \in reached' <=> d \in reached
          /\ HasSpent(d)' <=> HasSpent(d)
          /\ \A x \in {"allow", "deny"} : Audited(d, x)' <=> Audited(d, x)

\* So they stay as they were.
LEMMA OthersOK ==
    ASSUME CallInv, NEW c \in Calls, MovesOnly(c), NEW d \in Calls, d # c
    PROVE  CallOK(d)'
  <1>1. CallOK(d)
    BY DEF CallInv
  <1>2. /\ pc'[d] = pc[d] /\ decision'[d] = decision[d] /\ outcome'[d] = outcome[d]
        /\ d \in reached' <=> d \in reached
        /\ HasSpent(d)' <=> HasSpent(d)
        /\ Audited(d, "allow")' <=> Audited(d, "allow")
        /\ Audited(d, "deny")' <=> Audited(d, "deny")
        /\ h(d)' = h(d) /\ message'[d] = message[d]
    BY DEF MovesOnly, h
  <1>3. Behind(d)' <=> Behind(d)
    BY <1>2 DEF Behind, Ungated
  <1>4. EndedAs(d, outcome[d])' <=> EndedAs(d, outcome[d])
    <2>1. \A x \in {"allow", "deny"} : Audited(d, x)' <=> Audited(d, x)
      BY <1>2
    <2> QED
      BY <1>2, <1>3, <2>1 DEF EndedAs
  <1>5. \A x \in {"allow", "deny"} : Audited(d, x)' <=> Audited(d, x)
    BY <1>2
  <1> QED
    BY <1>1, <1>2, <1>3, <1>4, <1>5 DEF CallOK

-------------------------------------------------------------------------------
(***************************************************************************)
(* The guard's leases                                                       *)
(***************************************************************************)

\* A step that takes no lease keeps the guard's bound.
LEMMA LeasesShrink ==
    ASSUME LeaseInv, UNCHANGED message, leases' \subseteq leases
    PROVE  /\ IsFiniteSet(leases')
           /\ \A c \in Calls : Cardinality(Inflight(c)') <= MaxInflight
  <1>1. IsFiniteSet(leases) /\ IsFiniteSet(leases')
    BY FS_Subset DEF LeaseInv
  <1>2. ASSUME NEW c \in Calls
        PROVE  Cardinality(Inflight(c)') <= MaxInflight
    <2>1. Inflight(c)' \in SUBSET Inflight(c) /\ Inflight(c) \in SUBSET leases
      BY DEF Inflight
    <2>2. IsFiniteSet(Inflight(c))
      BY <1>1, <2>1, FS_Subset
    <2>3. Cardinality(Inflight(c)') <= Cardinality(Inflight(c)) /\ IsFiniteSet(Inflight(c)')
      BY <2>1, <2>2, FS_Subset
    <2>4. Cardinality(Inflight(c)) <= MaxInflight
      BY DEF LeaseInv, LeasesMatchEvaluations
    <2>5. Cardinality(Inflight(c)') \in Nat /\ Cardinality(Inflight(c)) \in Nat
      BY <2>2, <2>3, FS_CardinalityType
    <2> QED
      BY <2>3, <2>4, <2>5, MessageAssumption
  <1> QED
    BY <1>1, <1>2

\* A lease is taken below the bound of its tuple.
LEMMA LeaseTaken ==
    ASSUME LeaseInv, UNCHANGED message, NEW c \in Calls, leases' = leases \cup {c},
           Cardinality(Inflight(c)) < MaxInflight
    PROVE  /\ IsFiniteSet(leases')
           /\ \A d \in Calls : Cardinality(Inflight(d)') <= MaxInflight
  <1>1. IsFiniteSet(leases) /\ IsFiniteSet(leases')
    BY FS_AddElement DEF LeaseInv
  <1>2. ASSUME NEW d \in Calls
        PROVE  Cardinality(Inflight(d)') <= MaxInflight
    <2>1. CASE message[d].tuple = message[c].tuple
      <3>1. Inflight(d)' = Inflight(c) \cup {c} /\ Inflight(c) \in SUBSET leases
        BY <2>1 DEF Inflight
      <3>2. IsFiniteSet(Inflight(c)) /\ Cardinality(Inflight(c)) \in Nat
        BY <1>1, <3>1, FS_Subset, FS_CardinalityType
      <3>3. Cardinality(Inflight(d)') <= Cardinality(Inflight(c)) + 1
        <4>1. Cardinality(Inflight(c) \cup {c})
                = IF c \in Inflight(c) THEN Cardinality(Inflight(c))
                                       ELSE Cardinality(Inflight(c)) + 1
          BY <3>2, FS_AddElement
        <4> QED
          BY <3>1, <3>2, <4>1
      <3>4. Cardinality(Inflight(d)') \in Nat
        BY <3>1, <3>2, FS_AddElement, FS_CardinalityType
      <3> QED
        BY <3>2, <3>3, <3>4, MessageAssumption
    <2>2. CASE message[d].tuple # message[c].tuple
      <3>1. Inflight(d)' = Inflight(d)
        BY <2>2 DEF Inflight
      <3> QED
        BY <3>1 DEF LeaseInv, LeasesMatchEvaluations
    <2> QED
      BY <2>1, <2>2
  <1> QED
    BY <1>1, <1>2

-------------------------------------------------------------------------------
(***************************************************************************)
(* Every step of a call preserves the invariant                             *)
(***************************************************************************)

\* From the parts of the invariant for the call that moved.
LEMMA CallInvFrom ==
    ASSUME CallInv, NEW c \in Calls, MovesOnly(c), Types', CallOK(c)', SpentOnce', LeaseInv'
    PROVE  CallInv'
  BY OthersOK DEF CallInv

\* A step that spends nothing leaves the nonces spent once.
LEMMA SpentSame ==
    ASSUME CallInv, UNCHANGED <<message, spent>>
    PROVE  SpentOnce'
  BY DEF CallInv, SpentOnce, StoreOf

\* A call that ends without an event drops its lease.
LEMMA EndStep ==
    ASSUME CallInv, NEW c \in Calls, NEW from, from # "ended", NEW result,
           End(c, from, result), EndedAs(c, result),
           UNCHANGED <<production, message, spent, decision, audit, reached>>
    PROVE  CallInv'
  <1> USE DEF CallInv
  <1>1. /\ pc[c] = from
        /\ pc' = [pc EXCEPT ![c] = "ended"]
        /\ outcome' = [outcome EXCEPT ![c] = result]
        /\ leases' = leases \ {c}
    BY DEF End, Goto
  <1>2. result \in Outcomes
    BY DEF EndedAs, Outcomes
  <1>3. Types'
    BY <1>1, <1>2 DEF Types, ProgramCounters
  <1>4. MovesOnly(c)
    BY <1>1 DEF MovesOnly, HasSpent, Audited, Types
  <1>5. /\ HasSpent(c)' <=> HasSpent(c)
        /\ \A x : Audited(c, x)' <=> Audited(c, x)
        /\ h(c)' = h(c) /\ decision'[c] = decision[c]
        /\ Behind(c)' <=> Behind(c)
        /\ pc'[c] = "ended" /\ outcome'[c] = result
    BY <1>1 DEF HasSpent, Audited, h, Behind, Ungated, Types
  <1>6. EndedAs(c, outcome[c])'
    BY <1>5 DEF EndedAs
  <1>7. CallOK(c)'
    <2>1. CallOK(c)
      OBVIOUS
    <2> QED
      BY <1>5, <1>6, <2>1 DEF CallOK
  <1>8. LeaseInv'
    <2>1. /\ IsFiniteSet(leases')
          /\ \A d \in Calls : Cardinality(Inflight(d)') <= MaxInflight
      BY <1>1, LeasesShrink
    <2>2. leases' = {d \in Calls : h(d)'.guarded /\ pc'[d] \in {"evaluating", "decided"}}
      BY <1>1 DEF LeaseInv, LeasesMatchEvaluations, h, Types
    <2> QED
      BY <2>1, <2>2 DEF LeaseInv, LeasesMatchEvaluations
  <1> QED
    BY <1>3, <1>4, <1>7, <1>8, SpentSame, CallInvFrom

\* Reading the body: evaluated, passed on by the proxy, or refused.
LEMMA ReceiveCallInv ==
    ASSUME CallInv, NEW c \in Calls, RefuseRuntimeConfig(c) \/ Receive(c)
    PROVE  CallInv'
  <1> USE DEF CallInv
  <1>1. /\ pc[c] = "sent" /\ decision[c] = "pending"
        /\ UNCHANGED <<production, message, spent, decision, audit, reached>>
    BY DEF RefuseRuntimeConfig, Receive, End, Goto, CallOK
  <1>2. HandlerOK(message[c].door)
    BY CallHandler
  <1>3. CASE RefuseRuntimeConfig(c)
    <2>1. ~h(c).async
      BY <1>3, CallHandler DEF RefuseRuntimeConfig
    <2>2. "runtime_config" \in DOMAIN h(c).answers
      BY <1>2, <2>1 DEF HandlerOK, h
    <2>3. EndedAs(c, "runtime_config")
      BY <1>1, <2>2 DEF EndedAs
    <2>4. End(c, "sent", "runtime_config")
      BY <1>3 DEF RefuseRuntimeConfig
    <2> QED
      BY <1>1, <2>3, <2>4, EndStep
  <1>4. CASE Decoded(c) # "evaluate" /\ End(c, "sent", Decoded(c))
    <2>1. EndedAs(c, Decoded(c))
      BY <1>1, <1>4, DecodedFacts DEF EndedAs
    <2> QED
      BY <1>1, <1>4, <2>1, EndStep
  <1>5. ASSUME NEW to \in {"guard", "evaluating", "forwarding"},
               Goto(c, "sent", to), UNCHANGED <<leases, outcome>>,
               to = "guard" => h(c).guarded,
               to = "evaluating" => ~h(c).guarded,
               to = "forwarding" => Behind(c)
        PROVE  CallInv'
    <2>1. pc' = [pc EXCEPT ![c] = to]
      BY <1>5 DEF Goto
    <2>2. Types'
      BY <1>1, <1>5, <2>1 DEF Types, ProgramCounters
    <2>3. MovesOnly(c)
      BY <1>1, <1>5, <2>1 DEF MovesOnly, HasSpent, Audited, Types
    <2>4. /\ HasSpent(c)' <=> HasSpent(c)
          /\ \A x : Audited(c, x)' <=> Audited(c, x)
          /\ h(c)' = h(c) /\ decision'[c] = decision[c]
          /\ Behind(c)' <=> Behind(c)
          /\ pc'[c] = to /\ outcome'[c] = outcome[c] /\ (c \in reached' <=> c \in reached)
      BY <1>1, <1>5, <2>1 DEF HasSpent, Audited, h, Behind, Ungated, Types
    <2>5. CallOK(c)'
      <3>1. CallOK(c)
        OBVIOUS
      <3> QED
        BY <1>1, <1>5, <2>4, <3>1 DEF CallOK
    <2>6. LeaseInv'
      <3>1. /\ IsFiniteSet(leases')
            /\ \A d \in Calls : Cardinality(Inflight(d)') <= MaxInflight
        BY <1>1, <1>5, LeasesShrink
      <3>2. leases' = {d \in Calls : h(d)'.guarded /\ pc'[d] \in {"evaluating", "decided"}}
        BY <1>1, <1>5, <2>1 DEF LeaseInv, LeasesMatchEvaluations, h, Types
      <3> QED
        BY <3>1, <3>2 DEF LeaseInv, LeasesMatchEvaluations
    <2> QED
      BY <1>1, <2>2, <2>3, <2>5, <2>6, SpentSame, CallInvFrom
  <1>6. CASE /\ Goto(c, "sent", IF h(c).guarded THEN "guard" ELSE "evaluating")
             /\ UNCHANGED <<leases, outcome>>
    BY <1>5, <1>6
  <1>7. CASE /\ Decoded(c) = "pass_through" /\ message[c].door = "proxy"
             /\ Goto(c, "sent", "forwarding")
             /\ UNCHANGED <<leases, outcome>>
    <2>1. Ungated(c)
      BY <1>7, DecodedFacts DEF Ungated
    <2>2. ~h(c).serves
      BY <1>2, <1>7 DEF HandlerOK, h
    <2>3. Behind(c)
      BY <1>1, <2>1, <2>2 DEF Behind
    <2> QED
      BY <1>5, <1>7, <2>3
  <1> QED
    BY <1>3, <1>4, <1>6, <1>7 DEF Receive

\* The guard: a lease, or an answer.
LEMMA GuardCallInv ==
    ASSUME CallInv, NEW c \in Calls, EnterGuard(c) \/ Throttle(c) \/ EncodeFails(c)
    PROVE  CallInv'
  <1> USE DEF CallInv
  <1>1. /\ pc[c] = "guard" /\ decision[c] = "pending" /\ h(c).guarded
        /\ UNCHANGED <<production, message, spent, decision, audit, reached>>
    BY DEF EnterGuard, Throttle, EncodeFails, End, Goto, CallOK
  <1>2. HandlerOK(message[c].door)
    BY CallHandler
  <1>3. CASE Throttle(c) \/ EncodeFails(c)
    <2>1. PICK o \in {"throttled", "encode"} :
              End(c, "guard", o) /\ o \in DOMAIN h(c).answers
      BY <1>1, <1>2, <1>3 DEF Throttle, EncodeFails, HandlerOK, h
    <2>2. EndedAs(c, o)
      BY <1>1, <2>1 DEF EndedAs
    <2> QED
      BY <1>1, <2>1, <2>2, EndStep
  <1>4. CASE EnterGuard(c)
    <2>1. /\ pc' = [pc EXCEPT ![c] = "evaluating"]
          /\ leases' = leases \cup {c}
          /\ outcome' = outcome
          /\ Cardinality(Inflight(c)) < MaxInflight
      BY <1>4 DEF EnterGuard, Goto
    <2>2. Types'
      BY <1>1, <2>1 DEF Types, ProgramCounters
    <2>3. MovesOnly(c)
      BY <1>1, <2>1 DEF MovesOnly, HasSpent, Audited, Types
    <2>4. /\ HasSpent(c)' <=> HasSpent(c)
          /\ \A x : Audited(c, x)' <=> Audited(c, x)
          /\ decision'[c] = decision[c]
          /\ pc'[c] = "evaluating" /\ outcome'[c] = outcome[c]
          /\ (c \in reached' <=> c \in reached)
      BY <1>1, <2>1 DEF HasSpent, Audited, Types
    <2>5. CallOK(c)'
      <3>1. CallOK(c)
        OBVIOUS
      <3> QED
        BY <1>1, <2>4, <3>1 DEF CallOK
    <2>6. LeaseInv'
      <3>1. /\ IsFiniteSet(leases')
            /\ \A d \in Calls : Cardinality(Inflight(d)') <= MaxInflight
        BY <1>1, <2>1, LeaseTaken
      <3>2. leases' = {d \in Calls : h(d)'.guarded /\ pc'[d] \in {"evaluating", "decided"}}
        BY <1>1, <2>1 DEF LeaseInv, LeasesMatchEvaluations, h, Types
      <3> QED
        BY <3>1, <3>2 DEF LeaseInv, LeasesMatchEvaluations
    <2> QED
      BY <1>1, <2>2, <2>3, <2>5, <2>6, SpentSame, CallInvFrom
  <1> QED
    BY <1>3, <1>4

\* The pipeline decides, and allows only with a nonce nobody had spent.
LEMMA DecideCallInv ==
    ASSUME CallInv, NEW c \in Calls, ConsumeNonce(c) \/ Deny(c)
    PROVE  CallInv'
  <1> USE DEF CallInv
  <1> DEFINE entry == [store |-> StoreOf(c), nonce |-> message[c].nonce, by |-> c]
  <1>1. /\ pc[c] = "evaluating" /\ decision[c] = "pending"
        /\ pc' = [pc EXCEPT ![c] = "decided"]
        /\ UNCHANGED <<production, message, leases, audit, reached, outcome>>
    BY DEF ConsumeNonce, Deny, Goto, CallOK
  <1>2. \E d \in {"allow", "deny"} :
            /\ decision' = [decision EXCEPT ![c] = d]
            /\ \/ Fresh(c) /\ spent' = spent \cup {entry}
               \/ d = "deny" /\ spent' = spent
    BY DEF ConsumeNonce, Deny
  <1>3. entry \in [store : {"process", "proxy", "given"}, nonce : Nonces, by : Calls]
    <2>1. StoreOf(c) \in {"process", "proxy", "given"}
      BY DEF StoreOf
    <2>2. message[c].nonce \in Nonces
      BY CallHandler DEF Message
    <2> QED
      BY <2>1, <2>2
  <1>4. entry.by = c /\ entry.store = StoreOf(c) /\ entry.nonce = message[c].nonce
    OBVIOUS
  <1> HIDE DEF entry
  <1>5. Types'
    BY <1>1, <1>2, <1>3 DEF Types, ProgramCounters
  <1>6. MovesOnly(c)
    <2>1. \A d \in Calls \ {c} : HasSpent(d)' <=> HasSpent(d)
      BY <1>2, <1>4 DEF HasSpent
    <2> QED
      BY <1>1, <1>2, <2>1 DEF MovesOnly, Audited, Types
  <1>7. CallOK(c)'
    <2>1. CallOK(c)
      OBVIOUS
    <2>2. /\ decision'[c] \in {"allow", "deny"}
          /\ decision'[c] = "allow" => HasSpent(c)'
      BY <1>2, <1>4 DEF HasSpent, Types
    <2>3. /\ \A x : Audited(c, x)' <=> Audited(c, x)
          /\ pc'[c] = "decided" /\ outcome'[c] = outcome[c]
          /\ (c \in reached' <=> c \in reached)
      BY <1>1 DEF Audited, Types
    <2> QED
      BY <1>1, <2>1, <2>2, <2>3 DEF CallOK
  <1>8. SpentOnce'
    <2>1. \A d : StoreOf(d)' = StoreOf(d)
      BY <1>1 DEF StoreOf
    <2>2. CASE spent' = spent
      BY <1>1, <2>1, <2>2 DEF SpentOnce
    <2>3. CASE Fresh(c) /\ spent' = spent \cup {entry}
      <3>1. \A s \in spent : ~(s.store = entry.store /\ s.nonce = entry.nonce)
        BY <1>4, <2>3 DEF Fresh
      <3> QED
        BY <1>1, <1>4, <2>1, <2>3, <3>1 DEF SpentOnce
    <2> QED
      BY <1>2, <2>2, <2>3
  <1>9. LeaseInv'
    <2>1. /\ IsFiniteSet(leases')
          /\ \A d \in Calls : Cardinality(Inflight(d)') <= MaxInflight
      BY <1>1, LeasesShrink
    <2>2. leases' = {d \in Calls : h(d)'.guarded /\ pc'[d] \in {"evaluating", "decided"}}
      BY <1>1 DEF LeaseInv, LeasesMatchEvaluations, h, Types
    <2> QED
      BY <2>1, <2>2 DEF LeaseInv, LeasesMatchEvaluations
  <1> QED
    BY <1>5, <1>6, <1>7, <1>8, <1>9, CallInvFrom

\* The event comes before the answer and before the inner service, also the one
\* that a failing sink leaves behind.
LEMMA WriteAuditCallInv ==
    ASSUME CallInv, NEW c \in Calls,
           \/ WriteAudit(c)
           \/ /\ AuditFails(c)
              /\ audit' = audit \cup {[call |-> c, decision |-> decision[c]]}
    PROVE  CallInv'
  <1> USE DEF CallInv
  <1> DEFINE event == [call |-> c, decision |-> decision[c]]
             served == decision[c] = "allow" /\ h(c).serves
  <1>1. /\ pc[c] = "decided" /\ decision[c] \in {"allow", "deny"}
        /\ audit' = audit \cup {event}
        /\ UNCHANGED <<production, message, spent, decision, reached>>
    BY DEF WriteAudit, AuditFails, End, Goto, CallOK, Types
  <1>2. \/ /\ served
           /\ pc' = [pc EXCEPT ![c] = "forwarding"]
           /\ UNCHANGED <<leases, outcome>>
        \/ /\ ~served
           /\ pc' = [pc EXCEPT ![c] = "ended"]
           /\ outcome' = [outcome EXCEPT ![c] = decision[c]]
           /\ leases' = leases \ {c}
        \/ /\ pc' = [pc EXCEPT ![c] = "ended"]
           /\ outcome' = [outcome EXCEPT ![c] = "audit_sink"]
           /\ leases' = leases \ {c}
    BY DEF WriteAudit, AuditFails, End, Goto
  <1>3. HandlerOK(message[c].door)
    BY CallHandler
  <1>4. Types'
    <2>1. event \in [call : Calls, decision : {"allow", "deny"}]
      BY <1>1
    <2> HIDE DEF event, served
    <2> QED
      BY <1>1, <1>2, <2>1 DEF Types, ProgramCounters, Outcomes
  <1>5. MovesOnly(c)
    <2>1. \A d \in Calls \ {c} : \A x \in {"allow", "deny"} : Audited(d, x)' <=> Audited(d, x)
      BY <1>1 DEF Audited
    <2>2. \A d \in Calls \ {c} : HasSpent(d)' <=> HasSpent(d)
      BY <1>1 DEF HasSpent
    <2>3. \A d \in Calls \ {c} : pc'[d] = pc[d] /\ outcome'[d] = outcome[d]
      BY <1>2 DEF Types
    <2> QED
      BY <1>1, <2>1, <2>2, <2>3 DEF MovesOnly
  <1>6. CallOK(c)'
    <2>1. CallOK(c)
      OBVIOUS
    <2>2. /\ HasSpent(c)' <=> HasSpent(c)
          /\ h(c)' = h(c) /\ decision'[c] = decision[c]
          /\ (c \in reached' <=> c \in reached)
      BY <1>1 DEF HasSpent, h
    <2>3. NoEvent(c)
      BY <1>1, <2>1 DEF CallOK, NoEvent
    <2>4. \A x \in {"allow", "deny"} : Audited(c, x)' <=> x = decision[c]
      BY <1>1, <2>3 DEF Audited, NoEvent
    <2>5. CASE served /\ pc' = [pc EXCEPT ![c] = "forwarding"] /\ UNCHANGED <<leases, outcome>>
      <3>1. Behind(c)'
        BY <2>2, <2>4, <2>5 DEF Behind
      <3>2. pc'[c] = "forwarding" /\ outcome'[c] = outcome[c]
        BY <2>5 DEF Types
      <3> QED
        BY <1>1, <2>1, <2>2, <2>4, <3>1, <3>2 DEF CallOK
    <2>6. CASE /\ ~served
               /\ pc' = [pc EXCEPT ![c] = "ended"]
               /\ outcome' = [outcome EXCEPT ![c] = decision[c]]
      <3>1. pc'[c] = "ended" /\ outcome'[c] = decision[c]
        BY <2>6 DEF Types
      <3>2. decision[c] \in DOMAIN h(c).answers
        <4>1. h(c).serves \in BOOLEAN /\ {"deny"} \subseteq DOMAIN h(c).answers
          BY <1>3 DEF HandlerOK, AnswersOK, h
        <4>2. decision[c] = "allow" => "allow" \in DOMAIN h(c).answers
          BY <1>3, <2>6 DEF HandlerOK, h
        <4> QED
          BY <1>1, <4>1, <4>2
      <3>3. EndedAs(c, outcome[c])'
        BY <1>1, <2>2, <2>4, <2>6, <3>1, <3>2 DEF EndedAs
      <3> QED
        BY <1>1, <2>1, <2>2, <2>4, <3>1, <3>3 DEF CallOK
    <2>7. CASE /\ pc' = [pc EXCEPT ![c] = "ended"]
               /\ outcome' = [outcome EXCEPT ![c] = "audit_sink"]
      <3>1. pc'[c] = "ended" /\ outcome'[c] = "audit_sink"
        BY <2>7 DEF Types
      <3>2. "audit_sink" \in DOMAIN h(c).answers
        BY <1>3 DEF HandlerOK, AnswersOK, h
      <3>3. EndedAs(c, outcome[c])'
        BY <1>1, <2>2, <3>1, <3>2 DEF EndedAs
      <3> QED
        BY <1>1, <2>1, <2>2, <2>4, <3>1, <3>3 DEF CallOK
    <2> QED
      BY <1>2, <2>5, <2>6, <2>7
  <1>7. LeaseInv'
    <2>1. leases' \subseteq leases
      BY <1>2
    <2>2. /\ IsFiniteSet(leases')
          /\ \A d \in Calls : Cardinality(Inflight(d)') <= MaxInflight
      BY <1>1, <2>1, LeasesShrink
    <2>3. served => ~h(c).guarded
      BY <1>3 DEF HandlerOK, h
    <2>4. leases' = {d \in Calls : h(d)'.guarded /\ pc'[d] \in {"evaluating", "decided"}}
      BY <1>1, <1>2, <2>3 DEF LeaseInv, LeasesMatchEvaluations, h, Types
    <2> QED
      BY <2>2, <2>4 DEF LeaseInv, LeasesMatchEvaluations
  <1> QED
    BY <1>1, <1>4, <1>5, <1>6, <1>7, SpentSame, CallInvFrom

\* Everything after the decision, and the dropped futures.
LEMMA AfterCallInv ==
    ASSUME CallInv, NEW c \in Calls,
           AuditFails(c) \/ Deliver(c) \/ Serve(c) \/ UpstreamFails(c) \/ Drop(c)
    PROVE  CallInv'
  <1> USE DEF CallInv
  <1>1. HandlerOK(message[c].door) /\ CallOK(c)
    BY CallHandler
  <1>2. CASE AuditFails(c)
    <2>1. /\ End(c, "decided", "audit_sink") /\ pc[c] = "decided"
          /\ UNCHANGED <<production, message, spent, decision, reached>>
      BY <1>2 DEF AuditFails, End, Goto
    <2>2. EndedAs(c, "audit_sink")
      <3>1. "audit_sink" \in DOMAIN h(c).answers
        BY <1>1 DEF HandlerOK, AnswersOK, h
      <3> QED
        BY <1>1, <2>1, <3>1 DEF EndedAs, CallOK
    <2>3. CASE UNCHANGED audit
      BY <2>1, <2>2, <2>3, EndStep
    <2>4. CASE audit' = audit \cup {[call |-> c, decision |-> decision[c]]}
      BY <1>2, <2>4, WriteAuditCallInv
    <2> QED
      BY <1>2, <2>3, <2>4 DEF AuditFails
  <1>3. CASE Serve(c)
    <2>1. /\ End(c, "delivered", "served") /\ pc[c] = "delivered"
          /\ UNCHANGED <<production, message, spent, decision, audit, reached>>
      BY <1>3 DEF Serve, End, Goto
    <2>2. Behind(c)
      BY <1>1, <2>1 DEF CallOK
    <2>3. "served" \in DOMAIN h(c).answers
      BY <1>1, <2>2 DEF HandlerOK, Behind, Ungated, h
    <2>4. EndedAs(c, "served")
      BY <2>2, <2>3 DEF EndedAs
    <2> QED
      BY <2>1, <2>4, EndStep
  <1>4. CASE UpstreamFails(c)
    <2>1. /\ UNCHANGED <<production, message, spent, decision, audit, reached>>
          /\ message[c].door = "proxy"
      BY <1>4 DEF UpstreamFails
    <2>2. PICK from \in {"forwarding", "delivered"} : End(c, from, "bad_gateway")
      BY <1>4 DEF UpstreamFails
    <2>3. Behind(c)
      BY <1>1, <2>2 DEF CallOK, End, Goto
    <2>4. "bad_gateway" \in DOMAIN h(c).answers
      BY <1>1, <2>1 DEF HandlerOK, h
    <2>5. EndedAs(c, "bad_gateway")
      BY <2>3, <2>4 DEF EndedAs
    <2> QED
      BY <2>1, <2>2, <2>5, EndStep
  <1>5. CASE Drop(c)
    <2>1. UNCHANGED <<production, message, spent, decision, audit, reached>>
      BY <1>5 DEF Drop
    <2>2. PICK from \in {"evaluating", "decided", "forwarding", "delivered"} :
              End(c, from, "dropped")
      BY <1>5 DEF Drop
    <2>3. EndedAs(c, "dropped")
      BY DEF EndedAs
    <2> QED
      BY <2>1, <2>2, <2>3, EndStep
  <1>6. CASE Deliver(c)
    <2>1. /\ pc[c] = "forwarding"
          /\ pc' = [pc EXCEPT ![c] = "delivered"]
          /\ reached' = reached \cup {c}
          /\ UNCHANGED <<production, message, leases, spent, decision, audit, outcome>>
      BY <1>6 DEF Deliver, Goto
    <2>2. Types'
      BY <2>1 DEF Types, ProgramCounters
    <2>3. MovesOnly(c)
      BY <2>1 DEF MovesOnly, HasSpent, Audited, Types
    <2>4. /\ HasSpent(c)' <=> HasSpent(c)
          /\ \A x : Audited(c, x)' <=> Audited(c, x)
          /\ h(c)' = h(c) /\ decision'[c] = decision[c]
          /\ Behind(c)' <=> Behind(c)
          /\ pc'[c] = "delivered" /\ outcome'[c] = outcome[c]
      BY <2>1 DEF HasSpent, Audited, h, Behind, Ungated, Types
    <2>5. CallOK(c)'
      BY <1>1, <2>1, <2>4 DEF CallOK
    <2>6. LeaseInv'
      <3>1. /\ IsFiniteSet(leases')
            /\ \A d \in Calls : Cardinality(Inflight(d)') <= MaxInflight
        BY <2>1, LeasesShrink
      <3>2. leases' = {d \in Calls : h(d)'.guarded /\ pc'[d] \in {"evaluating", "decided"}}
        BY <2>1 DEF LeaseInv, LeasesMatchEvaluations, h, Types
      <3> QED
        BY <3>1, <3>2 DEF LeaseInv, LeasesMatchEvaluations
    <2> QED
      BY <2>1, <2>2, <2>3, <2>5, <2>6, SpentSame, CallInvFrom
  <1> QED
    BY <1>2, <1>3, <1>4, <1>5, <1>6

\* Every step of every call preserves the invariant.
LEMMA NextCallInv == CallInv /\ [Next]_vars => CallInv'
  <1>1. CallInv /\ UNCHANGED vars => CallInv'
    BY DEF CallInv, Types, CallOK, Behind, EndedAs, SpentOnce, LeaseInv,
           LeasesMatchEvaluations, Inflight, HasSpent, Audited, Ungated, StoreOf, h, vars
  <1> QED
    BY <1>1, ReceiveCallInv, GuardCallInv, DecideCallInv, WriteAuditCallInv, AfterCallInv
       DEF Next, Proceed, Handle

\* A step of the client is a step of one call, or none.
LEMMA ClientStep == [ClientNext]_clientVars => [Next]_vars
  BY DEF ClientNext, clientVars, Post, RefuseExtraParams, ReadAnswer, NetworkFails,
         Conclude, Next

\* The invariant holds whoever calls.
THEOREM CallInductive == Spec => []CallInv
  BY InitCallInv, NextCallInv, PTL DEF Spec

\* And with the client's own attempts among the calls.
THEOREM CallInductiveClient == ClientSpec => []CallInv
  <1>1. ClientInit => CallInv
    BY InitCallInv DEF ClientInit
  <1> QED
    BY <1>1, NextCallInv, ClientStep, PTL DEF ClientSpec

-------------------------------------------------------------------------------
(***************************************************************************)
(* What follows for the handlers                                            *)
(***************************************************************************)

\* Nothing behind signet is reached without a nonce and an allow event, but for
\* what the proxy passes through.
THEOREM EntitledOnly == ClientSpec => []ReachedOnlyWhenEntitled
  <1>1. CallInv => ReachedOnlyWhenEntitled
    <2> SUFFICES ASSUME CallInv, NEW c \in reached, ~Ungated(c)
                 PROVE  h(c).serves /\ HasSpent(c) /\ Audited(c, "allow")
      BY DEF ReachedOnlyWhenEntitled
    <2>1. CallOK(c)
      BY DEF CallInv, Types
    <2>2. h(c).serves /\ Audited(c, "allow")
      BY <2>1 DEF CallOK, Behind
    <2> QED
      BY <2>1, <2>2 DEF CallOK
  <1> QED
    BY <1>1, CallInductiveClient, PTL

\* A refusal that leaves no event has spent no nonce.
THEOREM FreeRefusals == ClientSpec => []UnauditedRefusalsAreFree
  <1>1. CallInv => UnauditedRefusalsAreFree
    <2> SUFFICES ASSUME CallInv, NEW c \in Calls, pc[c] = "ended", HasSpent(c),
                        ~Audited(c, "allow"), ~Audited(c, "deny")
                 PROVE  outcome[c] \in {"audit_sink", "dropped"}
      BY DEF UnauditedRefusalsAreFree
    <2>1. CallOK(c)
      BY DEF CallInv
    <2>2. EndedAs(c, outcome[c]) /\ decision[c] # "pending"
      BY <2>1 DEF CallOK
    <2> QED
      BY <2>2 DEF EndedAs, Behind
  <1> QED
    BY <1>1, CallInductiveClient, PTL

\* One nonce gives one allow, whatever entry points share the store.
THEOREM OneAllow == ClientSpec => []OneAllowPerNonce
  <1>1. CallInv => OneAllowPerNonce
    <2> SUFFICES ASSUME CallInv, NEW c \in Calls, NEW d \in Calls,
                        Audited(c, "allow"), Audited(d, "allow"),
                        StoreOf(c) = StoreOf(d), message[c].nonce = message[d].nonce
                 PROVE  c = d
      BY DEF OneAllowPerNonce
    <2>1. HasSpent(c) /\ HasSpent(d)
      BY DEF CallInv, CallOK
    <2>2. PICK s \in spent : s.by = c
      BY <2>1 DEF HasSpent
    <2>3. PICK t \in spent : t.by = d
      BY <2>1 DEF HasSpent
    <2> QED
      BY <2>2, <2>3 DEF CallInv, SpentOnce
  <1> QED
    BY <1>1, CallInductiveClient, PTL

\* What the answer of an ended call says of its events.
LEMMA EndedFacts ==
    ASSUME CallInv, NEW c \in Calls, Answered(c)
    PROVE  /\ outcome[c] \in DOMAIN h(c).answers
           /\ outcome[c] # "audit_sink" =>
                 /\ outcome[c] = "allow" <=> Audited(c, "allow") /\ ~h(c).serves
                 /\ outcome[c] = "deny" <=> Audited(c, "deny")
           /\ \A d \in {"allow", "deny"} : Audited(c, d) => d = decision[c]
           /\ outcome[c] = "served" => Behind(c)
           /\ outcome[c] = "pass_through" =>
                 message[c].defects \cap {"not_utf8", "not_tool_call"} # {}
           /\ Audited(c, "allow") =>
                 outcome[c] \in {"allow", "served", "bad_gateway", "audit_sink"}
  <1>1. CallOK(c)
    BY DEF CallInv
  <1>2. EndedAs(c, outcome[c]) /\ outcome[c] # "dropped"
    BY <1>1 DEF CallOK, Answered
  <1>3. /\ Audited(c, "allow") => decision[c] = "allow"
        /\ Audited(c, "deny") => decision[c] = "deny"
    BY <1>1 DEF CallOK
  <1> QED
    BY <1>2, <1>3 DEF EndedAs, Behind, Refusals

\* What the client reads agrees with the audit log, and the answer to a failing
\* sink reads as neither verdict.
THEOREM AnswersAgree == ClientSpec => []AnswersMatchAudit
  <1>1. CallInv => AnswersMatchAudit
    <2> SUFFICES ASSUME CallInv, NEW c \in Calls, Answered(c)
                 PROVE  IF outcome[c] = "audit_sink"
                        THEN /\ Answer(c) \notin {"200", "result", "ok",
                                                  "403", "-32001", "denied"}
                             /\ \A d \in {"allow", "deny"} : Audited(c, d) => d = decision[c]
                        ELSE /\ Answer(c) \in {"200", "result", "ok"} <=>
                                    Audited(c, "allow") /\ ~h(c).serves
                             /\ (Answer(c) \in {"403", "-32001", "denied"}
                                     /\ outcome[c] # "throttled") <=> Audited(c, "deny")
      BY DEF AnswersMatchAudit
    <2>1. AnswersOK(h(c).answers)
      BY CallHandler DEF CallInv, HandlerOK, h
    <2>2. /\ Answer(c) \in {"200", "result", "ok"} <=> outcome[c] = "allow"
          /\ (Answer(c) \in {"403", "-32001", "denied"} /\ outcome[c] # "throttled")
                 <=> outcome[c] = "deny"
      BY <2>1, EndedFacts DEF AnswersOK, Answer
    <2> QED
      BY <2>2, EndedFacts
  <1> QED
    BY <1>1, CallInductiveClient, PTL

\* Leases are held exactly while guarded handlers evaluate, and never more than
\* the limit for one tuple.
THEOREM LeasesBounded == ClientSpec => []LeasesMatchEvaluations
  BY CallInductiveClient, PTL DEF CallInv, LeaseInv

\* Every variable has its type, and every end is one the handler can answer.
THEOREM AdaptersTypeCorrect == ClientSpec => []TypeOK
  <1>1. CallInv => TypeOK
    <2> SUFFICES ASSUME CallInv PROVE TypeOK
      OBVIOUS
    <2>1. leases \subseteq Calls
      BY DEF CallInv, LeaseInv, LeasesMatchEvaluations
    <2>2. \A c \in Calls : IF pc[c] = "ended"
                           THEN outcome[c] \in DOMAIN h(c).answers \cup {"dropped"}
                           ELSE outcome[c] = "none"
      BY DEF CallInv, CallOK, EndedAs
    <2> QED
      BY <2>1, <2>2 DEF CallInv, Types, TypeOK
  <1> QED
    BY <1>1, CallInductiveClient, PTL

-------------------------------------------------------------------------------
(***************************************************************************)
(* The client                                                               *)
(***************************************************************************)

\* How the client reads the bodies of each protocol.
LEMMA Readings ==
    /\ Read("http", NotJson) = "invalid_response"
    /\ Read("mcp", NotJson) = "invalid_response"
    /\ Read("a2a", NotJson) = "invalid_response"
    /\ Read("http", HttpBody(TRUE)) = "allowed"
    /\ Read("http", HttpBody(FALSE)) = "not_allowed"
    /\ Read("mcp", RpcResult(TRUE)) = "allowed"
    /\ Read("mcp", RpcError) = "not_allowed"
    /\ Read("a2a", A2aBody("ok")) = "allowed"
    /\ \A status \in {"denied", "error"} : Read("a2a", A2aBody(status)) = "not_allowed"
  <1> USE DEF NotJson, HttpBody, RpcResult, RpcError, A2aBody, Body, Told
  <1>1. /\ \A b : Read("http", b) = parse_http_trust_response(b)
        /\ \A b : Read("mcp", b) = ReadMcp(b)
        /\ \A b : Read("a2a", b) = ReadA2a(b)
    BY DEF Read
  <1>2. /\ Read("http", NotJson) = "invalid_response"
        /\ Read("http", HttpBody(TRUE)) = "allowed"
        /\ Read("http", HttpBody(FALSE)) = "not_allowed"
    BY <1>1 DEF parse_http_trust_response
  <1>3. /\ Read("mcp", NotJson) = "invalid_response"
        /\ Read("mcp", RpcResult(TRUE)) = "allowed"
        /\ Read("mcp", RpcError) = "not_allowed"
    BY <1>1 DEF ReadMcp
  <1>4. /\ Read("a2a", NotJson) = "invalid_response"
        /\ Read("a2a", A2aBody("ok")) = "allowed"
        /\ \A status \in {"denied", "error"} : Read("a2a", A2aBody(status)) = "not_allowed"
    BY <1>1 DEF ReadA2a
  <1> QED
    BY <1>2, <1>3, <1>4

\* The conclusion the client comes to is the outcome at the server, or that it
\* cannot tell: whether a body it did not expect is an allow is never guessed.
\* What the inner service says of a request it was handed is its own affair.
LEMMA ReadFacts ==
    ASSUME CallInv, NEW c \in Calls, Answered(c), outcome[c] # "pass_through",
           outcome[c] = "served" => h(c).serves,
           NEW b \in Bodies(c) \cup {NotJson}
    PROVE  /\ Read(Protocol(c), b) = "allowed" => outcome[c] \in {"allow", "served"}
           /\ Read(Protocol(c), b) = "not_allowed" => outcome[c] # "allow"
  <1> DEFINE o == outcome[c]
             d == message[c].door
  <1>1. o \in DOMAIN h(c).answers /\ d \in Doors
    BY EndedFacts, CallHandler DEF CallInv, Message
  <1>2. CASE d \in {"http", "http_async"}
    <2>1. h(c).answers = HttpAnswers
      BY <1>2 DEF h, Handler, HttpHandler, HttpAsyncHandler
    <2>2. /\ Answer(c) \in {"200", "400", "403", "429", "500"}
          /\ Answer(c) = "200" <=> o = "allow"
          /\ o # "served"
      BY <1>1, <2>1 DEF Answer, HttpAnswers
    <2>3. Protocol(c) = "http"
      BY <1>2 DEF Protocol
    <2>4. Bodies(c) = {HttpBody(Answer(c) = "200")}
      BY <1>2, <2>2, <2>3 DEF Bodies
    <2>5. CASE o = "allow"
      <3>1. Bodies(c) = {HttpBody(TRUE)}
        BY <2>2, <2>4, <2>5
      <3> QED
        BY <2>3, <2>5, <3>1, Readings
    <2>6. CASE o # "allow"
      <3>1. Bodies(c) = {HttpBody(FALSE)}
        BY <2>2, <2>4, <2>6
      <3> QED
        BY <2>2, <2>3, <2>6, <3>1, Readings
    <2> QED
      BY <2>5, <2>6
  <1>3. CASE d = "axum"
    <2>1. h(c).answers = AxumAnswers
      BY <1>3 DEF h, Handler, TrustService
    <2>2. /\ Answer(c) \in {"403", "400", "413", "500", "served"}
          /\ Answer(c) = "served" <=> o = "served"
          /\ o # "allow"
      BY <1>1, <2>1 DEF Answer, AxumAnswers
    <2>3. Protocol(c) = "http"
      BY <1>3 DEF Protocol
    <2>4. CASE o = "served"
      BY <2>2, <2>4
    <2>5. CASE o # "served"
      <3>1. Bodies(c) = {HttpBody(Answer(c) = "200")}
        BY <1>3, <2>2, <2>3, <2>5 DEF Bodies
      <3>2. Bodies(c) = {HttpBody(FALSE)}
        BY <2>2, <3>1
      <3> QED
        BY <2>2, <2>3, <2>5, <3>2, Readings
    <2> QED
      BY <2>4, <2>5
  <1>4. CASE d \in {"mcp", "mcp_async", "proxy"}
    <2>1. /\ d \in {"mcp", "mcp_async"} => h(c).answers = McpAnswers
          /\ d = "proxy" => h(c).answers = ProxyAnswers /\ ~h(c).serves
      BY <1>4 DEF h, Handler, HttpHandler, McpHandler, McpAsyncHandler, ProxyHandler
    <2>2. /\ o # "served"
          /\ \/ o \in DOMAIN McpAnswers /\ Answer(c) = McpAnswers[o]
             \/ d = "proxy" /\ o \in {"too_large", "bad_gateway"} /\ Answer(c) \in {"413", "502"}
      <3>1. o # "served"
        <4>1. "served" \notin DOMAIN McpAnswers
          BY DEF McpAnswers
        <4> QED
          BY <1>1, <1>4, <2>1, <4>1
      <3>2. CASE d \in {"mcp", "mcp_async"}
        BY <1>1, <2>1, <3>1, <3>2 DEF Answer
      <3>3. CASE d = "proxy"
        BY <1>1, <2>1, <3>1, <3>3 DEF Answer, ProxyAnswers
      <3> QED
        BY <1>4, <3>1, <3>2, <3>3
    <2>3. Protocol(c) = "mcp"
      BY <1>4 DEF Protocol
    <2>4. CASE d = "proxy" /\ o \in {"too_large", "bad_gateway"} /\ Answer(c) \in {"413", "502"}
      <3>1. Bodies(c) = {NotJson}
        BY <2>3, <2>4 DEF Bodies
      <3> QED
        BY <2>3, <3>1, Readings
    <2>5. CASE o \in DOMAIN McpAnswers /\ Answer(c) = McpAnswers[o]
      <3>1. /\ Answer(c) \in {"result", "-32001", "-32700", "-32600", "-32602", "-32029",
                               "-32603"}
            /\ Answer(c) = "result" <=> o = "allow"
        BY <2>5 DEF McpAnswers
      <3>2. CASE o = "allow"
        <4>1. Bodies(c) = {RpcResult(TRUE)}
          BY <2>3, <3>1, <3>2 DEF Bodies
        <4> QED
          BY <2>3, <3>2, <4>1, Readings
      <3>3. CASE o # "allow"
        <4>1. Bodies(c) = {RpcError}
          BY <2>3, <3>1, <3>3 DEF Bodies
        <4> QED
          BY <2>2, <2>3, <3>3, <4>1, Readings
      <3> QED
        BY <3>2, <3>3
    <2> QED
      BY <2>2, <2>4, <2>5
  <1>5. CASE d \in {"a2a", "a2a_async"}
    <2>1. h(c).answers = A2aAnswers
      BY <1>5 DEF h, Handler, HttpHandler, McpHandler, A2aHandler, A2aAsyncHandler
    <2>2. /\ Answer(c) \in {"ok", "denied", "error"}
          /\ Answer(c) = "ok" <=> o = "allow"
          /\ o # "served"
      BY <1>1, <2>1 DEF Answer, A2aAnswers
    <2>3. Protocol(c) = "a2a"
      BY <1>5 DEF Protocol
    <2>4. Bodies(c) = {A2aBody(Answer(c))}
      BY <1>5, <2>2, <2>3 DEF Bodies
    <2> QED
      BY <2>2, <2>3, <2>4, Readings
  <1> QED
    BY <1>1, <1>2, <1>3, <1>4, <1>5 DEF Doors

\* What the client's own state needs, given the calls'.
ClientInv ==
    /\ conclusion \in [Calls -> Conclusions \cup {"foreign", "unsent", "waiting"}]
    /\ \A c \in Calls :
          /\ conclusion[c] \in {"allowed", "not_allowed", "invalid_response"} => Answered(c)
          /\ ~Posted(c) => pc[c] = "sent"
          /\ conclusion[c] # "foreign" => message[c] \in LibraryMessages
          /\ (conclusion[c] = "allowed" /\ ~NotGated(c)) => Audited(c, "allow")
          /\ (conclusion[c] = "not_allowed" /\ ~NotGated(c) /\ Audited(c, "allow")) =>
                 outcome[c] \in {"served", "audit_sink"}

\* Nothing is concluded before anything is posted.
LEMMA InitClientInv == ClientInit => ClientInv
  <1> SUFFICES ASSUME ClientInit PROVE ClientInv
    OBVIOUS
  <1>1. \/ conclusion = [c \in Calls |-> "foreign"]
        \/ /\ conclusion = [c \in Calls |-> "unsent"]
           /\ \A c \in Calls : message[c] \in LibraryMessages
    BY DEF ClientInit
  <1>2. \A c \in Calls : pc[c] = "sent"
    BY DEF ClientInit, Init
  <1> QED
    BY <1>1, <1>2 DEF ClientInv, Conclusions, Posted

\* A call that has ended does nothing more, and no call does anything to another.
LEMMA ProceedFrame ==
    ASSUME CallInv, NEW c \in Calls, Proceed(c)
    PROVE  /\ pc[c] # "ended"
           /\ message' = message
           /\ \A d \in Calls \ {c} :
                 /\ pc'[d] = pc[d] /\ outcome'[d] = outcome[d]
                 /\ Audited(d, "allow")' <=> Audited(d, "allow")
  <1> USE DEF CallInv, Types
  <1>1. /\ message' = message
        /\ \E from \in ProgramCounters \ {"ended"} : \E to \in ProgramCounters :
              pc[c] = from /\ pc' = [pc EXCEPT ![c] = to]
        /\ outcome' = outcome \/ \E o : outcome' = [outcome EXCEPT ![c] = o]
        /\ audit' = audit \/ audit' = audit \cup {[call |-> c, decision |-> decision[c]]}
    <2>1. CASE RefuseRuntimeConfig(c) \/ Receive(c)
      BY <2>1 DEF RefuseRuntimeConfig, Receive, End, Goto, ProgramCounters
    <2>2. CASE EnterGuard(c) \/ Throttle(c) \/ EncodeFails(c)
      BY <2>2 DEF EnterGuard, Throttle, EncodeFails, End, Goto, ProgramCounters
    <2>3. CASE ConsumeNonce(c) \/ Deny(c) \/ WriteAudit(c) \/ AuditFails(c)
      BY <2>3 DEF ConsumeNonce, Deny, WriteAudit, AuditFails, End, Goto, ProgramCounters
    <2>4. CASE Deliver(c) \/ Serve(c) \/ UpstreamFails(c) \/ Drop(c)
      BY <2>4 DEF Deliver, Serve, UpstreamFails, Drop, End, Goto, ProgramCounters
    <2> QED
      BY <2>1, <2>2, <2>3, <2>4 DEF Proceed, Handle
  <1>2. \A d \in Calls \ {c} : Audited(d, "allow")' <=> Audited(d, "allow")
    BY <1>1 DEF Audited
  <1> QED
    BY <1>1, <1>2

\* Reading an answer: the only step at which an attempt comes to believe.
LEMMA ReadAnswerClientInv ==
    ASSUME CallInv, ClientInv, NEW c \in Calls, ReadAnswer(c)
    PROVE  ClientInv'
  <1>1. /\ conclusion[c] = "waiting" /\ Answered(c)
        /\ UNCHANGED vars
    BY DEF ReadAnswer, Conclude
  <1>2. PICK b \in Bodies(c) \cup {NotJson} :
            conclusion' = [conclusion EXCEPT ![c] = Read(Protocol(c), b)]
    BY DEF ReadAnswer, Conclude
  <1> DEFINE what == Read(Protocol(c), b)
  <1>3. what \in {"allowed", "not_allowed", "invalid_response"}
    <2>1. Protocol(c) \in {"http", "mcp", "a2a"}
      BY CallHandler DEF CallInv, Message, Doors, Protocol
    <2> QED
      BY <2>1 DEF Read, parse_http_trust_response, ReadMcp, ReadA2a, Told
  <1>4. ASSUME ~NotGated(c)
        PROVE  /\ what = "allowed" => Audited(c, "allow")
               /\ (what = "not_allowed" /\ Audited(c, "allow")) =>
                      outcome[c] \in {"served", "audit_sink"}
    <2>1. message[c] \in LibraryMessages
      BY <1>1 DEF ClientInv
    <2>2. message[c].defects = {}
      BY <1>4, <2>1, LibraryAssumption DEF NotGated
    <2>3. outcome[c] # "pass_through" /\ ~Ungated(c)
      BY <1>1, <2>2, EndedFacts DEF Ungated
    <2>4. outcome[c] = "served" => h(c).serves /\ Audited(c, "allow")
      BY <1>1, <2>3, EndedFacts DEF Behind
    <2>5. /\ what = "allowed" => outcome[c] \in {"allow", "served"}
          /\ what = "not_allowed" => outcome[c] # "allow"
      BY <1>1, <2>3, <2>4, ReadFacts
    <2>6. Audited(c, "allow") => outcome[c] # "bad_gateway"
      <3>1. ASSUME outcome[c] = "bad_gateway", Audited(c, "allow")
            PROVE  FALSE
        <4>1. h(c).serves
          BY <1>1, <3>1, EndedFacts
        <4>2. HandlerOK(message[c].door)
          BY CallHandler DEF CallInv
        <4>3. message[c].door = "axum"
          BY <4>1, <4>2 DEF HandlerOK, h
        <4>4. h(c).answers = AxumAnswers
          BY <4>3 DEF h, Handler, TrustService
        <4> QED
          BY <1>1, <3>1, <4>4, EndedFacts DEF AxumAnswers
      <3> QED
        BY <3>1
    <2> HIDE DEF what
    <2> QED
      BY <1>1, <2>4, <2>5, <2>6, EndedFacts
  <1>5. \A d \in Calls : /\ Answered(d)' <=> Answered(d)
                         /\ NotGated(d)' <=> NotGated(d)
                         /\ Audited(d, "allow")' <=> Audited(d, "allow")
                         /\ message'[d] = message[d] /\ pc'[d] = pc[d]
                         /\ outcome'[d] = outcome[d]
    BY <1>1 DEF vars, Answered, NotGated, Audited
  <1> HIDE DEF what
  <1>6. conclusion' = [conclusion EXCEPT ![c] = what]
    BY <1>2 DEF what
  <1> QED
    BY <1>1, <1>3, <1>4, <1>5, <1>6 DEF ClientInv, Conclusions, Posted

\* Posting, giving up, and the steps of the calls.
LEMMA OtherClientInv ==
    ASSUME CallInv, ClientInv, NEW c \in Calls,
           \/ Post(c) \/ RefuseExtraParams(c) \/ NetworkFails(c)
           \/ Arrived(c) /\ Proceed(c)
    PROVE  ClientInv'
  <1>1. CASE Post(c) \/ RefuseExtraParams(c) \/ NetworkFails(c)
    <2>1. UNCHANGED vars
      BY <1>1 DEF Post, RefuseExtraParams, NetworkFails, Conclude
    <2>2. PICK what \in {"waiting", "serialization", "network"} :
              /\ conclusion' = [conclusion EXCEPT ![c] = what]
              /\ conclusion[c] \in {"unsent", "waiting"}
              /\ what = "serialization" => conclusion[c] = "unsent"
      BY <1>1 DEF Post, RefuseExtraParams, NetworkFails, Conclude
    <2>3. \A d \in Calls : /\ Answered(d)' <=> Answered(d)
                           /\ NotGated(d)' <=> NotGated(d)
                           /\ Audited(d, "allow")' <=> Audited(d, "allow")
                           /\ message'[d] = message[d] /\ pc'[d] = pc[d]
                           /\ outcome'[d] = outcome[d]
      BY <2>1 DEF vars, Answered, NotGated, Audited
    <2> QED
      BY <2>2, <2>3 DEF ClientInv, Conclusions, Posted
  <1>2. CASE Arrived(c) /\ Proceed(c)
    <2>1. Posted(c) /\ conclusion' = conclusion
      BY <1>2 DEF Arrived
    <2>2. ~Answered(c)
      BY <1>2, ProceedFrame DEF Answered
    <2>3. conclusion[c] \notin {"allowed", "not_allowed", "invalid_response"}
      BY <2>2 DEF ClientInv
    <2>4. \A d \in Calls \ {c} : /\ Answered(d)' <=> Answered(d)
                                 /\ Audited(d, "allow")' <=> Audited(d, "allow")
                                 /\ pc'[d] = pc[d] /\ outcome'[d] = outcome[d]
      BY <1>2, ProceedFrame DEF Answered
    <2>5. \A d \in Calls : message'[d] = message[d] /\ (NotGated(d)' <=> NotGated(d))
      BY <1>2, ProceedFrame DEF NotGated
    <2>6. \A d \in Calls : Posted(d)' <=> Posted(d)
      BY <2>1 DEF Posted
    <2> QED
      BY <2>1, <2>3, <2>4, <2>5, <2>6 DEF ClientInv
  <1> QED
    BY <1>1, <1>2

\* A client that is told "allowed" holds the one allow of its nonce; one that is
\* told by signet that it is refused has none, unless the sink failed behind the
\* event.  What it cannot read or never gets is an error.
THEOREM ConclusionsAgree == ClientSpec => []ConclusionsAgreeWithAudit
  <1>1. CallInv /\ ClientInv /\ [ClientNext]_clientVars => ClientInv'
    <2>1. ClientInv /\ UNCHANGED clientVars => ClientInv'
      BY DEF ClientInv, clientVars, vars, Answered, Posted, NotGated, Audited
    <2> QED
      BY <2>1, ReadAnswerClientInv, OtherClientInv DEF ClientNext
  <1>2. CallInv /\ ClientInv /\ TypeOK => ConclusionsAgreeWithAudit
    BY DEF CallInv, CallOK, ClientInv, ClientTypeOK, ConclusionsAgreeWithAudit
  <1> QED
    BY <1>1, <1>2, InitClientInv, CallInductiveClient, AdaptersTypeCorrect, PTL
       DEF ClientSpec
===============================================================================
