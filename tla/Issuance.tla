------------------------------ MODULE Issuance ------------------------------
(***************************************************************************)
(* Issuing and using delegations: the builders of src/src/issuance.rs run by  *)
(* the threads of one process, the discovery service that publishes what     *)
(* they build, and the requests that can be made of it, judged by            *)
(* RequestChecks.  TrustEvaluation has the stages and the store; here every   *)
(* nonce is fresh and nobody is revoked or denied.                            *)
(*                                                                          *)
(* The threads share ISSUANCE_COUNTER, which starts at 1 with the process.    *)
(* unique_suffix takes a number from it and then reads the clock; a restart   *)
(* takes at least a tick of the clock.                                        *)
(***************************************************************************)
EXTENDS Discovery

CONSTANTS
    Threads,
    Keys,             \* signing keys; a key also stands for its public half
    TokenOrders,      \* what callers set on a DelegationTokenBuilder, and its signing key
    DocumentOrders,   \* ... on an AgentIdentityDocumentBuilder, and its signing key
    Presentations,    \* how a token and a document are made into a request and judged
    Metadata,         \* what issuers register about themselves
    SevenDays,        \* the default lifetime of a document, in ticks
    MaxTime, MaxCount, MaxTokens, MaxDocuments    \* bounds

(***************************************************************************)
(* The builders' fields: an Option for each that a setter assigns, a set or a *)
(* sequence for each that a setter appends to.                               *)
(***************************************************************************)
Option(S) == {o \in SUBSET S : \A v, w \in o : v = w}
Ids == {BlankId} \cup {<<s>> : s \in {"given", "other"}}
Text == Option(STRING)
Texts == SUBSET STRING
Lifetime == Option(Int)
Times == Option(Nat)

TokenOrder ==
    [token_id : Option(Ids), nonce : Option(Ids), issuer : Text, agent_id : Text,
     delegator_id : Text, owner_id : Text, key_id : Text, intent : Text,
     audience : Texts, allowed_actions : Texts,
     calendar_ids : Option(Texts), email_domain_allowlist : Option(Texts),
     max_spend : Option([amount : Int, currency : STRING]),
     max_delegation_depth : Option(Nat),
     issued_at : Times, expires_at : Times, expires_in : Lifetime, signing_key : Keys]

DocumentOrder ==
    [agent_id : Text, display_name : Text, owner_id : Text, issuer : Text,
     identity_type : Text, subject : Text, key_id : Text,
     additional_public_keys : Seq([kid : STRING, key : Keys]),
     supported_protocols : Texts, supported_auth_methods : Texts,
     endpoints : Seq([protocol : STRING, url : STRING]),
     created_at : Times, expires_at : Times, expires_in : Lifetime, signing_key : Keys]

RuntimeContext ==
    [requested_spend : Option(Int), spend_currency : Text, target_email : Text,
     target_calendar_id : Text]

RequestOrder ==
    [request_id : Option(Ids), profile : Option({"developer", "oidc", "spiffe"}),
     agent_id : Text, delegator_id : Text, audience : Text, action : Text,
     resource : Text, runtime_context : Option(RuntimeContext)]

\* What is set on the RequestEnvelopeBuilder, but for its two parts; what happens
\* to the signed token on its way, an Option of a field and a value; and the
\* HostContext and the IdentityVerifier, an Option of the agents it vouches for,
\* of the evaluation.
PresentationFields == {"order", "alteration", "host", "verifier"}

\* Nobody signs with a key that is not theirs: whoever alters a signature is left
\* with something that is none.
Forges(p) == \E a \in p.alteration : a.field = "signature" /\ a.value.form = "ed25519"

ASSUME IssuanceAssumption ==
    /\ TokenOrders \subseteq TokenOrder
    /\ DocumentOrders \subseteq DocumentOrder
    /\ \A p \in Presentations :
          /\ DOMAIN p = PresentationFields /\ p.order \in RequestOrder /\ IsHostContext(p.host)
          /\ ~Forges(p)
    /\ "garbled" \notin Keys
    /\ SevenDays \in Nat \ {0}
    /\ \A b \in {MaxTime, MaxCount, MaxTokens, MaxDocuments} : b \in Nat

VARIABLES
    clock,
    counter,      \* ISSUANCE_COUNTER
    work,         \* what each thread is building
    suffixes,     \* the suffixes handed out,
    handed_out,   \* and how many
    issued,       \* the tokens built, each with its order and the signing key
    documents,    \* the documents built
    service       \* the discovery service

vars == <<clock, counter, work, suffixes, handed_out, issued, documents, service>>

Idle == [kind |-> "idle"]
The(option) == CHOOSE v \in option : TRUE
UnwrapOr(option, default) == IF option = None THEN default ELSE The(option)

Init ==
    /\ clock = 0
    /\ counter = 1
    /\ work = [t \in Threads |-> Idle]
    /\ suffixes = {} /\ handed_out = 0
    /\ issued = {} /\ documents = {}
    /\ service = NewService

Tick ==
    /\ clock < MaxTime
    /\ clock' = clock + 1
    /\ UNCHANGED <<counter, work, suffixes, handed_out, issued, documents, service>>

\* The process ends, with what its threads were building, and starts again.
Restart ==
    /\ clock < MaxTime
    /\ clock' = clock + 1
    /\ counter' = 1
    /\ work' = [t \in Threads |-> Idle]
    /\ UNCHANGED <<suffixes, handed_out, issued, documents, service>>

-------------------------------------------------------------------------------
(***************************************************************************)
(* unique_suffix.                                                           *)
(***************************************************************************)
FetchAdd(t, job) ==
    /\ work[t] = Idle
    /\ counter <= MaxCount
    /\ counter' = counter + 1
    /\ work' = [work EXCEPT ![t] = job]

\* Mutant: the counter alone.
CounterSuffix(count, nanos) == <<count, 0>>

Suffix(count, nanos) == <<count, nanos>>

HandOut(t, suffix) ==
    /\ suffixes' = suffixes \cup {suffix}
    /\ handed_out' = handed_out + 1
    /\ work' = [work EXCEPT ![t] = Idle]

-------------------------------------------------------------------------------
(***************************************************************************)
(* DelegationTokenBuilder::build_and_sign.                                   *)
(***************************************************************************)
ExpiresAt(o, start) ==
    IF o.expires_at # None THEN o.expires_at ELSE {start + d : d \in o.expires_in}

\* The order is complete; one that is not is answered with an IssuanceError.
BuildsToken(o, issued_at) ==
    /\ \A option \in {o.issuer, o.agent_id, o.delegator_id, o.owner_id, o.key_id} :
          option # None
    /\ o.audience # {} /\ o.allowed_actions # {}
    /\ \E e \in ExpiresAt(o, issued_at) : e > issued_at

BuildToken(o, issued_at, suffix) ==
    LET unsigned ==
        [spec_version |-> "0.1", kind |-> "DelegationToken",
         token_id |-> UnwrapOr(o.token_id, <<"dlg">> \o suffix),
         nonce |-> UnwrapOr(o.nonce, <<"nonce">> \o suffix),
         issuer |-> The(o.issuer), agent_id |-> The(o.agent_id),
         delegator_id |-> The(o.delegator_id), owner_id |-> The(o.owner_id),
         audience |-> o.audience, allowed_actions |-> o.allowed_actions,
         calendar_ids |-> o.calendar_ids,
         email_domain_allowlist |-> o.email_domain_allowlist,
         max_spend |-> o.max_spend, max_delegation_depth |-> o.max_delegation_depth,
         issued_at |-> issued_at, expires_at |-> The(ExpiresAt(o, issued_at)),
         intent |-> o.intent, key_id |-> The(o.key_id),
         signature_alg |-> "Ed25519", signature |-> NoSignature]
    IN  [unsigned EXCEPT !.signature = Sign(unsigned, o.signing_key)]

StartToken(t, o) ==
    LET issued_at == UnwrapOr(o.issued_at, clock) IN
    /\ BuildsToken(o, issued_at)
    /\ Cardinality(issued) < MaxTokens
    /\ FetchAdd(t, [kind |-> "token", order |-> o,
                    issued_at |-> issued_at, count |-> counter])
    /\ UNCHANGED <<clock, suffixes, handed_out, issued, documents, service>>

FinishToken(t) ==
    LET job == work[t]
        suffix == Suffix(job.count, clock)
    IN
    /\ job.kind = "token"
    /\ HandOut(t, suffix)
    /\ issued' = issued \cup
          {[token |-> BuildToken(job.order, job.issued_at, suffix),
            order |-> job.order]}
    /\ UNCHANGED <<clock, counter, documents, service>>

-------------------------------------------------------------------------------
(***************************************************************************)
(* AgentIdentityDocumentBuilder::build_and_sign: the signing key comes first. *)
(***************************************************************************)
DocumentExpiresAt(o, created_at) ==
    IF ExpiresAt(o, created_at) = None THEN Some(created_at + SevenDays)
    ELSE ExpiresAt(o, created_at)

BuildsDocument(o, created_at) ==
    /\ \A option \in {o.agent_id, o.owner_id, o.issuer, o.identity_type, o.subject, o.key_id} :
          option # None
    /\ \E e \in DocumentExpiresAt(o, created_at) : e > created_at
    /\ o.supported_protocols # {} /\ o.supported_auth_methods # {}
    /\ o.endpoints # <<>>

PublicKeyRecord(kid, key) ==
    [kid |-> kid, kty |-> "OKP", crv |-> Some("Ed25519"), x |-> Some(key)]

BuildDocument(o, created_at) ==
    LET more == o.additional_public_keys
        unsigned ==
        [spec_version |-> "0.1", kind |-> "AgentIdentityDocument",
         agent_id |-> The(o.agent_id), display_name |-> o.display_name,
         owner_id |-> The(o.owner_id), issuer |-> The(o.issuer),
         identity_type |-> The(o.identity_type), subject |-> The(o.subject),
         public_keys |-> <<PublicKeyRecord(The(o.key_id), o.signing_key)>> \o
             [i \in DOMAIN more |-> PublicKeyRecord(more[i].kid, more[i].key)],
         supported_protocols |-> o.supported_protocols,
         supported_auth_methods |-> o.supported_auth_methods,
         endpoints |-> o.endpoints, attestation |-> None,
         created_at |-> created_at,
         expires_at |-> The(DocumentExpiresAt(o, created_at)),
         signature |-> NoSignature]
    IN  [unsigned EXCEPT !.signature = Sign(unsigned, o.signing_key)]

IssueDocument(o) ==
    LET created_at == UnwrapOr(o.created_at, clock) IN
    /\ BuildsDocument(o, created_at)
    /\ documents' = documents \cup {BuildDocument(o, created_at)}
    /\ documents' # documents
    /\ Cardinality(documents) < MaxDocuments
    /\ UNCHANGED <<clock, counter, work, suffixes, handed_out, issued, service>>

-------------------------------------------------------------------------------
(***************************************************************************)
(* Discovery.                                                               *)
(***************************************************************************)
Register(new) ==
    /\ service' = new
    /\ UNCHANGED <<clock, counter, work, suffixes, handed_out, issued, documents>>

RegisterIssuer(m) == Register(register_issuer_metadata(service, m))
RegisterDocument(d) == Register(register_identity_document(service, d))

-------------------------------------------------------------------------------
(***************************************************************************)
(* RequestEnvelopeBuilder::build, of a token and the document the agent holds. *)
(***************************************************************************)
BuildsRequest(o) == o.audience # None /\ o.action # None

NoContext ==
    [requested_spend |-> None, spend_currency |-> None, target_email |-> None,
     target_calendar_id |-> None]

BuildRequest(o, document, token, request_id) ==
    [spec_version |-> "0.1", kind |-> "TrustRequestEnvelope",
     request_id |-> Some(request_id), profile |-> UnwrapOr(o.profile, "developer"),
     agent_id |-> UnwrapOr(o.agent_id, token.agent_id),
     delegator_id |-> UnwrapOr(o.delegator_id, token.delegator_id),
     audience |-> The(o.audience), action |-> The(o.action), resource |-> o.resource,
     runtime_context |-> UnwrapOr(o.runtime_context, NoContext),
     identity_document |-> Some(document), token |-> token]

\* A request that is given its id takes no number.
StartRequest(t, o) ==
    /\ BuildsRequest(o) /\ o.request_id = None
    /\ issued # {} /\ documents # {}
    /\ FetchAdd(t, [kind |-> "request", count |-> counter])
    /\ UNCHANGED <<clock, suffixes, handed_out, issued, documents, service>>

FinishRequest(t) ==
    /\ work[t].kind = "request"
    /\ HandOut(t, Suffix(work[t].count, clock))
    /\ UNCHANGED <<clock, counter, issued, documents, service>>

-------------------------------------------------------------------------------
(***************************************************************************)
(* The request a presentation p makes of an issued token g and a document d,  *)
(* whether that is registered still or not, and what is answered to it now.   *)
(***************************************************************************)
Altered(token, alteration) ==
    IF alteration = None THEN token
    ELSE [token EXCEPT ![The(alteration).field] = The(alteration).value]

Requested(p, g, d) ==
    BuildRequest(p.order, d, Altered(g.token, p.alteration),
                 UnwrapOr(p.order.request_id, <<"req">>))

Allowed(p, e) ==
    /\ BuildsRequest(p.order)
    /\ Authentic(e, p.host, p.verifier, clock)
    /\ Authorized(e, p.host, clock)

Next ==
    \/ Tick \/ Restart
    \/ \E t \in Threads :
          \/ \E o \in TokenOrders : StartToken(t, o)
          \/ FinishToken(t)
          \/ \E p \in Presentations : StartRequest(t, p.order)
          \/ FinishRequest(t)
    \/ \E o \in DocumentOrders : IssueDocument(o)
    \/ \E m \in Metadata : RegisterIssuer(m)
    \/ \E d \in documents : RegisterDocument(d)

Spec == Init /\ [][Next]_vars

-------------------------------------------------------------------------------
(***************************************************************************)
(* Properties                                                               *)
(***************************************************************************)
Jobs == {"idle", "token", "request"}

\* Every variable has its type; a number is in use by one thread at a time.
TypeOK ==
    /\ clock \in 0 .. MaxTime
    /\ counter \in 1 .. MaxCount + 1
    /\ \A t \in Threads : work[t].kind \in Jobs
    /\ \A t, u \in Threads :
          (t # u /\ work[t] # Idle /\ work[u] # Idle) => work[t].count # work[u].count
    /\ \A t \in Threads : work[t] # Idle => work[t].count < counter
    /\ \A a \in DOMAIN service.registry : service.registry[a] \in documents
    /\ \A g \in issued : g.order \in TokenOrders

\* "A unique token_id and nonce are generated": whatever the threads of an
\* issuing process do in one tick of its clock, and over its restarts, no two
\* suffixes are the same.
UniqueIds == TypeOK /\ Cardinality(suffixes) = handed_out

\* Whatever is done to a token after it was signed, and whichever document it
\* is presented with, an allowed request stays within what its issuer ordered:
\* its agent and delegator, an audience and an action of the order, its
\* spending limit and its lifetime, and its key is one the document lists.
AllowedIsGranted ==
    \A p \in Presentations, g \in issued, d \in documents :
        LET e == Requested(p, g, d)
            c == e.runtime_context
        IN  Allowed(p, e) =>
                /\ g.order.agent_id = Some(e.agent_id) /\ d.agent_id = e.agent_id
                /\ g.order.delegator_id = Some(e.delegator_id)
                /\ e.audience \in g.order.audience
                /\ apply_action_aliases(e, p.host).action \in g.order.allowed_actions
                /\ \A m \in g.order.max_spend, spend \in c.requested_spend :
                      spend <= m.amount /\ c.spend_currency = Some(m.currency)
                /\ clock < g.token.expires_at + p.host.clock_leeway_secs
                /\ \E i \in DOMAIN d.public_keys :
                      d.public_keys[i].x = Some(g.order.signing_key)

\* No kid is listed twice.
DistinctKids(d) ==
    \A i, j \in DOMAIN d.public_keys :
        d.public_keys[i].kid = d.public_keys[j].kid => i = j

\* The document speaks for the token: same parties, and its signing key is
\* listed, in whatever place, under the token's key_id.
SpeaksFor(d, g) ==
    /\ d.issuer = g.token.issuer /\ d.agent_id = g.token.agent_id
    /\ d.owner_id = g.token.owner_id
    /\ DistinctKids(d)
    /\ \E i \in DOMAIN d.public_keys :
          d.public_keys[i].kid = g.token.key_id /\ d.public_keys[i].x = Some(g.order.signing_key)

\* What the library builds it accepts: a token that was not altered, in a
\* request for its audience, with a document that speaks for it, whether or not
\* that document is still the registered one, presented the first time while
\* both are live, is allowed exactly if the policy preview passes, which refuses
\* the blank texts and the empty lists that the builders take.  The premises name
\* the exceptions: a kid listed twice, of which only the first key counts, and
\* action aliases, which the preview does not apply.
BuiltIsAccepted ==
    \A p \in Presentations, g \in issued, d \in documents :
        LET e == Requested(p, g, d) IN
        ( /\ BuildsRequest(p.order) /\ p.alteration = None
          /\ SpeaksFor(d, g)
          /\ e.agent_id = g.token.agent_id /\ e.delegator_id = g.token.delegator_id
          /\ e.audience \in g.token.audience
          /\ e.profile = "developer"
          /\ p.verifier = None \/ \E agents \in p.verifier : d.agent_id \in agents
          /\ g.token.issued_at <= clock /\ clock < g.token.expires_at
          /\ clock < d.expires_at
          /\ e.action \notin DOMAIN p.host.action_aliases )
        => (Allowed(p, e) <=> PreviewPasses(e, p.host))

Lookup(path, agent, protocol) ==
    [method |-> "GET", path |-> path, issuer |-> None, agent_id |-> Some(agent),
     protocol |-> protocol]

Ask(path, agent, protocol) ==
    handle_discovery_http_request(service, Lookup(path, agent, protocol))

\* Whatever is registered over what, the endpoints tell one story about an
\* agent, where its id is not blank: each protocol of the document the registry
\* serves that is not blank resolves to a url the document gives for it; no
\* document the library built makes the JWKS endpoint fail; and a verifier that
\* works from the JWKS accepts the tokens that one with the document accepts.
DiscoveryAgrees ==
    \A agent \in DOMAIN service.registry \ {Blank} :
        \E d \in Ask("registry", agent, None).found :
            /\ d.agent_id = agent
            /\ \A i \in {j \in DOMAIN d.endpoints : d.endpoints[j].protocol # Blank} :
                  \E url \in Ask("resolve", agent, Some(d.endpoints[i].protocol)).found :
                      [d.endpoints[i] EXCEPT !.url = url]
                          \in {d.endpoints[j] : j \in DOMAIN d.endpoints}
            /\ Ask("jwks", agent, None).status_code = 200
            /\ DistinctKids(d) =>
                  \A g \in issued :
                      verify_delegation_token_signature(g.token, d) <=>
                          \E keys \in Ask("jwks", agent, None).found : \E i \in DOMAIN keys :
                              /\ keys[i].kid = g.token.key_id
                              /\ \E x \in keys[i].x : Verifies(g.token, x)
===============================================================================
