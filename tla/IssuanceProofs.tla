--------------------------- MODULE IssuanceProofs ---------------------------
(***************************************************************************)
(* Proofs about Issuance: generated ids are unique over threads and restarts, *)
(* an allowed request stays within what its issuer ordered, what the builders  *)
(* build is accepted, and the discovery endpoints agree.                       *)
(*                                                                          *)
(* IdInv is about unique_suffix, BuiltInv about where tokens, documents and    *)
(* the registry's entries come from.  The last three properties say of every   *)
(* state what the pure checks make of what was built, and follow from BuiltInv. *)
(***************************************************************************)
EXTENDS Issuance, FiniteSetTheorems, WellFoundedInduction, TLAPS

-------------------------------------------------------------------------------
(***************************************************************************)
(* IdInv                                                                    *)
(***************************************************************************)
TokenJobs ==
    {j \in [kind : {"token"}, order : TokenOrders, issued_at : Nat, count : Nat] :
        BuildsToken(j.order, j.issued_at)}
RequestJobs == [kind : {"request"}, count : Nat]

IdTypes ==
    /\ clock \in Nat /\ clock <= MaxTime
    /\ counter \in Nat /\ 1 <= counter /\ counter <= MaxCount + 1
    /\ work \in [Threads -> {Idle} \cup TokenJobs \cup RequestJobs]
    /\ IsFiniteSet(suffixes) /\ handed_out \in Nat

Busy(t) == work[t].kind # "idle"

\* A number is taken by one thread, and the counter is beyond it.
CountsTaken ==
    /\ \A t \in Threads : Busy(t) => work[t].count < counter
    /\ \A t, u \in Threads : t # u /\ Busy(t) /\ Busy(u) => work[t].count # work[u].count

\* A suffix of this tick of the clock has a number that is used up: no thread
\* holds it, and the counter is beyond it.  The counter starts over only with a
\* later tick.
UsedUp(n) == n < counter /\ \A t \in Threads : Busy(t) => work[t].count # n

SuffixesKnown ==
    \A s \in suffixes :
        \E n, nanos \in Nat :
            s = Suffix(n, nanos) /\ nanos <= clock /\ (nanos = clock => UsedUp(n))

IdInv ==
    /\ IdTypes /\ CountsTaken /\ SuffixesKnown
    /\ Cardinality(suffixes) = handed_out

-------------------------------------------------------------------------------
(***************************************************************************)
(* BuiltInv                                                                 *)
(***************************************************************************)
IsIssued(g) ==
    \E o \in TokenOrders, issued_at \in Nat, suffix \in Nat \X Nat :
        /\ BuildsToken(o, issued_at)
        /\ g = [token |-> BuildToken(o, issued_at, suffix), order |-> o]

IsDocument(d) ==
    \E o \in DocumentOrders, created_at \in Nat :
        BuildsDocument(o, created_at) /\ d = BuildDocument(o, created_at)

RegistryOK ==
    /\ DOMAIN service = {"issuer_metadata", "registry"}
    /\ \A a \in DOMAIN service.registry :
          service.registry[a] \in documents /\ service.registry[a].agent_id = a

BuiltInv ==
    /\ \A g \in issued : IsIssued(g)
    /\ \A d \in documents : IsDocument(d)
    /\ RegistryOK

-------------------------------------------------------------------------------
(***************************************************************************)
(* IdInv is inductive                                                       *)
(***************************************************************************)

\* Where a thread is, by its kind.
LEMMA JobFacts ==
    ASSUME IdTypes, NEW t \in Threads
    PROVE  /\ work[t] = Idle <=> ~Busy(t)
           /\ Busy(t) => work[t].count \in Nat
           /\ work[t].kind \in Jobs
           /\ work[t].kind = "token" => work[t] \in TokenJobs
           /\ work[t].kind = "request" => work[t] \in RequestJobs
  <1>1. work[t] \in {Idle} \cup TokenJobs \cup RequestJobs
    BY DEF IdTypes
  <1>2. CASE work[t] = Idle
    BY <1>2 DEF Idle, Busy, Jobs
  <1>3. CASE work[t] \in TokenJobs
    <2>1. work[t].kind = "token" /\ work[t].count \in Nat
      BY <1>3 DEF TokenJobs
    <2>2. work[t] # Idle
      BY <2>1 DEF Idle
    <2> QED
      BY <1>3, <2>1, <2>2 DEF Busy, Jobs
  <1>4. CASE work[t] \in RequestJobs
    <2>1. work[t].kind = "request" /\ work[t].count \in Nat
      BY <1>4 DEF RequestJobs
    <2>2. work[t] # Idle
      BY <2>1 DEF Idle
    <2> QED
      BY <1>4, <2>1, <2>2 DEF Busy, Jobs
  <1> QED
    BY <1>1, <1>2, <1>3, <1>4

LEMMA InitId == Init => IdInv
  <1> SUFFICES ASSUME Init PROVE IdInv
    OBVIOUS
  <1>1. MaxTime \in Nat /\ MaxCount \in Nat
    BY IssuanceAssumption
  <1>2. IsFiniteSet(suffixes) /\ Cardinality(suffixes) = 0
    BY FS_EmptySet DEF Init
  <1>3. \A t \in Threads : ~Busy(t)
    BY DEF Init, Busy, Idle
  <1>4. IdTypes
    BY <1>1, <1>2 DEF Init, IdTypes
  <1> QED
    BY <1>2, <1>3, <1>4 DEF Init, IdInv, CountsTaken, SuffixesKnown

\* A tick leaves all numbers to the past.
LEMMA TickId ==
    ASSUME IdInv, clock < MaxTime, clock' = clock + 1,
           \/ work' = work /\ counter' = counter
           \/ work' = [t \in Threads |-> Idle] /\ counter' = 1,
           UNCHANGED <<suffixes, handed_out>>
    PROVE  IdInv'
  <1>1. IdTypes'
    BY IssuanceAssumption DEF IdInv, IdTypes
  <1>2. CountsTaken'
    <2>1. CASE work' = work /\ counter' = counter
      BY <2>1 DEF IdInv, CountsTaken, Busy
    <2>2. CASE work' = [t \in Threads |-> Idle]
      BY <2>2 DEF CountsTaken, Busy, Idle
    <2> QED
      BY <2>1, <2>2
  <1>3. SuffixesKnown'
    <2> SUFFICES ASSUME NEW s \in suffixes
                 PROVE  \E n, nanos \in Nat :
                            s = Suffix(n, nanos) /\ nanos <= clock' /\ (nanos = clock' => UsedUp(n)')
      BY DEF SuffixesKnown, Suffix
    <2>1. PICK n, nanos \in Nat : s = Suffix(n, nanos) /\ nanos <= clock
      BY DEF IdInv, SuffixesKnown
    <2>2. nanos <= clock' /\ nanos # clock'
      BY <2>1 DEF IdInv, IdTypes
    <2> QED
      BY <2>1, <2>2
  <1> QED
    BY <1>1, <1>2, <1>3 DEF IdInv

\* fetch_add gives a thread a number that nobody has and nobody had this tick.
LEMMA FetchId ==
    ASSUME IdInv, NEW t \in Threads, NEW job \in TokenJobs \cup RequestJobs,
           job.count = counter, FetchAdd(t, job), UNCHANGED <<clock, suffixes, handed_out>>
    PROVE  IdInv'
  <1>1. /\ counter <= MaxCount /\ counter' = counter + 1
        /\ work'[t] = job /\ \A u \in Threads \ {t} : work'[u] = work[u]
    BY DEF FetchAdd, IdInv, IdTypes
  <1>2. IdTypes'
    BY IssuanceAssumption DEF FetchAdd, IdInv, IdTypes
  <1>3. /\ counter \in Nat /\ work'[t].count = counter
        /\ \A u \in Threads \ {t} : Busy(u)' <=> Busy(u)
        /\ \A u \in Threads : Busy(u) => work[u].count \in Nat /\ work[u].count < counter
    BY <1>1, JobFacts DEF IdInv, IdTypes, Busy, CountsTaken
  <1>4. CountsTaken'
    <2>1. ASSUME NEW u \in Threads, Busy(u)' PROVE work'[u].count < counter'
      BY <1>1, <1>3, <2>1
    <2>2. ASSUME NEW u \in Threads, NEW v \in Threads, u # v, Busy(u)', Busy(v)'
          PROVE  work'[u].count # work'[v].count
      BY <1>1, <1>3, <2>2 DEF IdInv, CountsTaken
    <2> QED
      BY <2>1, <2>2 DEF CountsTaken
  <1>5. SuffixesKnown'
    <2>1. ASSUME NEW n \in Nat, UsedUp(n) PROVE UsedUp(n)'
      BY <1>1, <1>3, <2>1 DEF UsedUp
    <2> QED
      BY <2>1 DEF IdInv, SuffixesKnown, Suffix
  <1> QED
    BY <1>2, <1>4, <1>5 DEF IdInv

\* The suffix that is handed out is a new one.
LEMMA HandOutId ==
    ASSUME IdInv, NEW t \in Threads, Busy(t), HandOut(t, Suffix(work[t].count, clock)),
           UNCHANGED <<clock, counter>>
    PROVE  IdInv'
  <1> DEFINE suffix == Suffix(work[t].count, clock)
  <1>1. /\ suffixes' = suffixes \cup {suffix} /\ handed_out' = handed_out + 1
        /\ work'[t] = Idle /\ \A u \in Threads \ {t} : work'[u] = work[u]
    BY DEF HandOut, IdInv, IdTypes
  <1>2. work[t].count \in Nat /\ clock \in Nat /\ counter \in Nat /\ work[t].count < counter
    BY JobFacts DEF IdInv, IdTypes, CountsTaken
  <1>3. suffix \notin suffixes
    <2> SUFFICES ASSUME suffix \in suffixes PROVE FALSE
      OBVIOUS
    <2>1. PICK n, nanos \in Nat :
            suffix = Suffix(n, nanos) /\ nanos <= clock /\ (nanos = clock => UsedUp(n))
      BY DEF IdInv, SuffixesKnown
    <2>2. n = work[t].count /\ nanos = clock
      BY <2>1 DEF Suffix
    <2> QED
      BY <2>1, <2>2 DEF UsedUp
  <1>4. /\ IsFiniteSet(suffixes') /\ Cardinality(suffixes') = Cardinality(suffixes) + 1
    BY <1>1, <1>3, FS_AddElement DEF IdInv, IdTypes
  <1>5. IdTypes'
    BY <1>1, <1>4 DEF HandOut, IdInv, IdTypes
  <1>6. ~Busy(t)' /\ \A u \in Threads \ {t} : Busy(u)' <=> Busy(u)
    BY <1>1 DEF Busy, Idle
  <1>7. CountsTaken'
    BY <1>1, <1>6 DEF IdInv, CountsTaken
  <1>8. SuffixesKnown'
    <2>1. ASSUME NEW n \in Nat, UsedUp(n) PROVE UsedUp(n)'
      BY <1>1, <1>6, <2>1 DEF UsedUp
    <2>2. PICK count \in Nat : count = work[t].count
      BY <1>2
    <2>3. UsedUp(count)'
      BY <1>1, <1>2, <1>6, <2>2 DEF UsedUp, IdInv, CountsTaken
    <2>4. ASSUME NEW s \in suffixes
          PROVE  \E n, nanos \in Nat :
                     s = Suffix(n, nanos) /\ nanos <= clock' /\ (nanos = clock' => UsedUp(n)')
      BY <2>1 DEF IdInv, SuffixesKnown
    <2>5. \E n, nanos \in Nat :
              suffix = Suffix(n, nanos) /\ nanos <= clock' /\ (nanos = clock' => UsedUp(n)')
      BY <1>2, <2>2, <2>3
    <2> QED
      BY <1>1, <2>4, <2>5 DEF SuffixesKnown, Suffix
  <1> QED
    BY <1>1, <1>4, <1>5, <1>7, <1>8 DEF IdInv

\* The time an order is built at: the clock's, or the one the caller set.
LEMMA UnwrapTime ==
    ASSUME NEW option \in Times, NEW default \in Nat
    PROVE  UnwrapOr(option, default) \in Nat
  BY DEF UnwrapOr, The, None, Times, Option

\* The Options of an order.
LEMMA OrderFacts ==
    ASSUME NEW o \in TokenOrders
    PROVE  /\ o.issued_at \in Times
           /\ o.agent_id \in Text /\ o.delegator_id \in Text
           /\ o.max_delegation_depth \subseteq Nat
           /\ o.signing_key \in Keys
  <1>1. o \in TokenOrder
    BY IssuanceAssumption
  <1>2. o.max_delegation_depth \in Option(Nat)
    BY <1>1 DEF TokenOrder
  <1>3. o.max_delegation_depth \subseteq Nat
    BY <1>2 DEF Option
  <1> QED
    BY <1>1, <1>3 DEF TokenOrder

LEMMA StepId == IdInv /\ [Next]_vars => IdInv'
  <1> SUFFICES ASSUME IdInv, [Next]_vars PROVE IdInv'
    OBVIOUS
  <1>1. CASE Tick \/ Restart
    <2>1. /\ clock < MaxTime /\ clock' = clock + 1 /\ UNCHANGED <<suffixes, handed_out>>
          /\ \/ work' = work /\ counter' = counter
             \/ work' = [t \in Threads |-> Idle] /\ counter' = 1
      BY <1>1 DEF Tick, Restart
    <2> QED
      BY <2>1, TickId
  <1>2. ASSUME NEW t \in Threads, NEW o \in TokenOrders, StartToken(t, o) PROVE IdInv'
    <2> DEFINE job == [kind |-> "token", order |-> o,
                       issued_at |-> UnwrapOr(o.issued_at, clock), count |-> counter]
    <2>1. UnwrapOr(o.issued_at, clock) \in Nat /\ counter \in Nat
      <3>1. o.issued_at \in Times
        BY OrderFacts
      <3>2. clock \in Nat /\ counter \in Nat
        BY DEF IdInv, IdTypes
      <3> QED
        BY <3>1, <3>2, UnwrapTime
    <2>2. job \in TokenJobs /\ job.count = counter
      <3>1. BuildsToken(o, UnwrapOr(o.issued_at, clock))
        BY <1>2 DEF StartToken
      <3> QED
        BY <2>1, <3>1 DEF TokenJobs
    <2>3. FetchAdd(t, job) /\ UNCHANGED <<clock, suffixes, handed_out>>
      BY <1>2 DEF StartToken
    <2> HIDE DEF job
    <2> QED
      BY <2>2, <2>3, FetchId
  <1>3. ASSUME NEW t \in Threads, NEW o, StartRequest(t, o) PROVE IdInv'
    <2> DEFINE job == [kind |-> "request", count |-> counter]
    <2>1. job \in RequestJobs /\ job.count = counter
      BY DEF RequestJobs, IdInv, IdTypes
    <2>2. FetchAdd(t, job) /\ UNCHANGED <<clock, suffixes, handed_out>>
      BY <1>3 DEF StartRequest
    <2> HIDE DEF job
    <2> QED
      BY <2>1, <2>2, FetchId
  <1>4. ASSUME NEW t \in Threads, FinishToken(t) \/ FinishRequest(t) PROVE IdInv'
    BY <1>4, HandOutId DEF FinishToken, FinishRequest, Busy
  <1>5. CASE UNCHANGED <<clock, counter, work, suffixes, handed_out>>
    BY <1>5 DEF IdInv, IdTypes, CountsTaken, SuffixesKnown, Busy, UsedUp, Suffix
  <1>6. CASE \/ \E o \in DocumentOrders : IssueDocument(o)
             \/ \E m \in Metadata : RegisterIssuer(m)
             \/ \E d \in documents : RegisterDocument(d)
             \/ UNCHANGED vars
    BY <1>5, <1>6 DEF IssueDocument, RegisterIssuer, RegisterDocument, Register, vars
  <1> QED
    BY <1>1, <1>2, <1>3, <1>4, <1>6 DEF Next

\* No number is held by two threads, and none that a suffix of this tick has.
THEOREM IdInductive == Spec => []IdInv
  BY InitId, StepId, PTL DEF Spec

-------------------------------------------------------------------------------
(***************************************************************************)
(* BuiltInv is inductive relative to IdInv                                  *)
(***************************************************************************)

\* The entries of a map after an insertion.
LEMMA InsertFacts ==
    ASSUME NEW map, NEW key, NEW value, NEW k \in DOMAIN Insert(map, key, value)
    PROVE  \/ k = key /\ Insert(map, key, value)[k] = value
           \/ k \in DOMAIN map /\ Insert(map, key, value)[k] = map[k]
  BY DEF Insert

LEMMA InitBuilt == Init => BuiltInv
  <1> SUFFICES ASSUME Init PROVE BuiltInv
    OBVIOUS
  <1>1. DOMAIN service = {"issuer_metadata", "registry"} /\ service.registry = EmptyMap
    BY DEF Init, NewService
  <1>2. DOMAIN EmptyMap = {}
    BY DEF EmptyMap
  <1> QED
    BY <1>1, <1>2 DEF Init, BuiltInv, RegistryOK

LEMMA FinishTokenBuilt ==
    ASSUME IdInv, BuiltInv, NEW t \in Threads, FinishToken(t)
    PROVE  BuiltInv'
  <1> DEFINE job == work[t]
             suffix == Suffix(job.count, clock)
             new == [token |-> BuildToken(job.order, job.issued_at, suffix), order |-> job.order]
  <1>1. /\ job.kind = "token" /\ issued' = issued \cup {new}
        /\ UNCHANGED <<documents, service>>
    BY DEF FinishToken
  <1>2. /\ job.order \in TokenOrders /\ job.issued_at \in Nat /\ suffix \in Nat \X Nat
        /\ BuildsToken(job.order, job.issued_at)
    <2>1. job \in TokenJobs /\ clock \in Nat
      BY <1>1, JobFacts DEF IdInv, IdTypes
    <2> QED
      BY <2>1 DEF TokenJobs, Suffix
  <1>3. IsIssued(new)
    BY <1>2 DEF IsIssued
  <1> HIDE DEF new
  <1>4. \A g \in issued' : IsIssued(g)
    BY <1>1, <1>3 DEF BuiltInv
  <1>5. (\A g \in issued : IsIssued(g))'
    BY <1>4 DEF IsIssued
  <1>6. (\A d \in documents : IsDocument(d))' /\ RegistryOK'
    BY <1>1 DEF BuiltInv, IsDocument, RegistryOK
  <1> QED
    BY <1>5, <1>6 DEF BuiltInv

LEMMA IssueDocumentBuilt ==
    ASSUME IdInv, BuiltInv, NEW o \in DocumentOrders, IssueDocument(o)
    PROVE  BuiltInv'
  <1> DEFINE created_at == UnwrapOr(o.created_at, clock)
             new == BuildDocument(o, created_at)
  <1>1. /\ BuildsDocument(o, created_at) /\ documents' = documents \cup {new}
        /\ UNCHANGED <<issued, service>>
    BY DEF IssueDocument
  <1>2. created_at \in Nat
    <2>1. o \in DocumentOrder
      BY IssuanceAssumption
    <2>2. o.created_at \in Times /\ clock \in Nat
      BY <2>1 DEF DocumentOrder, IdInv, IdTypes
    <2> QED
      BY <2>2, UnwrapTime
  <1> HIDE DEF created_at
  <1>3. IsDocument(new)
    BY <1>1, <1>2 DEF IsDocument
  <1> HIDE DEF new
  <1>4. \A d \in documents' : IsDocument(d)
    BY <1>1, <1>3 DEF BuiltInv
  <1>5. (\A d \in documents : IsDocument(d))'
    BY <1>4 DEF IsDocument
  <1>6. (\A g \in issued : IsIssued(g))' /\ RegistryOK'
    BY <1>1 DEF BuiltInv, IsIssued, RegistryOK
  <1> QED
    BY <1>5, <1>6 DEF BuiltInv

LEMMA RegisterBuilt ==
    ASSUME BuiltInv,
           \/ \E m \in Metadata : RegisterIssuer(m)
           \/ \E d \in documents : RegisterDocument(d)
    PROVE  BuiltInv'
  <1>1. UNCHANGED <<issued, documents>>
    BY DEF RegisterIssuer, RegisterDocument, Register
  <1>2. DOMAIN service = {"issuer_metadata", "registry"}
    BY DEF BuiltInv, RegistryOK
  <1>3. ASSUME NEW m, RegisterIssuer(m) PROVE RegistryOK'
    <2>1. service' = [service EXCEPT !.issuer_metadata = Insert(@, m.issuer, m)]
      BY <1>3 DEF RegisterIssuer, Register, register_issuer_metadata
    <2>2. DOMAIN service' = DOMAIN service /\ service'.registry = service.registry
      BY <1>2, <2>1
    <2> QED
      BY <1>1, <2>2 DEF BuiltInv, RegistryOK
  <1>4. ASSUME NEW d \in documents, RegisterDocument(d) PROVE RegistryOK'
    <2>1. service' = [service EXCEPT !.registry = Insert(@, d.agent_id, d)]
      BY <1>4 DEF RegisterDocument, Register, register_identity_document
    <2>2. /\ DOMAIN service' = DOMAIN service
          /\ service'.registry = Insert(service.registry, d.agent_id, d)
      BY <1>2, <2>1
    <2>3. ASSUME NEW a \in DOMAIN service'.registry
          PROVE  service'.registry[a] \in documents /\ service'.registry[a].agent_id = a
      <3>1. \/ a = d.agent_id /\ service'.registry[a] = d
            \/ a \in DOMAIN service.registry /\ service'.registry[a] = service.registry[a]
        BY <2>2, InsertFacts
      <3> QED
        BY <3>1 DEF BuiltInv, RegistryOK
    <2> QED
      BY <1>1, <1>2, <2>2, <2>3 DEF RegistryOK
  <1>5. RegistryOK'
    BY <1>3, <1>4
  <1>6. (\A g \in issued : IsIssued(g))' /\ (\A d \in documents : IsDocument(d))'
    BY <1>1 DEF BuiltInv, IsIssued, IsDocument
  <1> QED
    BY <1>5, <1>6 DEF BuiltInv

LEMMA StepBuilt == IdInv /\ BuiltInv /\ [Next]_vars => BuiltInv'
  <1> SUFFICES ASSUME IdInv, BuiltInv, [Next]_vars PROVE BuiltInv'
    OBVIOUS
  <1>1. CASE UNCHANGED <<issued, documents, service>>
    BY <1>1 DEF BuiltInv, IsIssued, IsDocument, RegistryOK
  <1>2. CASE \/ Tick \/ Restart \/ UNCHANGED vars
             \/ \E t \in Threads :
                   \/ \E o \in TokenOrders : StartToken(t, o)
                   \/ \E p \in Presentations : StartRequest(t, p.order)
                   \/ FinishRequest(t)
    BY <1>1, <1>2 DEF Tick, Restart, StartToken, StartRequest, FinishRequest, vars
  <1> QED
    BY <1>2, FinishTokenBuilt, IssueDocumentBuilt, RegisterBuilt DEF Next

\* Every token and document there is was built by the builders from an order, and
\* the registry serves documents under their own agents.
THEOREM BuiltInductive == Spec => []BuiltInv
  BY InitBuilt, StepBuilt, IdInductive, PTL DEF Spec

-------------------------------------------------------------------------------
(***************************************************************************)
(* UniqueIds                                                                *)
(***************************************************************************)

\* However threads interleave, and over restarts, unique_suffix never hands the
\* same suffix out twice.
THEOREM IdsUnique == Spec => []UniqueIds
  <1>1. IdInv /\ BuiltInv => UniqueIds
    <2> SUFFICES ASSUME IdInv, BuiltInv PROVE UniqueIds
      OBVIOUS
    <2>1. clock \in 0 .. MaxTime /\ counter \in 1 .. MaxCount + 1
      BY IssuanceAssumption DEF IdInv, IdTypes
    <2>2. /\ \A t \in Threads : work[t].kind \in Jobs
          /\ \A t \in Threads : work[t] # Idle => work[t].count < counter
          /\ \A t, u \in Threads :
                (t # u /\ work[t] # Idle /\ work[u] # Idle) => work[t].count # work[u].count
      BY JobFacts DEF IdInv, CountsTaken
    <2>3. \A g \in issued : g.order \in TokenOrders
      BY DEF BuiltInv, IsIssued
    <2>4. \A a \in DOMAIN service.registry : service.registry[a] \in documents
      BY DEF BuiltInv, RegistryOK
    <2> QED
      BY <2>1, <2>2, <2>3, <2>4 DEF UniqueIds, TypeOK, IdInv
  <1> QED
    BY <1>1, IdInductive, BuiltInductive, PTL

-------------------------------------------------------------------------------
(***************************************************************************)
(* What the builders build                                                  *)
(***************************************************************************)
LEMMA TokenFields ==
    ASSUME NEW o, NEW issued_at, NEW suffix, NEW t, t = BuildToken(o, issued_at, suffix)
    PROVE  /\ t.agent_id = The(o.agent_id) /\ t.delegator_id = The(o.delegator_id)
           /\ t.audience = o.audience /\ t.allowed_actions = o.allowed_actions
           /\ t.max_spend = o.max_spend /\ t.max_delegation_depth = o.max_delegation_depth
           /\ t.signature_alg = "Ed25519"
  BY DEF BuildToken

\* A token is signed with its order's key over everything else in it.
LEMMA TokenSignature ==
    ASSUME NEW o, NEW issued_at, NEW suffix, NEW t, t = BuildToken(o, issued_at, suffix)
    PROVE  /\ t.signature.form = "ed25519" /\ t.signature.key = o.signing_key
           /\ t.signature.payload = canonical_payload(t)
  BY DEF BuildToken, Sign, canonical_payload

TokenFieldNames ==
    {"spec_version", "kind", "token_id", "nonce", "issuer", "agent_id", "delegator_id",
     "owner_id", "audience", "allowed_actions", "calendar_ids", "email_domain_allowlist",
     "max_spend", "max_delegation_depth", "issued_at", "expires_at", "intent", "key_id",
     "signature_alg", "signature"}

LEMMA TokenDomain ==
    ASSUME NEW o, NEW issued_at, NEW suffix
    PROVE  DOMAIN BuildToken(o, issued_at, suffix) = TokenFieldNames
  BY DEF BuildToken, TokenFieldNames

LEMMA SeqElement == ASSUME NEW S, NEW s \in Seq(S), NEW i \in DOMAIN s PROVE s[i] \in S
  OBVIOUS

\* The keys a document lists are keys that somebody made.
LEMMA DocumentKeys ==
    ASSUME NEW o \in DocumentOrders, NEW created_at, NEW d, d = BuildDocument(o, created_at)
    PROVE  /\ \A i \in DOMAIN d.public_keys :
                 \E kid, key : key \in Keys /\ d.public_keys[i] = PublicKeyRecord(kid, key)
           /\ 1 \in DOMAIN d.public_keys /\ d.public_keys[1].x = Some(o.signing_key)
           /\ \E n \in Nat : DOMAIN d.public_keys = 1 .. n
  <1> DEFINE more == o.additional_public_keys
             rest == [i \in DOMAIN more |-> PublicKeyRecord(more[i].kid, more[i].key)]
             first == PublicKeyRecord(The(o.key_id), o.signing_key)
  <1>1. d.public_keys = <<first>> \o rest
    BY DEF BuildDocument
  <1>2. more \in Seq([kid : STRING, key : Keys]) /\ o.signing_key \in Keys
    <2>1. o \in DocumentOrder
      BY IssuanceAssumption
    <2> QED
      BY <2>1 DEF DocumentOrder
  <1>3. Len(more) \in Nat /\ DOMAIN more = 1 .. Len(more)
    BY <1>2
  <1>4. ASSUME NEW i \in DOMAIN more
        PROVE  more[i].key \in Keys
    <2>1. more[i] \in [kid : STRING, key : Keys]
      BY <1>2, <1>4, SeqElement, Zenon
    <2> QED
      BY <2>1
  <1> HIDE DEF more
  <1>5. rest \in Seq({PublicKeyRecord(more[i].kid, more[i].key) : i \in DOMAIN more})
        /\ Len(rest) = Len(more)
    BY <1>3
  <1>6. \A i \in DOMAIN rest : rest[i] = PublicKeyRecord(more[i].kid, more[i].key) /\ i \in DOMAIN more
    OBVIOUS
  <1> HIDE DEF rest, first
  <1>7. /\ DOMAIN (<<first>> \o rest) = 1 .. 1 + Len(rest)
        /\ (<<first>> \o rest)[1] = first
        /\ \A i \in 2 .. 1 + Len(rest) : (<<first>> \o rest)[i] = rest[i - 1] /\ i - 1 \in DOMAIN rest
    BY <1>3, <1>5
  <1>8. ASSUME NEW i \in DOMAIN d.public_keys
        PROVE  \E kid, key : key \in Keys /\ d.public_keys[i] = PublicKeyRecord(kid, key)
    <2>1. CASE i = 1
      BY <1>1, <1>2, <1>7, <2>1 DEF first
    <2>2. CASE i # 1
      <3>1. i \in 2 .. 1 + Len(rest)
        BY <1>1, <1>3, <1>5, <1>7, <2>2
      <3>2. i - 1 \in DOMAIN more
            /\ d.public_keys[i] = PublicKeyRecord(more[i - 1].kid, more[i - 1].key)
        BY <1>1, <1>6, <1>7, <3>1
      <3> QED
        BY <1>4, <3>2
    <2> QED
      BY <2>1, <2>2
  <1>9. 1 \in DOMAIN d.public_keys /\ d.public_keys[1].x = Some(o.signing_key)
    BY <1>1, <1>3, <1>5, <1>7 DEF first, PublicKeyRecord
  <1>10. \E n \in Nat : DOMAIN d.public_keys = 1 .. n
    BY <1>1, <1>3, <1>5, <1>7
  <1> QED
    BY <1>8, <1>9, <1>10

LEMMA DocumentSignature ==
    ASSUME NEW o, NEW created_at, NEW d, d = BuildDocument(o, created_at)
    PROVE  /\ d.signature.form = "ed25519" /\ d.signature.key = o.signing_key
           /\ d.signature.payload = canonical_payload(d)
  BY DEF BuildDocument, Sign, canonical_payload

\* The fields of a request, and of what the pipeline makes of it.
LEMMA RequestFields ==
    ASSUME NEW o, NEW d, NEW t, NEW id, NEW host, NEW e, e = BuildRequest(o, d, t, id)
    PROVE  LET a == apply_action_aliases(e, host) IN
           /\ e.token = t /\ e.identity_document = Some(d)
           /\ a.token = t /\ a.identity_document = Some(d)
           /\ a.agent_id = e.agent_id /\ a.delegator_id = e.delegator_id
           /\ a.audience = e.audience /\ a.runtime_context = e.runtime_context
           /\ a.profile = e.profile
           /\ e.action \notin DOMAIN host.action_aliases => a = e
  BY DEF BuildRequest, apply_action_aliases

-------------------------------------------------------------------------------
(***************************************************************************)
(* AllowedIsGranted                                                         *)
(***************************************************************************)

\* A token whose payload is the one that was signed has the fields that were signed.
LEMMA SamePayload ==
    ASSUME NEW t, NEW u, DOMAIN t = DOMAIN u, canonical_payload(t) = canonical_payload(u)
    PROVE  \A f \in DOMAIN t \ {"signature"} : t[f] = u[f]
  BY DEF canonical_payload

\* A token that verifies is the one that was signed, by the key it verifies with.
Unaltered(g, t, x) ==
    /\ x = g.order.signing_key
    /\ t.agent_id = g.token.agent_id /\ t.delegator_id = g.token.delegator_id
    /\ t.audience = g.token.audience /\ t.allowed_actions = g.token.allowed_actions
    /\ t.max_spend = g.token.max_spend /\ t.expires_at = g.token.expires_at

LEMMA VerifiedUnaltered ==
    ASSUME NEW p \in Presentations, NEW g, IsIssued(g),
           NEW t, t = Altered(g.token, p.alteration), NEW x, Verifies(t, x)
    PROVE  Unaltered(g, t, x)
  <1>1. PICK o \in TokenOrders, issued_at \in Nat, suffix \in Nat \X Nat :
          g = [token |-> BuildToken(o, issued_at, suffix), order |-> o]
    BY DEF IsIssued
  <1>2. g.token = BuildToken(o, issued_at, suffix) /\ g.order = o
    BY <1>1
  <1>3. /\ g.token.signature.key = g.order.signing_key
        /\ g.token.signature.payload = canonical_payload(g.token)
    BY <1>2, TokenSignature
  <1>4. DOMAIN g.token = TokenFieldNames
    BY <1>2, TokenDomain
  <1>5. t.signature = g.token.signature /\ DOMAIN t = DOMAIN g.token
    <2>1. CASE p.alteration = None
      BY <2>1 DEF Altered
    <2>2. CASE p.alteration # None
      <3>1. PICK a \in p.alteration : t = [g.token EXCEPT ![a.field] = a.value]
        BY <2>2 DEF Altered, The, None
      <3>2. a.field # "signature"
        <4>1. ~Forges(p) /\ t.signature.form = "ed25519"
          BY IssuanceAssumption DEF Verifies
        <4>2. a.field = "signature" => t.signature = a.value
          BY <1>4, <3>1 DEF TokenFieldNames
        <4> QED
          BY <4>1, <4>2 DEF Forges
      <3> QED
        BY <1>4, <3>1, <3>2 DEF TokenFieldNames
    <2> QED
      BY <2>1, <2>2
  <1>6. canonical_payload(t) = canonical_payload(g.token)
    BY <1>3, <1>5 DEF Verifies
  <1>7. \A f \in DOMAIN t \ {"signature"} : t[f] = g.token[f]
    BY <1>5, <1>6, SamePayload
  <1> QED
    BY <1>3, <1>4, <1>5, <1>7 DEF Verifies, TokenFieldNames, Unaltered

\* The one element of an Option.
LEMMA TheOnly ==
    ASSUME NEW S, NEW option \in Option(S), option # None
    PROVE  option = Some(The(option))
  BY DEF Option, The, None, Some

\* What an allowed request has passed that bounds what it may do.
WithinToken(p, d, t, e) ==
    /\ \E k \in KeyNamed(t, d) : UsableKey(k) /\ \E x \in k.x : Verifies(t, x)
    /\ d.agent_id = e.agent_id
    /\ t.agent_id = e.agent_id /\ t.delegator_id = e.delegator_id
    /\ e.audience \in t.audience
    /\ apply_action_aliases(e, p.host).action \in t.allowed_actions
    /\ \A m \in t.max_spend, spend \in e.runtime_context.requested_spend :
          spend <= m.amount /\ e.runtime_context.spend_currency = Some(m.currency)
    /\ clock < t.expires_at + p.host.clock_leeway_secs

LEMMA AllowedFacts ==
    ASSUME NEW p \in Presentations, NEW d, NEW t, NEW id, NEW e,
           e = BuildRequest(p.order, d, t, id), Allowed(p, e)
    PROVE  WithinToken(p, d, t, e)
  <1> DEFINE a == apply_action_aliases(e, p.host)
  <1>1. /\ e.token = t /\ e.identity_document = Some(d)
        /\ a.token = t /\ a.identity_document = Some(d)
        /\ a.agent_id = e.agent_id /\ a.delegator_id = e.delegator_id
        /\ a.audience = e.audience /\ a.runtime_context = e.runtime_context
    BY RequestFields
  <1>2. /\ validate_request_contract(e)
        /\ verify_signatures_with_verifier(a, p.verifier)
        /\ validate_token_lifetime(a, clock, p.host.clock_leeway_secs)
        /\ validate_token_binding(a) /\ PolicyPasses(a, p.host)
    BY DEF Allowed, Authentic, Authorized
  <1> HIDE DEF a
  <1>3. verify_delegation_token_signature(t, d)
    BY <1>1, <1>2 DEF verify_signatures_with_verifier, verify_signatures, Some
  <1>4. d.agent_id = e.agent_id
    BY <1>1, <1>2 DEF validate_request_contract, Some
  <1>5. check_allowed_action(a) /\ check_max_spend(a)
    BY <1>2 DEF PolicyPasses, simulate_policy
  <1>6. a.action \in t.allowed_actions
    BY <1>1, <1>5 DEF check_allowed_action
  <1>7. \A m \in t.max_spend, spend \in e.runtime_context.requested_spend :
            spend <= m.amount /\ e.runtime_context.spend_currency = Some(m.currency)
    BY <1>1, <1>5 DEF check_max_spend
  <1>8. /\ t.agent_id = e.agent_id /\ t.delegator_id = e.delegator_id
        /\ e.audience \in t.audience
        /\ clock < t.expires_at + p.host.clock_leeway_secs
    BY <1>1, <1>2 DEF validate_token_binding, validate_token_lifetime
  <1> QED
    BY <1>3, <1>4, <1>6, <1>7, <1>8 DEF verify_delegation_token_signature, WithinToken, a

\* Signatures bind: whatever was done to a token on its way and whichever document
\* and host it met, an allowed request is one that the issuer's order covers.
THEOREM AllowedGranted == Spec => []AllowedIsGranted
  <1>1. BuiltInv => AllowedIsGranted
    <2> SUFFICES ASSUME BuiltInv, NEW p \in Presentations, NEW g \in issued, NEW d \in documents,
                        NEW e, e = Requested(p, g, d), Allowed(p, e)
                 PROVE  LET c == e.runtime_context IN
                        /\ g.order.agent_id = Some(e.agent_id) /\ d.agent_id = e.agent_id
                        /\ g.order.delegator_id = Some(e.delegator_id)
                        /\ e.audience \in g.order.audience
                        /\ apply_action_aliases(e, p.host).action \in g.order.allowed_actions
                        /\ \A m \in g.order.max_spend, spend \in c.requested_spend :
                              spend <= m.amount /\ c.spend_currency = Some(m.currency)
                        /\ clock < g.token.expires_at + p.host.clock_leeway_secs
                        /\ \E i \in DOMAIN d.public_keys :
                              d.public_keys[i].x = Some(g.order.signing_key)
      BY DEF AllowedIsGranted
    <2>1. PICK t, id : /\ t = Altered(g.token, p.alteration)
                       /\ e = BuildRequest(p.order, d, t, id)
      BY DEF Requested
    <2> WithinToken(p, d, t, e)
      BY <2>1, AllowedFacts, Zenon
    <2>2. PICK k \in KeyNamed(t, d) : \E x \in k.x : Verifies(t, x)
      BY DEF WithinToken
    <2> PICK x \in k.x : Verifies(t, x)
      BY <2>2
    <2>3. IsIssued(g) /\ IsDocument(d)
      BY DEF BuiltInv
    <2>4. Unaltered(g, t, x)
      BY <2>1, <2>2, <2>3, VerifiedUnaltered, Zenon
    <2>5. PICK o \in TokenOrders, issued_at \in Nat, suffix \in Nat \X Nat :
            g = [token |-> BuildToken(o, issued_at, suffix), order |-> o] /\ BuildsToken(o, issued_at)
      BY <2>3 DEF IsIssued
    <2>6. /\ g.token = BuildToken(o, issued_at, suffix) /\ g.order = o
      BY <2>5
    <2>7. /\ g.token.agent_id = The(o.agent_id) /\ g.token.delegator_id = The(o.delegator_id)
          /\ g.token.audience = o.audience /\ g.token.allowed_actions = o.allowed_actions
          /\ g.token.max_spend = o.max_spend
      BY <2>6, TokenFields
    <2>8. o.agent_id = Some(The(o.agent_id)) /\ o.delegator_id = Some(The(o.delegator_id))
      <3>1. o.agent_id \in Option(STRING) /\ o.delegator_id \in Option(STRING)
        BY OrderFacts DEF Text
      <3>2. o.agent_id # None /\ o.delegator_id # None
        BY <2>5 DEF BuildsToken
      <3> QED
        BY <3>1, <3>2, TheOnly
    <2>9. \E i \in DOMAIN d.public_keys : d.public_keys[i].x = Some(g.order.signing_key)
      <3>1. PICK i \in DOMAIN d.public_keys : k = d.public_keys[i]
        BY DEF KeyNamed
      <3>2. PICK kid, key : k = PublicKeyRecord(kid, key)
        BY <2>3, <3>1, DocumentKeys DEF IsDocument
      <3>3. k.x = {key}
        BY <3>2 DEF PublicKeyRecord, Some
      <3> QED
        BY <2>2, <2>4, <3>1, <3>3 DEF Some, Unaltered
    <2> QED
      BY <2>4, <2>6, <2>7, <2>8, <2>9 DEF WithinToken, Unaltered
  <1> QED
    BY <1>1, BuiltInductive, PTL
-------------------------------------------------------------------------------
(***************************************************************************)
(* BuiltIsAccepted                                                          *)
(***************************************************************************)

\* The times of a token and of a document are numbers.
LEMMA ExpiryTimes ==
    ASSUME NEW expires_at \in Times, NEW expires_in \in Lifetime, NEW o, NEW start \in Nat,
           o.expires_at = expires_at, o.expires_in = expires_in
    PROVE  ExpiresAt(o, start) \subseteq Int
  <1>1. expires_at \subseteq Int /\ expires_in \subseteq Int
    BY DEF Times, Lifetime, Option
  <1> QED
    BY <1>1 DEF ExpiresAt

LEMMA TokenTimes ==
    ASSUME NEW o \in TokenOrders, NEW issued_at \in Nat, NEW suffix, NEW t,
           t = BuildToken(o, issued_at, suffix), BuildsToken(o, issued_at)
    PROVE  t.issued_at \in Nat /\ t.expires_at \in Int
  <1>1. t.issued_at = issued_at /\ t.expires_at = The(ExpiresAt(o, issued_at))
    BY DEF BuildToken
  <1>2. o.expires_at \in Times /\ o.expires_in \in Lifetime
    <2>1. o \in TokenOrder
      BY IssuanceAssumption
    <2> QED
      BY <2>1 DEF TokenOrder
  <1>3. ExpiresAt(o, issued_at) \subseteq Int
    BY <1>2, ExpiryTimes
  <1>4. ExpiresAt(o, issued_at) # {}
    BY DEF BuildsToken
  <1>5. The(ExpiresAt(o, issued_at)) \in ExpiresAt(o, issued_at)
    BY <1>4 DEF The
  <1> QED
    BY <1>1, <1>3, <1>5

LEMMA DocumentTimes ==
    ASSUME NEW o \in DocumentOrders, NEW created_at \in Nat, NEW d,
           d = BuildDocument(o, created_at), BuildsDocument(o, created_at)
    PROVE  d.expires_at \in Int
  <1>1. d.expires_at = The(DocumentExpiresAt(o, created_at))
    BY DEF BuildDocument
  <1>2. o.expires_at \in Times /\ o.expires_in \in Lifetime
    <2>1. o \in DocumentOrder
      BY IssuanceAssumption
    <2> QED
      BY <2>1 DEF DocumentOrder
  <1>3. ExpiresAt(o, created_at) \subseteq Int
    BY <1>2, ExpiryTimes
  <1>4. DocumentExpiresAt(o, created_at) \subseteq Int
    <2>1. created_at + SevenDays \in Int
      BY IssuanceAssumption
    <2> QED
      BY <1>3, <2>1 DEF DocumentExpiresAt, Some
  <1>5. DocumentExpiresAt(o, created_at) # {}
    BY DEF BuildsDocument
  <1>6. The(DocumentExpiresAt(o, created_at)) \in DocumentExpiresAt(o, created_at)
    BY <1>5 DEF The
  <1> QED
    BY <1>1, <1>4, <1>6

\* Key material that somebody made is a key.
LEMMA MadeKeyUsable ==
    ASSUME NEW kid, NEW key \in Keys, NEW k, k = PublicKeyRecord(kid, key)
    PROVE  UsableKey(k) /\ k.kid = kid /\ k.x = Some(key)
  <1>1. key # "garbled"
    BY IssuanceAssumption
  <1>2. k.kty = "OKP" /\ k.crv = Some("Ed25519") /\ k.x = Some(key) /\ k.kid = kid
    BY DEF PublicKeyRecord
  <1> QED
    BY <1>1, <1>2 DEF UsableKey, Some, None

\* Where no kid is listed twice, the first key with a kid is the only one.
LEMMA FirstIsOnly ==
    ASSUME NEW o \in DocumentOrders, NEW created_at, NEW d, d = BuildDocument(o, created_at),
           DistinctKids(d), NEW t
    PROVE  KeyNamed(t, d) =
               {d.public_keys[i] : i \in {j \in DOMAIN d.public_keys : d.public_keys[j].kid = t.key_id}}
  <1>1. PICK n \in Nat : DOMAIN d.public_keys = 1 .. n
    BY DocumentKeys
  <1>2. ASSUME NEW j \in DOMAIN d.public_keys, d.public_keys[j].kid = t.key_id,
               NEW k \in 1 .. j - 1
        PROVE  d.public_keys[k].kid # t.key_id
    <2>1. k \in DOMAIN d.public_keys /\ k # j
      BY <1>1
    <2> QED
      BY <1>2, <2>1 DEF DistinctKids
  <1> QED
    BY <1>2 DEF KeyNamed

\* The signatures the builders make verify.
LEMMA BuiltVerifies ==
    ASSUME NEW g, IsIssued(g), NEW d, IsDocument(d), SpeaksFor(d, g)
    PROVE  verify_identity_document_signature(d) /\ verify_delegation_token_signature(g.token, d)
  <1>1. PICK o \in TokenOrders, issued_at \in Nat, suffix \in Nat \X Nat :
          g = [token |-> BuildToken(o, issued_at, suffix), order |-> o]
    BY DEF IsIssued
  <1>2. g.token = BuildToken(o, issued_at, suffix) /\ g.order = o
    BY <1>1
  <1>3. PICK q \in DocumentOrders, created_at \in Nat : d = BuildDocument(q, created_at)
    BY DEF IsDocument
  <1>4. ASSUME NEW i \in DOMAIN d.public_keys PROVE UsableKey(d.public_keys[i])
    BY <1>3, DocumentKeys, MadeKeyUsable
  <1>5. verify_identity_document_signature(d)
    <2>1. 1 \in DOMAIN d.public_keys /\ d.public_keys[1].x = Some(q.signing_key)
      BY <1>3, DocumentKeys
    <2>2. Verifies(d, q.signing_key)
      BY <1>3, DocumentSignature DEF Verifies
    <2> QED
      BY <1>4, <2>1, <2>2 DEF verify_identity_document_signature, Some
  <1>6. verify_delegation_token_signature(g.token, d)
    <2>1. PICK i \in DOMAIN d.public_keys :
            d.public_keys[i].kid = g.token.key_id /\ d.public_keys[i].x = Some(g.order.signing_key)
      BY DEF SpeaksFor
    <2>2. d.public_keys[i] \in KeyNamed(g.token, d)
      BY <1>3, <2>1, FirstIsOnly DEF SpeaksFor
    <2>3. Verifies(g.token, g.order.signing_key)
      BY <1>2, TokenSignature DEF Verifies
    <2>4. g.token.signature_alg = "Ed25519"
      BY <1>2, TokenFields
    <2> QED
      BY <1>4, <2>1, <2>2, <2>3, <2>4 DEF verify_delegation_token_signature, Some
  <1> QED
    BY <1>5, <1>6

\* The depth the revocation stage insists on is within the token's, if the policy
\* found it so: an unknown depth counts as 0, which no limit is below.
LEMMA DepthFollows ==
    ASSUME NEW e, NEW host, e.token.max_delegation_depth \subseteq Nat,
           check_delegation_depth(e, host)
    PROVE  DepthWithin(e, host)
  <1> SUFFICES ASSUME NEW max \in e.token.max_delegation_depth
               PROVE  (IF host.delegation_depth = None THEN 0
                       ELSE CHOOSE depth \in host.delegation_depth : TRUE) <= max
    BY DEF DepthWithin
  <1>1. CASE host.delegation_depth = None
    BY <1>1
  <1>2. CASE host.delegation_depth # None
    <2>1. (CHOOSE depth \in host.delegation_depth : TRUE) \in host.delegation_depth
      BY <1>2 DEF None
    <2> QED
      BY <1>2, <2>1 DEF check_delegation_depth
  <1> QED
    BY <1>1, <1>2

LEMMA LeewayNat == ASSUME NEW h, IsHostContext(h) PROVE h.clock_leeway_secs \in Nat
  BY Zenon DEF IsHostContext

\* A token and its document from their builders, unaltered and in time, are refused
\* by nothing but the contract and the policy.
THEOREM BuiltAccepted == Spec => []BuiltIsAccepted
  <1>1. IdInv /\ BuiltInv => BuiltIsAccepted
    <2> SUFFICES ASSUME IdInv, BuiltInv,
                        NEW p \in Presentations, NEW g \in issued, NEW d \in documents,
                        NEW e, e = Requested(p, g, d),
                        BuildsRequest(p.order), p.alteration = None, SpeaksFor(d, g),
                        e.agent_id = g.token.agent_id, e.delegator_id = g.token.delegator_id,
                        e.audience \in g.token.audience, e.profile = "developer",
                        p.verifier = None \/ \E agents \in p.verifier : d.agent_id \in agents,
                        g.token.issued_at <= clock, clock < g.token.expires_at,
                        clock < d.expires_at, e.action \notin DOMAIN p.host.action_aliases
                 PROVE  Allowed(p, e) <=> PreviewPasses(e, p.host)
      BY DEF BuiltIsAccepted
    <2>1. apply_action_aliases(e, p.host) = e /\ e.token = g.token /\ e.identity_document = Some(d)
      <3>1. e = BuildRequest(p.order, d, g.token, UnwrapOr(p.order.request_id, <<"req">>))
        BY DEF Requested, Altered
      <3> QED
        BY <3>1, RequestFields
    <2>2. Allowed(p, e) => PreviewPasses(e, p.host)
      BY <2>1 DEF Allowed, Authentic, Authorized, PreviewPasses
    <2>3. ASSUME PreviewPasses(e, p.host) PROVE Allowed(p, e)
      <3>1. IsIssued(g) /\ IsDocument(d)
        BY DEF BuiltInv
      <3>2. validate_request_contract(e) /\ PolicyPasses(e, p.host)
        BY <2>3 DEF PreviewPasses
      <3>3. validate_profile_compatibility(e)
        BY <2>1 DEF validate_profile_compatibility, Some
      <3>4. verify_identity_document_signature(d) /\ verify_delegation_token_signature(g.token, d)
        BY <3>1, BuiltVerifies, Zenon
      <3>5. verify_signatures_with_verifier(e, p.verifier)
        <4>1. CASE p.verifier = None
          BY <2>1, <3>4, <4>1
             DEF verify_signatures_with_verifier, verify_signatures, SpeaksFor, Some
        <4>2. CASE \E agents \in p.verifier : d.agent_id \in agents
          BY <2>1, <3>4, <4>2 DEF verify_signatures_with_verifier, Some
        <4> QED
          BY <4>1, <4>2
      <3>6. PICK o \in TokenOrders, issued_at \in Nat, suffix \in Nat \X Nat :
              g = [token |-> BuildToken(o, issued_at, suffix), order |-> o]
              /\ BuildsToken(o, issued_at)
        BY <3>1 DEF IsIssued
      <3>7. g.token = BuildToken(o, issued_at, suffix)
        BY <3>6
      <3>8. g.token.issued_at \in Nat /\ g.token.expires_at \in Int /\ d.expires_at \in Int
        <4>1. g.token.issued_at \in Nat /\ g.token.expires_at \in Int
          BY <3>6, <3>7, TokenTimes, Zenon
        <4>2. d.expires_at \in Int
          BY <3>1, DocumentTimes, Zenon DEF IsDocument
        <4> QED
          BY <4>1, <4>2
      <3>9. clock \in Nat /\ p.host.clock_leeway_secs \in Nat
        <4>1. IsHostContext(p.host)
          BY IssuanceAssumption
        <4>2. p.host.clock_leeway_secs \in Nat
          BY <4>1, LeewayNat
        <4> QED
          BY <4>2 DEF IdInv, IdTypes
      <3>10. /\ validate_identity_document_lifetime(e, clock, p.host.clock_leeway_secs)
             /\ validate_token_lifetime(e, clock, p.host.clock_leeway_secs)
        BY <2>1, <3>8, <3>9
           DEF validate_identity_document_lifetime, validate_token_lifetime, Some
      <3>11. validate_token_binding(e)
        BY <2>1 DEF validate_token_binding
      <3>12. DepthWithin(e, p.host)
        <4>1. e.token.max_delegation_depth \subseteq Nat
          BY <2>1, <3>7, TokenFields, OrderFacts
        <4>2. check_delegation_depth(e, p.host)
          BY <3>2 DEF PolicyPasses, simulate_policy
        <4> QED
          BY <4>1, <4>2, DepthFollows
      <3> QED
        BY <2>1, <3>2, <3>3, <3>5, <3>10, <3>11, <3>12 DEF Allowed, Authentic, Authorized
    <2> QED
      BY <2>2, <2>3
  <1> QED
    BY <1>1, IdInductive, BuiltInductive, PTL
-------------------------------------------------------------------------------
(***************************************************************************)
(* DiscoveryAgrees                                                          *)
(***************************************************************************)

\* Every set of numbers that is not empty has a smallest element.
LEMMA Smallest ==
    ASSUME NEW T, T \subseteq Nat, T # {}
    PROVE  \E n \in T : \A m \in T : n <= m
  <1> DEFINE R == {pair \in Nat \X Nat : pair[1] < pair[2]}
  <1>1. IsWellFoundedOn(R, Nat)
    BY NatLessThanWellFounded DEF OpToRel
  <1>2. \A m, n \in Nat : <<m, n>> \in R <=> m < n
    OBVIOUS
  <1> HIDE DEF R
  <1>3. PICK n \in T : \A m \in T : ~(<<m, n>> \in R)
    BY <1>1, WFMin, Zenon
  <1>4. ASSUME NEW m \in T PROVE n <= m
    <2>1. m \in Nat /\ n \in Nat
      OBVIOUS
    <2>2. ~(m < n)
      BY <1>2, <1>3, <2>1
    <2> QED
      BY <2>1, <2>2
  <1> QED
    BY <1>4

\* What the endpoints tell about an agent: a url for an endpoint of the document,
\* a key for a token, and all of it.
Resolves(d, i, urls) ==
    \E url \in urls :
        [d.endpoints[i] EXCEPT !.url = url] \in {d.endpoints[j] : j \in DOMAIN d.endpoints}

Serves(jwks, t) ==
    \E keys \in jwks : \E i \in DOMAIN keys :
        keys[i].kid = t.key_id /\ \E x \in keys[i].x : Verifies(t, x)

AgreesAbout(agent, d) ==
    /\ d.agent_id = agent
    /\ \A i \in {j \in DOMAIN d.endpoints : d.endpoints[j].protocol # Blank} :
          Resolves(d, i, Ask("resolve", agent, Some(d.endpoints[i].protocol)).found)
    /\ Ask("jwks", agent, None).status_code = 200
    /\ DistinctKids(d) =>
          \A g \in issued :
              verify_delegation_token_signature(g.token, d) <=>
                  Serves(Ask("jwks", agent, None).found, g.token)

\* The answers to the three lookups about an agent that is registered.
LEMMA LookupAnswers ==
    ASSUME NEW agent \in DOMAIN service.registry, agent # Blank,
           NEW d, d = service.registry[agent]
    PROVE  /\ Ask("registry", agent, None) = Answer(200, Some(d))
           /\ Ask("jwks", agent, None) = OkOr(422, build_jwks_document(d))
           /\ \A protocol : protocol # Blank =>
                 Ask("resolve", agent, Some(protocol)) =
                     OkOr(404, resolve_agent_endpoint(d, protocol))
  <1>1. \A path, protocol :
           LET lookup == Lookup(path, agent, protocol) IN
           /\ lookup.method = "GET" /\ lookup.path = path
           /\ lookup.agent_id = Some(agent) /\ lookup.protocol = protocol
    BY DEF Lookup
  <1>2. Some(agent) # Some(Blank) /\ Some(agent) # None /\ Some(d) # None
    BY DEF Some, None
  <1>3. UNION {Found(service.registry, a) : a \in Some(agent)} = Some(d)
    <2>1. Found(service.registry, agent) = Some(d)
      BY DEF Found, Some
    <2>2. UNION {Found(service.registry, a) : a \in {agent}} = Found(service.registry, agent)
      OBVIOUS
    <2> QED
      BY <2>1, <2>2 DEF Some
  <1>4. Ask("registry", agent, None) = Answer(200, Some(d))
    <2> DEFINE lookup == Lookup("registry", agent, None)
    <2>1. Ask("registry", agent, None) = serve_registry_lookup(service, lookup)
      BY <1>1 DEF Ask, handle_discovery_http_request
    <2>2. lookup.agent_id = Some(agent)
      BY <1>1
    <2> HIDE DEF lookup
    <2>3. serve_registry_lookup(service, lookup) = OkOr(404, Some(d))
      BY <1>2, <1>3, <2>2, Zenon DEF serve_registry_lookup
    <2> QED
      BY <1>2, <2>1, <2>3 DEF OkOr
  <1>5. Ask("jwks", agent, None) = OkOr(422, build_jwks_document(d))
    <2> DEFINE lookup == Lookup("jwks", agent, None)
    <2>1. Ask("jwks", agent, None) = serve_jwks(service, lookup)
      BY <1>1 DEF Ask, handle_discovery_http_request
    <2>2. lookup.agent_id = Some(agent)
      BY <1>1
    <2>3. UNION {build_jwks_document(doc) : doc \in Some(d)} = build_jwks_document(d)
      BY DEF Some
    <2> HIDE DEF lookup
    <2>4. serve_jwks(service, lookup) = OkOr(422, build_jwks_document(d))
      BY <1>2, <1>3, <2>2, <2>3, Zenon DEF serve_jwks
    <2> QED
      BY <2>1, <2>4
  <1>6. ASSUME NEW protocol, protocol # Blank
        PROVE  Ask("resolve", agent, Some(protocol)) =
                   OkOr(404, resolve_agent_endpoint(d, protocol))
    <2> DEFINE lookup == Lookup("resolve", agent, Some(protocol))
    <2>1. Ask("resolve", agent, Some(protocol)) = serve_resolution_lookup(service, lookup)
      BY <1>1 DEF Ask, handle_discovery_http_request
    <2>2. lookup.agent_id = Some(agent) /\ lookup.protocol = Some(protocol)
      BY <1>1
    <2> HIDE DEF lookup
    <2> DEFINE found == UNION {Found(service.registry, a) : a \in lookup.agent_id}
               urls == UNION {resolve_agent_endpoint(doc, p) : doc \in found, p \in lookup.protocol}
    <2>3. urls = resolve_agent_endpoint(d, protocol)
      <3>1. found = {d} /\ lookup.protocol = {protocol}
        BY <1>3, <2>2, Zenon DEF Some
      <3> HIDE DEF found
      <3> QED
        BY <3>1
    <2>4. Some(protocol) # None /\ Some(protocol) # Some(Blank)
      BY <1>6 DEF Some, None
    <2>5. serve_resolution_lookup(service, lookup) = OkOr(404, resolve_agent_endpoint(d, protocol))
      <3>1. ~(\/ lookup.agent_id = Some(Blank) \/ lookup.protocol = None
              \/ lookup.protocol = Some(Blank))
        BY <1>2, <2>2, <2>4, Zenon
      <3>2. serve_resolution_lookup(service, lookup) = OkOr(404, urls)
        BY <3>1, SMT DEF serve_resolution_lookup
      <3> HIDE DEF urls
      <3> QED
        BY <2>3, <3>2
    <2> QED
      BY <2>1, <2>5
  <1> QED
    BY <1>4, <1>5, <1>6

\* A document lists its endpoints in a sequence of records.
LEMMA DocumentEndpoints ==
    ASSUME NEW o \in DocumentOrders, NEW created_at, NEW d, d = BuildDocument(o, created_at)
    PROVE  d.endpoints \in Seq([protocol : STRING, url : STRING])
  <1>1. o \in DocumentOrder
    BY IssuanceAssumption
  <1>2. d.endpoints = o.endpoints
    BY DEF BuildDocument
  <1> QED
    BY <1>1, <1>2 DEF DocumentOrder

\* A protocol that a document has an endpoint for resolves to the url of the first
\* such endpoint.
LEMMA ProtocolResolves ==
    ASSUME NEW o \in DocumentOrders, NEW created_at, NEW d, d = BuildDocument(o, created_at),
           NEW i \in DOMAIN d.endpoints
    PROVE  Resolves(d, i, resolve_agent_endpoint(d, d.endpoints[i].protocol))
  <1> DEFINE protocol == d.endpoints[i].protocol
             T == {j \in DOMAIN d.endpoints : d.endpoints[j].protocol = protocol}
  <1>1. d.endpoints \in Seq([protocol : STRING, url : STRING])
    BY DocumentEndpoints
  <1>2. DOMAIN d.endpoints = 1 .. Len(d.endpoints) /\ Len(d.endpoints) \in Nat
    BY <1>1
  <1>3. T \subseteq Nat /\ T # {}
    BY <1>2
  <1>4. PICK j \in T : \A m \in T : j <= m
    <2> HIDE DEF T
    <2> QED
      BY <1>3, Smallest, Zenon
  <1>5. ASSUME NEW k \in 1 .. j - 1 PROVE d.endpoints[k].protocol # protocol
    BY <1>2, <1>4
  <1>6. d.endpoints[j].url \in resolve_agent_endpoint(d, protocol)
    BY <1>4, <1>5 DEF resolve_agent_endpoint
  <1>7. [d.endpoints[i] EXCEPT !.url = d.endpoints[j].url] = d.endpoints[j]
    <2>1. /\ d.endpoints[i] \in [protocol : STRING, url : STRING]
          /\ d.endpoints[j] \in [protocol : STRING, url : STRING]
      BY <1>1, <1>4, SeqElement, Zenon
    <2>2. d.endpoints[j].protocol = d.endpoints[i].protocol
      BY <1>4
    <2> QED
      BY <2>1, <2>2
  <1> QED
    BY <1>4, <1>6, <1>7 DEF Resolves

\* Where no kid is listed twice, the JWKS holds a key for a token if the document does.
LEMMA JwksVerifies ==
    ASSUME NEW o \in DocumentOrders, NEW created_at, NEW d, d = BuildDocument(o, created_at),
           DistinctKids(d), NEW t, t.signature_alg = "Ed25519"
    PROVE  verify_delegation_token_signature(t, d) <=> Serves(build_jwks_document(d), t)
  <1> DEFINE jwks == [i \in DOMAIN d.public_keys |->
                         [kid |-> d.public_keys[i].kid, x |-> d.public_keys[i].x]]
  <1>1. ASSUME NEW i \in DOMAIN d.public_keys PROVE UsableKey(d.public_keys[i])
    BY DocumentKeys, MadeKeyUsable
  <1>2. build_jwks_document(d) = {jwks}
    BY <1>1 DEF build_jwks_document, UsableKey, Some
  <1>3. /\ DOMAIN jwks = DOMAIN d.public_keys
        /\ \A i \in DOMAIN d.public_keys :
              jwks[i].kid = d.public_keys[i].kid /\ jwks[i].x = d.public_keys[i].x
    OBVIOUS
  <1> HIDE DEF jwks
  <1>4. verify_delegation_token_signature(t, d) <=>
            \E i \in DOMAIN d.public_keys :
                d.public_keys[i].kid = t.key_id /\ \E x \in d.public_keys[i].x : Verifies(t, x)
    BY <1>1, FirstIsOnly DEF verify_delegation_token_signature
  <1> QED
    BY <1>2, <1>3, <1>4 DEF Serves

\* The three endpoints of the discovery service agree about every agent, whatever
\* was registered over what.
THEOREM EndpointsAgree == Spec => []DiscoveryAgrees
  <1>1. BuiltInv => DiscoveryAgrees
    <2> SUFFICES ASSUME BuiltInv, NEW agent \in DOMAIN service.registry \ {Blank}
                 PROVE  \E d \in Ask("registry", agent, None).found : AgreesAbout(agent, d)
      BY Zenon DEF DiscoveryAgrees, AgreesAbout, Resolves, Serves
    <2> DEFINE d == service.registry[agent]
    <2>1. d \in documents /\ d.agent_id = agent
      BY DEF BuiltInv, RegistryOK
    <2>2. PICK o \in DocumentOrders, created_at \in Nat : d = BuildDocument(o, created_at)
      BY <2>1 DEF BuiltInv, IsDocument
    <2>3. /\ Ask("registry", agent, None) = Answer(200, Some(d))
          /\ Ask("jwks", agent, None) = OkOr(422, build_jwks_document(d))
          /\ \A protocol : protocol # Blank =>
                Ask("resolve", agent, Some(protocol)) =
                    OkOr(404, resolve_agent_endpoint(d, protocol))
      BY LookupAnswers
    <2> HIDE DEF d
    <2>4. d \in Ask("registry", agent, None).found
      BY <2>3 DEF Answer, Some
    <2>5. ASSUME NEW i \in DOMAIN d.endpoints, d.endpoints[i].protocol # Blank
          PROVE  Resolves(d, i, Ask("resolve", agent, Some(d.endpoints[i].protocol)).found)
      <3> DEFINE urls == resolve_agent_endpoint(d, d.endpoints[i].protocol)
      <3>1. Resolves(d, i, urls)
        BY <2>2, ProtocolResolves, Zenon
      <3>2. Ask("resolve", agent, Some(d.endpoints[i].protocol)) = OkOr(404, urls)
        BY <2>3, <2>5
      <3> HIDE DEF urls
      <3>3. urls # None
        BY <3>1 DEF Resolves, None
      <3>4. OkOr(404, urls).found = urls
        BY <3>3 DEF OkOr, Answer
      <3> QED
        BY <3>1, <3>2, <3>4
    <2>6. /\ Ask("jwks", agent, None).status_code = 200
          /\ Ask("jwks", agent, None).found = build_jwks_document(d)
      <3>1. \A i \in DOMAIN d.public_keys : UsableKey(d.public_keys[i])
        BY <2>2, DocumentKeys, MadeKeyUsable
      <3>2. build_jwks_document(d) # None
        BY <3>1 DEF build_jwks_document, UsableKey, Some, None
      <3> QED
        BY <2>3, <3>2 DEF OkOr, Answer
    <2>7. ASSUME DistinctKids(d), NEW g \in issued
          PROVE  verify_delegation_token_signature(g.token, d) <=>
                     Serves(Ask("jwks", agent, None).found, g.token)
      <3>1. g.token.signature_alg = "Ed25519"
        <4>1. PICK q \in TokenOrders, issued_at \in Nat, suffix \in Nat \X Nat :
                g = [token |-> BuildToken(q, issued_at, suffix), order |-> q]
          BY DEF BuiltInv, IsIssued
        <4>2. g.token = BuildToken(q, issued_at, suffix)
          BY <4>1
        <4> QED
          BY <4>2, TokenFields
      <3>2. verify_delegation_token_signature(g.token, d) <=>
                Serves(build_jwks_document(d), g.token)
        BY <2>2, <2>7, <3>1, JwksVerifies, Zenon
      <3> QED
        BY <2>6, <3>2, Zenon
    <2>8. AgreesAbout(agent, d)
      BY <2>1, <2>5, <2>6, <2>7 DEF AgreesAbout
    <2> QED
      BY <2>4, <2>8
  <1> QED
    BY <1>1, BuiltInductive, PTL
===============================================================================
