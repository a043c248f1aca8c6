-------------------------- MODULE ControlPlaneProofs --------------------------
(***************************************************************************)
(* Theorems about FileTrustState and, in the second part, about ControlPlane *)
(* that runs on it: for every set of processes, calls, commands and           *)
(* proposals, every number of lock attempts and every bound on the clock.     *)
(***************************************************************************)
EXTENDS ControlPlane, TrustStateProofs

(***************************************************************************)
(* The inductive invariant.  What is acknowledged is recorded in the step    *)
(* that unlocks; that it is in the file by then follows from what the call   *)
(* computed when it loaded the file, which stays true of the call's own copy *)
(* because nobody else acknowledges anything while the lock is held.         *)
(*                                                                          *)
(* The calls are typed by Call, not by Calls, so that the invariant can be    *)
(* used of any program that makes such calls.                               *)
(***************************************************************************)
StoreTypes ==
    /\ clock \in 0..MaxTime
    /\ file_status \in {"absent", "valid", "damaged"}
    /\ file_content \in PersistedTrustState
    /\ lock_file \in BOOLEAN
    /\ backend_available \in [Clients -> BOOLEAN]
    /\ pc \in [Clients -> ProgramCounters]
    /\ call \in [Clients -> Call \cup {NoCall}]
    /\ called_at \in [Clients -> 0..MaxTime]
    /\ attempts \in [Clients -> 0..MaxAttempts]
    /\ persisted \in [Clients -> PersistedTrustState]
    /\ result \in [Clients -> Results]
    /\ revoked_ok \subseteq TokenIds
    /\ denied_ok \subseteq Agents
    /\ granted \subseteq NonceEntry

\* A process inside an operation has a call, made at or before this moment.
CallsAreMade ==
    \A c \in Clients :
        /\ pc[c] # "idle" => call[c] \in Call
        /\ called_at[c] <= clock

\* At most one process is inside the lock, and the lock file exists then.
LockInv ==
    /\ \A c, d \in Clients : Holds(c) /\ Holds(d) => c = d
    /\ \A c \in Clients : Holds(c) => lock_file

\* p holds every acknowledged revocation and every nonce that was granted and
\* whose token has not expired.
HoldsAcknowledged(p) ==
    /\ revoked_ok \subseteq p.revoked_token_ids
    /\ \A e \in granted : e \in p.consumed_nonces \/ e.valid_until < clock

\* p holds what the call of c is to record.
HoldsCall(c, p) ==
    /\ call[c].op = "revoke_token" => call[c].token_id \in p.revoked_token_ids
    /\ call[c].op = "emergency_deny_agent" =>
          call[c].agent_id \in p.emergency_denied_agents
    /\ call[c].op = "consume_nonce" =>
          [nonce |-> call[c].nonce, valid_until |-> call[c].valid_until]
              \in p.consumed_nonces

\* No nonce that was granted and has not expired is the one of the call.
CallIsFresh(c) ==
    call[c].op = "consume_nonce" =>
        \A g \in granted : g.nonce = call[c].nonce => g.valid_until < clock

\* The copy a call is about to write lacks nothing that was acknowledged; only
\* a clear_emergency_deny_list that has not begun to write drops denials.
CopyIsCurrent(c) ==
    pc[c] \in {"truncate", "write"} =>
        /\ call[c].op \notin Reads
        /\ HoldsAcknowledged(persisted[c])
        /\ (pc[c] = "write" \/ call[c].op # "clear_emergency_deny_list") =>
              denied_ok \subseteq persisted[c].emergency_denied_agents
        /\ HoldsCall(c, persisted[c])
        /\ CallIsFresh(c)

\* The value with which a call that changes the store ends well.
Success(op) == IF op = "consume_nonce" THEN "true" ELSE "ok"

\* A call that is about to return its success has it in the file, and one that
\* is about to answer that a token is not revoked is right.
ResultIsInFile(c) ==
    pc[c] = "unlock" =>
        /\ ( /\ result[c] = Success(call[c].op)
             /\ call[c].op \in {"revoke_token", "emergency_deny_agent", "consume_nonce"} ) =>
                file_status = "valid" /\ HoldsCall(c, file_content) /\ CallIsFresh(c)
        /\ (call[c].op = "is_token_revoked" /\ result[c] = "false") =>
                call[c].token_id \notin revoked_ok

StoreInv ==
    /\ StoreTypes
    /\ CallsAreMade
    /\ LockInv
    /\ \A c \in Clients : CopyIsCurrent(c) /\ ResultIsInFile(c)
    /\ AcknowledgedIsDurable

-------------------------------------------------------------------------------
(***************************************************************************)
(* Lemmas on the operators                                                  *)
(***************************************************************************)

\* What an operation leaves is a trust state; only revocations are never taken
\* back, only a clear drops denials, and no nonce is dropped before it expires.
LEMMA AfterFacts ==
    ASSUME NEW p \in PersistedTrustState, NEW cl \in Call,
           NEW at \in Nat, NEW utcNow \in Nat, at <= utcNow
    PROVE  /\ After(p, cl, at, utcNow) \in PersistedTrustState
           /\ p.revoked_token_ids \subseteq After(p, cl, at, utcNow).revoked_token_ids
           /\ cl.op # "clear_emergency_deny_list" =>
                 p.emergency_denied_agents
                     \subseteq After(p, cl, at, utcNow).emergency_denied_agents
           /\ \A e \in p.consumed_nonces :
                 e.valid_until >= utcNow => e \in After(p, cl, at, utcNow).consumed_nonces
  <1> DEFINE q == After(p, cl, at, utcNow)
  <1>1. /\ p.revoked_token_ids \subseteq TokenIds
        /\ p.emergency_denied_agents \subseteq Agents
        /\ p.consumed_nonces \in SUBSET NonceEntry
        /\ cl.op \in Operations /\ cl.token_id \in TokenIds /\ cl.agent_id \in Agents
        /\ cl.nonce \in Nonces /\ cl.valid_until \in Nat
    BY DEF PersistedTrustState, Call
  <1>2. CASE cl.op \in Reads
    <2>1. q = p
      BY <1>2 DEF After, Reads
    <2> QED
      BY <2>1
  <1>3. CASE cl.op = "consume_nonce"
    <2> DEFINE m == Consume(p.consumed_nonces, cl.nonce, utcNow, cl.valid_until)
    <2>1. q = [p EXCEPT !.consumed_nonces = m]
      BY <1>3 DEF After, Reads
    <2>2. /\ m \subseteq NonceEntry
          /\ \A e \in p.consumed_nonces : e.valid_until >= utcNow => e \in m
      <3>1. /\ p.consumed_nonces \in SUBSET NonceEntry
            /\ cl.nonce \in Nonces
            /\ cl.valid_until \in Nat
        BY <1>1
      <3>2. m \in SUBSET NonceEntry
        BY <3>1, ConsumeType
      <3>3. \A e \in p.consumed_nonces : e.valid_until >= utcNow => e \in m
        BY <3>1, ConsumeFacts
      <3> QED
        BY <3>2, <3>3
    <2> HIDE DEF m, q
    <2>3. /\ q \in PersistedTrustState
          /\ q.revoked_token_ids = p.revoked_token_ids
          /\ q.emergency_denied_agents = p.emergency_denied_agents
          /\ q.consumed_nonces = m
      BY <2>1, <2>2 DEF PersistedTrustState
    <2> QED
      BY <2>2, <2>3 DEF q
  <1>4. CASE cl.op = "revoke_token"
    <2>1. q = [p EXCEPT !.revoked_token_ids = @ \cup {cl.token_id}]
      BY <1>4 DEF After, Reads
    <2> QED
      BY <1>1, <2>1 DEF PersistedTrustState
  <1>5. CASE cl.op = "emergency_deny_agent"
    <2>1. q = [p EXCEPT !.emergency_denied_agents = @ \cup {cl.agent_id}]
      BY <1>5 DEF After, Reads
    <2> QED
      BY <1>1, <2>1 DEF PersistedTrustState
  <1>6. CASE cl.op = "clear_emergency_deny_list"
    <2>1. q = [p EXCEPT !.emergency_denied_agents = {}]
      BY <1>6 DEF After, Reads
    <2> QED
      BY <1>1, <1>6, <2>1 DEF PersistedTrustState
  <1>7. CASE cl.op = "flush_expired_nonces"
    <2>1. q = [p EXCEPT !.consumed_nonces = Retain(@, at)]
      BY <1>7 DEF After, Reads
    <2>2. /\ Retain(p.consumed_nonces, at) \subseteq p.consumed_nonces
          /\ \A e \in p.consumed_nonces : e.valid_until >= at =>
                e \in Retain(p.consumed_nonces, at)
      BY <1>1, RetainFacts
    <2>3. \A e \in p.consumed_nonces : e.valid_until >= utcNow => e.valid_until >= at
      BY <1>1 DEF NonceEntry
    <2> QED
      BY <1>1, <2>1, <2>2, <2>3 DEF PersistedTrustState
  <1> QED
    BY <1>1, <1>2, <1>3, <1>4, <1>5, <1>6, <1>7 DEF Operations

\* Only an operation that succeeds saves, and what it saves holds its entry; a
\* nonce it finds fresh is not in the map with an expiry that has not passed.
LEMMA SavesFacts ==
    ASSUME NEW p \in PersistedTrustState, NEW cl \in Call,
           NEW at \in Nat, NEW utcNow \in Nat
    PROVE  /\ Returns(p, cl, utcNow) \in Results
           /\ (cl.op = "is_token_revoked" /\ Returns(p, cl, utcNow) = "false") =>
                 cl.token_id \notin p.revoked_token_ids
           /\ Saves(p, cl, at, utcNow) =>
                /\ cl.op \notin Reads
                /\ cl.op = "revoke_token" =>
                      cl.token_id \in After(p, cl, at, utcNow).revoked_token_ids
                /\ cl.op = "emergency_deny_agent" =>
                      cl.agent_id \in After(p, cl, at, utcNow).emergency_denied_agents
                /\ cl.op = "consume_nonce" =>
                      /\ [nonce |-> cl.nonce, valid_until |-> cl.valid_until]
                            \in After(p, cl, at, utcNow).consumed_nonces
                      /\ \A e \in p.consumed_nonces :
                            e.nonce = cl.nonce => e.valid_until < utcNow
           /\ ~Saves(p, cl, at, utcNow) =>
                /\ cl.op \notin {"revoke_token", "emergency_deny_agent"}
                /\ cl.op = "consume_nonce" => Returns(p, cl, utcNow) # "true"
  <1>1. /\ p.consumed_nonces \in SUBSET NonceEntry
        /\ cl.op \in Operations /\ cl.nonce \in Nonces /\ cl.valid_until \in Nat
    BY DEF PersistedTrustState, Call
  <1>2. Returns(p, cl, utcNow) \in Results
    BY DEF Returns, Bool, Results
  <1>3. CASE cl.op = "consume_nonce"
    <2> DEFINE fresh == IsFresh(p.consumed_nonces, cl.nonce, utcNow, cl.valid_until)
               q == Consume(p.consumed_nonces, cl.nonce, utcNow, cl.valid_until)
    <2>1. /\ Returns(p, cl, utcNow) = Bool(fresh)
          /\ Saves(p, cl, at, utcNow) = (Returns(p, cl, utcNow) = "true")
      BY <1>3 DEF Returns, Saves, Reads
    <2>2. After(p, cl, at, utcNow) = [p EXCEPT !.consumed_nonces = q]
      BY <1>3 DEF After, Reads
    <2>3. After(p, cl, at, utcNow).consumed_nonces = q
      BY <2>2 DEF PersistedTrustState
    <2>4. fresh => /\ [nonce |-> cl.nonce, valid_until |-> cl.valid_until] \in q
                   /\ \A e \in p.consumed_nonces :
                         e.nonce = cl.nonce => e.valid_until < utcNow
      BY <1>1, ConsumeFacts
    <2> HIDE DEF fresh, q
    <2>5. (Returns(p, cl, utcNow) = "true") = (fresh = TRUE)
      BY <2>1 DEF Bool
    <2> QED
      BY <1>2, <1>3, <2>1, <2>3, <2>4, <2>5 DEF Reads
  <1>4. CASE cl.op = "revoke_token"
    <2>1. After(p, cl, at, utcNow) =
              [p EXCEPT !.revoked_token_ids = @ \cup {cl.token_id}]
      BY <1>4 DEF After, Reads
    <2>2. Saves(p, cl, at, utcNow)
      BY <1>4 DEF Saves, Reads
    <2> QED
      BY <1>2, <1>4, <2>1, <2>2 DEF PersistedTrustState, Reads
  <1>5. CASE cl.op = "emergency_deny_agent"
    <2>1. After(p, cl, at, utcNow) =
              [p EXCEPT !.emergency_denied_agents = @ \cup {cl.agent_id}]
      BY <1>5 DEF After, Reads
    <2>2. Saves(p, cl, at, utcNow)
      BY <1>5 DEF Saves, Reads
    <2> QED
      BY <1>2, <1>5, <2>1, <2>2 DEF PersistedTrustState, Reads
  <1>6. CASE cl.op \in Reads
    <2>1. ~Saves(p, cl, at, utcNow)
      BY <1>6 DEF Saves, Reads
    <2>2. cl.op = "is_token_revoked" =>
              Returns(p, cl, utcNow) = Bool(cl.token_id \in p.revoked_token_ids)
      BY DEF Returns
    <2>3. (cl.op = "is_token_revoked" /\ Returns(p, cl, utcNow) = "false") =>
              cl.token_id \notin p.revoked_token_ids
      BY <2>2 DEF Bool
    <2> QED
      BY <1>2, <1>6, <2>1, <2>3 DEF Reads
  <1>7. CASE cl.op \in {"clear_emergency_deny_list", "flush_expired_nonces"}
    BY <1>2, <1>7 DEF Reads
  <1> QED
    BY <1>1, <1>3, <1>4, <1>5, <1>6, <1>7 DEF Operations

-------------------------------------------------------------------------------
(***************************************************************************)
(* The inductive invariant holds                                            *)
(***************************************************************************)

\* The invariant holds before the first call, without a file.
LEMMA InitStoreInv == Init => StoreInv
  <1> SUFFICES ASSUME Init PROVE StoreInv
    OBVIOUS
  <1>1. StoreTypes
    <2>1. EmptyState \in PersistedTrustState
      BY DEF EmptyState, PersistedTrustState
    <2>2. 0 \in 0..MaxTime /\ 0 \in 0..MaxAttempts
      BY BoundAssumption
    <2> QED
      BY <2>1, <2>2 DEF Init, StoreTypes, ProgramCounters, Results
  <1>2. CallsAreMade /\ LockInv
    BY DEF Init, CallsAreMade, LockInv, Holds
  <1>3. \A c \in Clients : CopyIsCurrent(c) /\ ResultIsInFile(c)
    BY DEF Init, CopyIsCurrent, ResultIsInFile
  <1>4. AcknowledgedIsDurable
    BY DEF Init, AcknowledgedIsDurable
  <1> QED
    BY <1>1, <1>2, <1>3, <1>4 DEF StoreInv

\* A step of a process that ends outside the lock, and touches neither the files
\* nor what was acknowledged, keeps the invariant of all the others.
LEMMA OutsideStoreInv ==
    ASSUME StoreInv, NEW c \in Clients, StoreTypes', CallsAreMade',
           UNCHANGED <<clock, file, lock_file, history>>,
           pc'[c] \in {"idle", "acquire_lock"},
           \A d \in Clients \ {c} :
               /\ pc'[d] = pc[d] /\ call'[d] = call[d]
               /\ persisted'[d] = persisted[d] /\ result'[d] = result[d]
    PROVE  StoreInv'
  <1> USE DEF StoreInv
  <1>1. LockInv'
    BY DEF LockInv, Holds
  <1>2. ASSUME NEW d \in Clients
        PROVE  CopyIsCurrent(d)'
    BY <1>2 DEF CopyIsCurrent, HoldsAcknowledged, HoldsCall, CallIsFresh, history
  <1>3. ASSUME NEW d \in Clients
        PROVE  ResultIsInFile(d)'
    BY <1>3 DEF ResultIsInFile, Success, HoldsCall, CallIsFresh, history, file
  <1>4. AcknowledgedIsDurable'
    BY DEF AcknowledgedIsDurable, history, file
  <1> QED
    BY <1>1, <1>2, <1>3, <1>4

\* A step of the process inside the lock has to answer only for its own copy and
\* result, and for the file.
LEMMA InsideStoreInv ==
    ASSUME StoreInv, NEW c \in Clients, StoreTypes', CallsAreMade',
           Holds(c), lock_file' = lock_file \/ ~Holds(c)',
           \A d \in Clients \ {c} : pc'[d] = pc[d],
           CopyIsCurrent(c)', ResultIsInFile(c)', AcknowledgedIsDurable'
    PROVE  StoreInv'
  <1> USE DEF StoreInv
  <1>1. \A d \in Clients \ {c} : pc'[d] \in {"idle", "acquire_lock"}
    BY DEF LockInv, Holds, StoreTypes, ProgramCounters
  <1>2. LockInv'
    BY <1>1 DEF LockInv, Holds
  <1>3. ASSUME NEW d \in Clients
        PROVE  CopyIsCurrent(d)' /\ ResultIsInFile(d)'
    BY <1>1, <1>3 DEF CopyIsCurrent, ResultIsInFile
  <1> QED
    BY <1>2, <1>3

\* Steps before the lock: a call begins, or waits once more.
LEMMA BeforeLockStoreInv ==
    ASSUME StoreInv, NEW c \in Clients,
           \/ \E available \in BOOLEAN : SetBackendAvailable(c, available)
           \/ \E cl \in Call : Begin(c, cl)
           \/ RetryLock(c)
    PROVE  StoreInv'
  <1> USE DEF StoreInv
  <1>1. StoreTypes' /\ CallsAreMade'
    BY BoundAssumption
       DEF SetBackendAvailable, Begin, RetryLock, Goto, StoreTypes, CallsAreMade,
           ProgramCounters, file, frame, history
  <1>2. /\ UNCHANGED <<clock, file, lock_file, history>>
        /\ pc'[c] \in {"idle", "acquire_lock"}
        /\ \A d \in Clients \ {c} :
              /\ pc'[d] = pc[d] /\ call'[d] = call[d]
              /\ persisted'[d] = persisted[d] /\ result'[d] = result[d]
    BY DEF SetBackendAvailable, Begin, RetryLock, Goto, frame, StoreTypes
  <1> QED
    BY <1>1, <1>2, OutsideStoreInv

\* A call ends without the lock, or its process dies: the files stay as they are.
LEMMA LeaveStoreInv ==
    ASSUME StoreInv, NEW c \in Clients, GiveUp(c) \/ LockFails(c) \/ Crash(c)
    PROVE  StoreInv'
  <1> USE DEF StoreInv
  <1>1. /\ Leave(c)
        /\ UNCHANGED <<clock, file, lock_file, backend_available, history>>
    BY DEF GiveUp, LockFails, Crash
  <1>2. StoreTypes' /\ CallsAreMade'
    <2>1. EmptyState \in PersistedTrustState
      BY DEF EmptyState, PersistedTrustState
    <2>2. 0 \in 0..MaxTime /\ 0 \in 0..MaxAttempts
      BY BoundAssumption
    <2> QED
      BY <1>1, <2>1, <2>2
         DEF Leave, StoreTypes, CallsAreMade, ProgramCounters, Results, file, history
  <1>3. /\ pc'[c] \in {"idle", "acquire_lock"}
        /\ \A d \in Clients \ {c} :
              /\ pc'[d] = pc[d] /\ call'[d] = call[d]
              /\ persisted'[d] = persisted[d] /\ result'[d] = result[d]
    BY <1>1 DEF Leave, StoreTypes
  <1> QED
    BY <1>1, <1>2, <1>3, OutsideStoreInv

\* create_new succeeds only where no lock file is, hence nobody is inside.
LEMMA CreateLockStoreInv ==
    ASSUME StoreInv, NEW c \in Clients, CreateLock(c)
    PROVE  StoreInv'
  <1> USE DEF StoreInv
  <1>1. /\ pc[c] = "acquire_lock" /\ ~lock_file
        /\ pc' = [pc EXCEPT ![c] = "load_persisted"]
        /\ lock_file' = TRUE
        /\ UNCHANGED <<clock, file_status, file_content, backend_available, call,
                       called_at, attempts, persisted, result, revoked_ok, denied_ok,
                       granted>>
    BY DEF CreateLock, Goto, file, frame, history
  <1>2. StoreTypes' /\ CallsAreMade'
    BY <1>1 DEF StoreTypes, CallsAreMade, ProgramCounters
  <1>3. \A d \in Clients : ~Holds(d)
    BY <1>1 DEF LockInv
  <1>4. LockInv'
    BY <1>1, <1>3 DEF LockInv, Holds, StoreTypes
  <1>5. ASSUME NEW d \in Clients
        PROVE  CopyIsCurrent(d)' /\ ResultIsInFile(d)'
    BY <1>1, <1>3 DEF CopyIsCurrent, ResultIsInFile, Holds, StoreTypes
  <1>6. AcknowledgedIsDurable'
    BY <1>1 DEF AcknowledgedIsDurable, StoreTypes
  <1> QED
    BY <1>2, <1>4, <1>5, <1>6

\* The file cannot be read or parsed, or a half of fs::write fails: the call is
\* answered with an error and the file stays as it is.
LEMMA ErrorStoreInv ==
    ASSUME StoreInv, NEW c \in Clients, ParseFails(c) \/ ReadFails(c) \/ SaveFails(c)
    PROVE  StoreInv'
  <1> USE DEF StoreInv
  <1>1. /\ Holds(c)
        /\ pc' = [pc EXCEPT ![c] = "unlock"]
        /\ result' = [result EXCEPT ![c] = "error"]
        /\ UNCHANGED <<clock, file_status, file_content, lock_file, backend_available,
                       call, called_at, attempts, persisted, revoked_ok, denied_ok,
                       granted>>
    BY DEF ParseFails, ReadFails, SaveFails, Goto, Give, Holds, file, history
  <1>2. StoreTypes' /\ CallsAreMade'
    BY <1>1 DEF StoreTypes, CallsAreMade, ProgramCounters, Results, Holds
  <1>3. CopyIsCurrent(c)' /\ ResultIsInFile(c)'
    BY <1>1 DEF CopyIsCurrent, ResultIsInFile, Success, StoreTypes
  <1>4. AcknowledgedIsDurable'
    BY <1>1 DEF AcknowledgedIsDurable, StoreTypes
  <1>5. \A d \in Clients \ {c} : pc'[d] = pc[d]
    BY <1>1 DEF StoreTypes
  <1> QED
    BY <1>1, <1>2, <1>3, <1>4, <1>5, InsideStoreInv

\* load_persisted of a file that parses, and the computation on it.
LEMMA LoadStoreInv ==
    ASSUME StoreInv, NEW c \in Clients, Load(c)
    PROVE  StoreInv'
  <1> USE DEF StoreInv
  <1>1. PICK p \in Parsed :
          /\ result' = [result EXCEPT ![c] = Returns(p, call[c], clock)]
          /\ persisted' = [persisted EXCEPT ![c] =
                              After(p, call[c], called_at[c], clock)]
          /\ \/ /\ Saves(p, call[c], called_at[c], clock)
                /\ pc' = [pc EXCEPT ![c] = "truncate"]
             \/ /\ ~Saves(p, call[c], called_at[c], clock)
                /\ pc' = [pc EXCEPT ![c] = "unlock"]
    BY DEF Load, Give, Goto
  <1>2. /\ pc[c] = "load_persisted"
        /\ UNCHANGED <<clock, file_status, file_content, lock_file, backend_available,
                       call, called_at, attempts, revoked_ok, denied_ok, granted>>
    BY DEF Load, file, history
  <1>3. /\ p = IF file_status = "absent" THEN EmptyState ELSE file_content
        /\ file_status # "damaged"
        /\ p \in PersistedTrustState
    <2>1. EmptyState \in PersistedTrustState
      BY DEF EmptyState, PersistedTrustState
    <2>2. CASE file_status = "absent"
      BY <1>1, <2>1, <2>2 DEF Parsed
    <2>3. CASE file_status = "valid"
      BY <1>1, <2>3 DEF Parsed, StoreTypes
    <2>4. CASE file_status = "damaged"
      BY <1>1, <2>4 DEF Parsed
    <2> QED
      BY <2>2, <2>3, <2>4 DEF StoreTypes
  <1>4. /\ call[c] \in Call
        /\ called_at[c] \in Nat /\ clock \in Nat /\ called_at[c] <= clock
    BY <1>2, BoundAssumption DEF CallsAreMade, StoreTypes
  <1> DEFINE q == After(p, call[c], called_at[c], clock)
             v == Returns(p, call[c], clock)
  <1>5. /\ q \in PersistedTrustState
        /\ p.revoked_token_ids \subseteq q.revoked_token_ids
        /\ call[c].op # "clear_emergency_deny_list" =>
              p.emergency_denied_agents \subseteq q.emergency_denied_agents
        /\ \A e \in p.consumed_nonces : e.valid_until >= clock => e \in q.consumed_nonces
    BY <1>3, <1>4, AfterFacts
  <1>6. /\ v \in Results
        /\ (call[c].op = "is_token_revoked" /\ v = "false") =>
              call[c].token_id \notin p.revoked_token_ids
        /\ Saves(p, call[c], called_at[c], clock) =>
              /\ call[c].op \notin Reads
              /\ HoldsCall(c, q)
              /\ call[c].op = "consume_nonce" =>
                    \A e \in p.consumed_nonces :
                        e.nonce = call[c].nonce => e.valid_until < clock
        /\ ~Saves(p, call[c], called_at[c], clock) =>
              /\ call[c].op \notin {"revoke_token", "emergency_deny_agent"}
              /\ call[c].op = "consume_nonce" => v # "true"
    BY <1>3, <1>4, SavesFacts DEF HoldsCall
  <1>7. /\ revoked_ok \subseteq p.revoked_token_ids
        /\ denied_ok \subseteq p.emergency_denied_agents
        /\ \A e \in granted : e \in p.consumed_nonces \/ e.valid_until < clock
        /\ \A e \in granted : e.valid_until \in Nat
    BY <1>3 DEF AcknowledgedIsDurable, StoreTypes, NonceEntry
  <1> HIDE DEF q, v
  <1>8. StoreTypes' /\ CallsAreMade'
    BY <1>1, <1>2, <1>5, <1>6
       DEF StoreTypes, CallsAreMade, ProgramCounters, q, v
  <1>9. ASSUME pc'[c] = "truncate"
        PROVE  CopyIsCurrent(c)' /\ ResultIsInFile(c)'
    <2>1. Saves(p, call[c], called_at[c], clock)
      BY <1>1, <1>9 DEF StoreTypes
    <2>2. \A e \in granted : e \in q.consumed_nonces \/ e.valid_until < clock
      BY <1>4, <1>5, <1>7
    <2>3. CallIsFresh(c)
      BY <1>6, <1>7, <2>1 DEF CallIsFresh
    <2>4. persisted'[c] = q
      BY <1>1 DEF q, StoreTypes
    <2>5. CopyIsCurrent(c)'
      BY <1>2, <1>5, <1>6, <1>7, <1>9, <2>1, <2>2, <2>3, <2>4
         DEF CopyIsCurrent, HoldsAcknowledged, HoldsCall, CallIsFresh
    <2> QED
      BY <1>9, <2>5 DEF ResultIsInFile
  <1>10. ASSUME pc'[c] = "unlock"
         PROVE  CopyIsCurrent(c)' /\ ResultIsInFile(c)'
    <2>1. ~Saves(p, call[c], called_at[c], clock)
      BY <1>1, <1>10 DEF StoreTypes
    <2>2. result'[c] = v
      BY <1>1 DEF v, StoreTypes
    <2>3. ResultIsInFile(c)'
      BY <1>2, <1>6, <1>7, <2>1, <2>2 DEF ResultIsInFile, Success
    <2> QED
      BY <1>10, <2>3 DEF CopyIsCurrent
  <1>11. CopyIsCurrent(c)' /\ ResultIsInFile(c)'
    BY <1>1, <1>9, <1>10 DEF StoreTypes
  <1>12. AcknowledgedIsDurable'
    BY <1>2, <1>3 DEF AcknowledgedIsDurable
  <1>13. Holds(c) /\ \A d \in Clients \ {c} : pc'[d] = pc[d]
    BY <1>1, <1>2 DEF StoreTypes, Holds
  <1> QED
    BY <1>2, <1>8, <1>11, <1>12, <1>13, InsideStoreInv

\* fs::write opens the file with truncation: nothing is readable until it is
\* written, and a clear begins to count.
LEMMA TruncateStoreInv ==
    ASSUME StoreInv, NEW c \in Clients, Truncate(c)
    PROVE  StoreInv'
  <1> USE DEF StoreInv
  <1>1. /\ pc[c] = "truncate"
        /\ pc' = [pc EXCEPT ![c] = "write"]
        /\ file_status' = "damaged"
        /\ denied_ok' = IF call[c].op = "clear_emergency_deny_list" THEN {} ELSE denied_ok
        /\ UNCHANGED <<clock, file_content, lock_file, backend_available, call,
                       called_at, attempts, persisted, result, revoked_ok, granted>>
    BY DEF Truncate, Goto, frame
  <1>2. Holds(c) /\ \A d \in Clients \ {c} : pc'[d] = pc[d] /\ ~Holds(d)
    BY <1>1 DEF StoreTypes, Holds, LockInv
  <1>3. StoreTypes' /\ CallsAreMade'
    BY <1>1 DEF StoreTypes, CallsAreMade, ProgramCounters
  <1>4. CopyIsCurrent(c)'
    BY <1>1 DEF CopyIsCurrent, HoldsAcknowledged, HoldsCall, CallIsFresh
  <1>5. ResultIsInFile(c)'
    BY <1>1 DEF ResultIsInFile, StoreTypes
  <1>6. AcknowledgedIsDurable'
    BY <1>1, <1>2 DEF AcknowledgedIsDurable, Holds, StoreTypes
  <1> QED
    BY <1>1, <1>2, <1>3, <1>4, <1>5, <1>6, InsideStoreInv

\* The file becomes the copy, which lacks nothing that was acknowledged.
LEMMA WriteStoreInv ==
    ASSUME StoreInv, NEW c \in Clients, Write(c)
    PROVE  StoreInv'
  <1> USE DEF StoreInv
  <1>1. /\ pc[c] = "write"
        /\ pc' = [pc EXCEPT ![c] = "unlock"]
        /\ file_status' = "valid"
        /\ file_content' = persisted[c]
        /\ UNCHANGED <<clock, lock_file, backend_available, call, called_at, attempts,
                       persisted, result, revoked_ok, denied_ok, granted>>
    BY DEF Write, Goto, frame, history
  <1>2. Holds(c) /\ \A d \in Clients \ {c} : pc'[d] = pc[d]
    BY <1>1 DEF StoreTypes, Holds
  <1>3. StoreTypes' /\ CallsAreMade'
    BY <1>1 DEF StoreTypes, CallsAreMade, ProgramCounters
  <1>4. /\ call[c].op \notin Reads
        /\ HoldsAcknowledged(persisted[c])
        /\ denied_ok \subseteq persisted[c].emergency_denied_agents
        /\ HoldsCall(c, persisted[c])
        /\ CallIsFresh(c)
    BY <1>1 DEF CopyIsCurrent
  <1>5. CopyIsCurrent(c)'
    BY <1>1 DEF CopyIsCurrent, StoreTypes
  <1>6. ResultIsInFile(c)'
    BY <1>1, <1>4 DEF ResultIsInFile, HoldsCall, CallIsFresh, Reads
  <1>7. AcknowledgedIsDurable'
    BY <1>1, <1>4 DEF AcknowledgedIsDurable, HoldsAcknowledged
  <1> QED
    BY <1>1, <1>2, <1>3, <1>5, <1>6, <1>7, InsideStoreInv

\* The call returns.  What it acknowledges is in the file, or the file cannot be
\* read; nobody else is inside the lock whose copy could lack it.
LEMMA UnlockStoreInv ==
    ASSUME StoreInv, NEW c \in Clients, Unlock(c)
    PROVE  StoreInv'
  <1> USE DEF StoreInv
  <1> DEFINE cl == call[c]
             entry == [nonce |-> cl.nonce, valid_until |-> cl.valid_until]
  <1>1. /\ pc[c] = "unlock"
        /\ Leave(c)
        /\ lock_file' \in {FALSE, lock_file}
        /\ UNCHANGED <<clock, file_status, file_content, backend_available>>
    BY DEF Unlock, file
  <1>2. /\ revoked_ok' \subseteq revoked_ok \cup {cl.token_id}
        /\ revoked_ok' = revoked_ok \/ (cl.op = "revoke_token" /\ result[c] = "ok")
        /\ denied_ok' \subseteq denied_ok \cup {cl.agent_id}
        /\ denied_ok' = denied_ok \/ (cl.op = "emergency_deny_agent" /\ result[c] = "ok")
        /\ granted' \subseteq granted \cup {entry}
        /\ granted' = granted \/ (cl.op = "consume_nonce" /\ result[c] = "true")
    BY DEF Unlock, Acknowledge
  <1>3. cl \in Call
    BY <1>1 DEF CallsAreMade
  <1>4. /\ cl.token_id \in TokenIds /\ cl.agent_id \in Agents
        /\ entry \in NonceEntry
    BY <1>3 DEF Call, NonceEntry
  <1>5. StoreTypes' /\ CallsAreMade'
    <2>1. EmptyState \in PersistedTrustState
      BY DEF EmptyState, PersistedTrustState
    <2>2. 0 \in 0..MaxTime /\ 0 \in 0..MaxAttempts
      BY BoundAssumption
    <2>3. /\ revoked_ok' \subseteq TokenIds
          /\ denied_ok' \subseteq Agents
          /\ granted' \subseteq NonceEntry
      BY <1>2, <1>4 DEF StoreTypes
    <2>4. lock_file' \in BOOLEAN
      BY <1>1 DEF StoreTypes
    <2> HIDE DEF cl, entry
    <2>5. StoreTypes'
      BY <1>1, <2>1, <2>2, <2>3, <2>4 DEF Leave, StoreTypes, ProgramCounters, Results
    <2>6. CallsAreMade'
      BY <1>1 DEF Leave, StoreTypes, CallsAreMade
    <2> QED
      BY <2>5, <2>6
  <1>6. /\ Holds(c) /\ ~Holds(c)'
        /\ \A d \in Clients \ {c} : pc'[d] = pc[d] /\ ~Holds(d)
        /\ pc'[c] = "idle"
    BY <1>1 DEF StoreTypes, Holds, LockInv, Leave
  <1>7. CopyIsCurrent(c)' /\ ResultIsInFile(c)'
    BY <1>6 DEF CopyIsCurrent, ResultIsInFile
  <1>8. AcknowledgedIsDurable'
    <2>1. \A d \in Clients : pc'[d] # "truncate"
      BY <1>6 DEF Holds
    <2>2. CASE file_status = "damaged"
      BY <1>1, <2>1, <2>2 DEF AcknowledgedIsDurable
    <2>3. CASE file_status # "damaged"
      <3> DEFINE p == IF file_status = "absent" THEN EmptyState ELSE file_content
      <3>1. /\ revoked_ok \subseteq p.revoked_token_ids
            /\ denied_ok \subseteq p.emergency_denied_agents
            /\ \A e \in granted : e \in p.consumed_nonces \/ e.valid_until < clock
        BY <2>3 DEF AcknowledgedIsDurable
      <3>2. revoked_ok' \subseteq p.revoked_token_ids
        BY <1>1, <1>2, <3>1 DEF ResultIsInFile, HoldsCall, Success
      <3>3. denied_ok' \subseteq p.emergency_denied_agents
        BY <1>1, <1>2, <3>1 DEF ResultIsInFile, HoldsCall, Success
      <3>4. \A e \in granted' : e \in p.consumed_nonces \/ e.valid_until < clock
        BY <1>1, <1>2, <3>1 DEF ResultIsInFile, HoldsCall, Success
      <3> QED
        BY <1>1, <2>3, <3>2, <3>3, <3>4 DEF AcknowledgedIsDurable
    <2> QED
      BY <2>2, <2>3
  <1> QED
    BY <1>5, <1>6, <1>7, <1>8, InsideStoreInv

\* The operator's repair, time, and steps of others that leave the store alone.
LEMMA AroundStoreInv ==
    ASSUME StoreInv, RemoveStaleLock \/ Tick \/ UNCHANGED vars
    PROVE  StoreInv'
  <1> USE DEF StoreInv
  <1>1. UNCHANGED <<file_status, file_content, backend_available, pc, call, called_at,
                    attempts, persisted, result, revoked_ok, denied_ok, granted>>
    BY DEF RemoveStaleLock, Tick, vars, file, frame, history
  <1>2. /\ clock' \in 0..MaxTime /\ clock' >= clock
        /\ lock_file' \in BOOLEAN
        /\ lock_file' = lock_file \/ \A c \in Clients : ~Holds(c)
    <2>1. clock' \in 0..MaxTime /\ clock' >= clock
      BY BoundAssumption DEF RemoveStaleLock, Tick, vars, StoreTypes
    <2>2. lock_file' = lock_file \/ (lock_file' = FALSE /\ \A c \in Clients : ~Holds(c))
      BY DEF RemoveStaleLock, Tick, vars
    <2> QED
      BY <2>1, <2>2 DEF StoreTypes
  <1>3. StoreTypes' /\ CallsAreMade'
    BY <1>1, <1>2, BoundAssumption DEF StoreTypes, CallsAreMade
  <1>4. LockInv'
    BY <1>1, <1>2 DEF LockInv, Holds
  <1>5. \A g \in granted : g.valid_until < clock => g.valid_until < clock'
    BY <1>2, BoundAssumption DEF StoreTypes, NonceEntry
  <1>6. ASSUME NEW c \in Clients
        PROVE  CopyIsCurrent(c)' /\ ResultIsInFile(c)'
    BY <1>1, <1>5
       DEF CopyIsCurrent, ResultIsInFile, HoldsAcknowledged, HoldsCall, CallIsFresh
  <1>7. AcknowledgedIsDurable'
    BY <1>1, <1>5 DEF AcknowledgedIsDurable
  <1> QED
    BY <1>3, <1>4, <1>6, <1>7

\* Every step of the store keeps the invariant, whatever program makes the calls.
LEMMA ActionStoreInv ==
    ASSUME StoreInv,
           \/ \E c \in Clients :
                 \/ \E available \in BOOLEAN : SetBackendAvailable(c, available)
                 \/ \E cl \in Call : Begin(c, cl)
                 \/ Step(c)
                 \/ Fault(c)
           \/ RemoveStaleLock
           \/ Tick
           \/ UNCHANGED vars
    PROVE  StoreInv'
  BY BeforeLockStoreInv, LeaveStoreInv, CreateLockStoreInv, ErrorStoreInv, LoadStoreInv,
     TruncateStoreInv, WriteStoreInv, UnlockStoreInv, AroundStoreInv
     DEF Step, Fault

\* The invariant is inductive.
THEOREM StoreInductive == Spec => []StoreInv
  <1>1. StoreInv /\ [Next]_vars => StoreInv'
    BY ActionStoreInv, CallAssumption DEF Next
  <1> QED
    BY InitStoreInv, <1>1, PTL DEF Spec

-------------------------------------------------------------------------------
(***************************************************************************)
(* What follows from it                                                     *)
(***************************************************************************)

\* The processes make no other calls than Calls.
MakesCalls == call \in [Clients -> Calls \cup {NoCall}]

\* Every variable keeps its type, at most one process is inside the lock, and
\* the lock file exists while one is.
THEOREM LockIsExclusive == Spec => []MutualExclusion
  <1>1. Init => MakesCalls
    BY DEF Init, MakesCalls
  <1>2. MakesCalls /\ [Next]_vars => MakesCalls'
    <2> SUFFICES ASSUME MakesCalls, [Next]_vars PROVE MakesCalls'
      OBVIOUS
    <2>1. ASSUME NEW c \in Clients, NEW cl \in Calls, Begin(c, cl)
          PROVE  MakesCalls'
      BY <2>1 DEF Begin, MakesCalls
    <2>2. ASSUME NEW c \in Clients,
                 GiveUp(c) \/ LockFails(c) \/ Crash(c) \/ Unlock(c)
          PROVE  MakesCalls'
      BY <2>2 DEF GiveUp, LockFails, Crash, Unlock, Leave, MakesCalls
    <2>3. ASSUME NEW c \in Clients,
                 \/ \E available \in BOOLEAN : SetBackendAvailable(c, available)
                 \/ CreateLock(c) \/ RetryLock(c) \/ Load(c) \/ ParseFails(c)
                 \/ Truncate(c) \/ Write(c) \/ ReadFails(c) \/ SaveFails(c)
          PROVE  MakesCalls'
      <3>1. call' = call
        BY <2>3 DEF SetBackendAvailable, CreateLock, RetryLock, Load, ParseFails,
                    Truncate, Write, ReadFails, SaveFails, frame
      <3> QED
        BY <3>1 DEF MakesCalls
    <2>4. CASE RemoveStaleLock \/ Tick \/ UNCHANGED vars
      <3>1. call' = call
        BY <2>4 DEF RemoveStaleLock, Tick, vars, frame
      <3> QED
        BY <3>1 DEF MakesCalls
    <2> QED
      BY <2>1, <2>2, <2>3, <2>4 DEF Next, Step, Fault
  <1>3. StoreInv /\ MakesCalls => MutualExclusion
    BY DEF StoreInv, StoreTypes, LockInv, MakesCalls, MutualExclusion, TypeOK
  <1> QED
    BY <1>1, <1>2, <1>3, StoreInductive, PTL DEF Spec

\* What was acknowledged is in the file as long as the file can be read, over
\* crashes, failed writes and concurrent processes; a file that cannot be read
\* is never overwritten.
THEOREM AcknowledgedDurable == Spec => []AcknowledgedIsDurable
  BY StoreInductive, PTL DEF StoreInv

\* consume_nonce tells at most one caller that a nonce is fresh until the expiry
\* that caller's token had.
THEOREM FreshAtMostOnce == Spec => []FreshOnce
  <1>1. StoreInv => FreshOnce
    BY DEF StoreInv, ResultIsInFile, Success, CallIsFresh, FreshOnce
  <1> QED
    BY <1>1, StoreInductive, PTL

-------------------------------------------------------------------------------
(***************************************************************************)
(* The control plane.  The store keeps the invariant above, since a command   *)
(* makes only calls of the type Call; what is added here ties the progress of *)
(* each command to what the store has acknowledged.                          *)
(***************************************************************************)

Asks == <<"is_token_revoked", "is_agent_emergency_denied", "consume_nonce">>
AsksLeft == {Asks, <<"is_agent_emergency_denied", "consume_nonce">>, <<"consume_nonce">>}

\* The call that c's command makes next.
NextCall(c) ==
    [op |-> Head(todo[c]), token_id |-> command[c].token_id,
     agent_id |-> command[c].agent_id, nonce |-> command[c].nonce,
     valid_until |-> command[c].valid_until]

ControlTypes ==
    /\ proposal_file \in Proposals
    /\ command \in [Clients -> Commands \cup {NoCommand}]
    /\ DOMAIN todo = Clients
    /\ issued_at \in [Clients -> Nat]
    /\ shown \in [Clients -> SUBSET Proposals]
    /\ known \in [Clients -> SUBSET TokenIds]
    /\ started \in 0 .. MaxCommands

Asking(c) == command[c].name = "verify_request" /\ command[c].worth # "forged"

\* The calls still to make are a suffix of what the command has to ask, and a
\* call in progress is the first of them.
CallsInOrder(c) ==
    /\ todo[c] # <<>> =>
          \/ Asking(c) /\ todo[c] \in AsksLeft
          \/ /\ command[c].name \in {"revoke_token", "emergency_deny_agent"}
             /\ todo[c] = <<command[c].name>>
    /\ pc[c] # "idle" => todo[c] # <<>> /\ call[c] = NextCall(c)

\* What the calls that are behind a command have established.
Established(c) ==
    /\ issued_at[c] <= clock
    /\ known[c] \subseteq revoked_ok
    /\ Asking(c) =>
          /\ todo[c] # Asks => command[c].token_id \notin known[c]
          /\ todo[c] = <<>> => \E g \in granted : g.nonce = command[c].nonce
    /\ (command[c].name = "revoke_token" /\ todo[c] = <<>>) =>
          command[c].token_id \in revoked_ok

\* What was reported was established before.
ReportsAreEstablished ==
    /\ \A r \in Reported("Revoked") : r.token_id \in revoked_ok
    /\ AllowedAfterAsking

ControlInv ==
    /\ ControlTypes
    /\ \A c \in Clients : CallsInOrder(c) /\ Established(c)
    /\ ReportsAreEstablished

-------------------------------------------------------------------------------
(***************************************************************************)
(* Lemmas on the operators                                                  *)
(***************************************************************************)

\* The first of the calls that are left, and what is left after it.
LEMMA SuffixFacts ==
    /\ Asks # <<>>
    /\ \A s \in AsksLeft :
          /\ s # <<>>
          /\ Head(s) \in {"is_token_revoked", "is_agent_emergency_denied", "consume_nonce"}
          /\ Head(s) = "is_token_revoked" => s = Asks
          /\ s = Asks => Head(s) = "is_token_revoked"
          /\ Tail(s) # Asks
          /\ Tail(s) = <<>> \/ Tail(s) \in AsksLeft
          /\ Tail(s) = <<>> => Head(s) = "consume_nonce"
    /\ \A name \in {"revoke_token", "emergency_deny_agent"} :
          <<name>> # <<>> /\ Head(<<name>>) = name /\ Tail(<<name>>) = <<>>
  <1>1. /\ Asks # <<>>
        /\ <<"is_agent_emergency_denied", "consume_nonce">> # Asks
        /\ <<"consume_nonce">> # Asks
        /\ <<>> # Asks
    BY DEF Asks
  <1>2. /\ Head(Asks) = "is_token_revoked"
        /\ Tail(Asks) = <<"is_agent_emergency_denied", "consume_nonce">>
    BY DEF Asks
  <1>3. /\ Head(<<"is_agent_emergency_denied", "consume_nonce">>) =
              "is_agent_emergency_denied"
        /\ Tail(<<"is_agent_emergency_denied", "consume_nonce">>) = <<"consume_nonce">>
    OBVIOUS
  <1>4. \A x \in STRING : <<x>> # <<>> /\ Head(<<x>>) = x /\ Tail(<<x>>) = <<>>
    OBVIOUS
  <1>5. \A x, y \in STRING : <<x, y>> # <<>>
    OBVIOUS
  <1> QED
    BY <1>1, <1>2, <1>3, <1>4, <1>5 DEF AsksLeft

\* A command with calls to make is one of Commands, and the next is a call of
\* the store.
LEMMA NextCallType ==
    ASSUME ControlInv, NEW c \in Clients, todo[c] # <<>>
    PROVE  command[c] \in Command /\ NextCall(c) \in Call
  <1>1. command[c] \in Command
    BY CommandAssumption
       DEF ControlInv, ControlTypes, CallsInOrder, Asking, NoCommand
  <1>2. Head(todo[c]) \in Operations
    BY SuffixFacts DEF ControlInv, CallsInOrder, Operations, Reads
  <1> QED
    BY <1>1, <1>2 DEF NextCall, Call, Command

-------------------------------------------------------------------------------
(***************************************************************************)
(* The inductive invariant holds                                            *)
(***************************************************************************)

\* Nothing has been run.
LEMMA InitControlInv == ControlInit => ControlInv
  <1> SUFFICES ASSUME ControlInit PROVE ControlInv
    OBVIOUS
  <1>1. ControlTypes
    BY CommandAssumption DEF ControlInit, ControlTypes
  <1>2. ASSUME NEW c \in Clients
        PROVE  CallsInOrder(c) /\ Established(c)
    BY DEF ControlInit, Init, CallsInOrder, Established, Asking, NoCommand
  <1>3. ReportsAreEstablished
    BY DEF ControlInit, ReportsAreEstablished, AllowedAfterAsking, Reported
  <1> QED
    BY <1>1, <1>2, <1>3 DEF ControlInv

\* What was reported stays established as long as acknowledgements only grow.
LEMMA ReportsKept ==
    ASSUME ReportsAreEstablished, reports' = reports,
           revoked_ok \subseteq revoked_ok', granted \subseteq granted'
    PROVE  ReportsAreEstablished'
  BY DEF ReportsAreEstablished, AllowedAfterAsking, Reported

\* A step of one process answers only for that process and for the reports.
LEMMA ProcessControlInv ==
    ASSUME ControlInv, NEW c \in Clients, ControlTypes', clock' = clock,
           revoked_ok \subseteq revoked_ok', granted \subseteq granted',
           \A d \in Clients \ {c} :
               /\ pc'[d] = pc[d] /\ call'[d] = call[d] /\ command'[d] = command[d]
               /\ todo'[d] = todo[d] /\ issued_at'[d] = issued_at[d]
               /\ known'[d] = known[d],
           CallsInOrder(c)', Established(c)', ReportsAreEstablished'
    PROVE  ControlInv'
  <1>1. ASSUME NEW d \in Clients, d # c
        PROVE  CallsInOrder(d)' /\ Established(d)'
    <2>1. CallsInOrder(d)'
      BY <1>1 DEF ControlInv, CallsInOrder, NextCall, Asking
    <2>2. Established(d)'
      BY <1>1 DEF ControlInv, Established, Asking
    <2> QED
      BY <2>1, <2>2
  <1> QED
    BY <1>1 DEF ControlInv

\* A command is taken up.
LEMMA StartControlInv ==
    ASSUME StoreInv, ControlInv, NEW c \in Clients, NEW cmd \in Commands, Start(c, cmd)
    PROVE  ControlInv'
  <1> USE DEF ControlInv
  <1>1. /\ command[c] = NoCommand /\ started < MaxCommands
        /\ started' = started + 1
        /\ command' = [command EXCEPT ![c] = cmd]
        /\ todo' = [todo EXCEPT ![c] = StoreCalls(cmd)]
        /\ issued_at' = [issued_at EXCEPT ![c] = clock]
        /\ known' = [known EXCEPT ![c] = revoked_ok]
        /\ UNCHANGED <<clock, pc, call, revoked_ok, granted, proposal_file, shown, reports>>
    BY DEF Start, vars, frame, history
  <1>2. ControlTypes'
    BY <1>1, CommandAssumption, BoundAssumption
       DEF ControlTypes, StoreInv, StoreTypes
  <1>3. pc[c] = "idle"
    BY <1>1 DEF CallsInOrder, Asking, NoCommand
  <1>4. /\ command'[c] = cmd /\ todo'[c] = StoreCalls(cmd)
        /\ issued_at'[c] = clock /\ known'[c] = revoked_ok
    BY <1>1 DEF ControlTypes
  <1>5. /\ (cmd.name = "verify_request" /\ cmd.worth # "forged") => StoreCalls(cmd) = Asks
        /\ cmd.name \in {"revoke_token", "emergency_deny_agent"} =>
              StoreCalls(cmd) = <<cmd.name>>
        /\ \/ cmd.name = "verify_request" /\ cmd.worth # "forged"
           \/ cmd.name \in {"revoke_token", "emergency_deny_agent"}
           \/ StoreCalls(cmd) = <<>>
    BY DEF StoreCalls, Asks
  <1>6. CallsInOrder(c)'
    BY <1>1, <1>3, <1>4, <1>5 DEF CallsInOrder, Asking, AsksLeft
  <1>7. Established(c)'
    <2>1. clock \in Nat
      BY BoundAssumption DEF StoreInv, StoreTypes
    <2> QED
      BY <1>1, <1>4, <1>5, <2>1, SuffixFacts DEF Established, Asking
  <1>8. ReportsAreEstablished'
    BY <1>1, ReportsKept
  <1>9. \A d \in Clients \ {c} :
           /\ command'[d] = command[d] /\ todo'[d] = todo[d]
           /\ issued_at'[d] = issued_at[d] /\ known'[d] = known[d]
    BY <1>1 DEF ControlTypes
  <1> QED
    BY <1>1, <1>2, <1>6, <1>7, <1>8, <1>9, ProcessControlInv

\* A command makes its next call, or its call goes on without returning.
LEMMA CallControlInv ==
    ASSUME StoreInv, ControlInv, NEW c \in Clients,
           CallStore(c) \/ StoreWorks(c) \/ StoreFaults(c)
    PROVE  ControlInv'
  <1> USE DEF ControlInv
  <1>1. UNCHANGED <<clock, proposal_file, command, todo, issued_at, shown, reports,
                    started, known, revoked_ok, granted>>
    BY DEF CallStore, StoreWorks, StoreFaults, controlVars, Begin, CreateLock, RetryLock,
           Load, ParseFails, Truncate, Write, ReadFails, SaveFails, history
  <1>2. /\ \A d \in Clients \ {c} : pc'[d] = pc[d] /\ call'[d] = call[d]
        /\ \/ todo[c] # <<>> /\ call'[c] = NextCall(c)
           \/ pc[c] # "idle" /\ call'[c] = call[c]
    <2>1. CASE CallStore(c)
      BY <2>1 DEF CallStore, Begin, Goto, NextCall, StoreInv, StoreTypes
    <2>2. CASE StoreWorks(c) \/ StoreFaults(c)
      BY <2>2 DEF StoreWorks, StoreFaults, CreateLock, RetryLock, Load, ParseFails,
                  Truncate, Write, ReadFails, SaveFails, Goto, frame, StoreInv, StoreTypes
    <2> QED
      BY <2>1, <2>2
  <1>3. ControlTypes'
    BY <1>1 DEF ControlTypes
  <1>4. CallsInOrder(c)'
    BY <1>1, <1>2 DEF CallsInOrder, Asking, NextCall
  <1>5. Established(c)'
    BY <1>1 DEF Established, Asking
  <1>6. ReportsAreEstablished'
    BY <1>1, ReportsKept
  <1> QED
    BY <1>1, <1>2, <1>3, <1>4, <1>5, <1>6, ProcessControlInv

\* A process that ends leaves nothing behind but what it reported.
LEMMA EndControlInv ==
    ASSUME StoreInv, ControlInv, NEW c \in Clients, End(c),
           UNCHANGED <<clock, proposal_file, started>>, pc'[c] = "idle",
           \A d \in Clients \ {c} : pc'[d] = pc[d] /\ call'[d] = call[d],
           revoked_ok \subseteq revoked_ok', granted \subseteq granted',
           ReportsAreEstablished'
    PROVE  ControlInv'
  <1> USE DEF ControlInv
  <1>1. clock \in Nat
    BY BoundAssumption DEF StoreInv, StoreTypes
  <1>2. ControlTypes'
    BY DEF End, ControlTypes
  <1>3. /\ command'[c] = NoCommand /\ todo'[c] = <<>>
        /\ issued_at'[c] = 0 /\ known'[c] = {}
        /\ \A d \in Clients \ {c} :
              /\ command'[d] = command[d] /\ todo'[d] = todo[d]
              /\ issued_at'[d] = issued_at[d] /\ known'[d] = known[d]
    BY DEF End, ControlTypes
  <1>4. CallsInOrder(c)' /\ Established(c)'
    BY <1>1, <1>3 DEF CallsInOrder, Established, Asking, NoCommand
  <1> QED
    BY <1>2, <1>3, <1>4, ProcessControlInv

\* A call returns a value.  The command goes on only if it is favourable, and
\* then has what the call was made for: "not revoked" is true of everything that
\* was acknowledged before the command began, a fresh nonce is granted, and a
\* revocation is acknowledged.
LEMMA ReturnControlInv ==
    ASSUME StoreInv, ControlInv, NEW c \in Clients, StoreReturns(c)
    PROVE  ControlInv'
  <1> USE DEF ControlInv
  <1>1. /\ pc[c] = "unlock" /\ Acknowledge(c) /\ Leave(c)
        /\ UNCHANGED <<clock, proposal_file, reports, started>>
    BY DEF StoreReturns, Unlock
  <1>2. /\ pc'[c] = "idle"
        /\ \A d \in Clients \ {c} : pc'[d] = pc[d] /\ call'[d] = call[d]
    BY <1>1 DEF Leave, StoreInv, StoreTypes
  <1>3. revoked_ok \subseteq revoked_ok' /\ granted \subseteq granted'
    BY <1>1 DEF Acknowledge
  <1>4. ReportsAreEstablished'
    BY <1>1, <1>3, ReportsKept
  <1>5. CASE ~Favourable(call[c].op, result[c])
    BY <1>1, <1>2, <1>3, <1>4, <1>5, EndControlInv DEF StoreReturns
  <1>6. CASE Favourable(call[c].op, result[c])
    <2>1. /\ todo' = [todo EXCEPT ![c] = Tail(@)]
          /\ UNCHANGED <<command, issued_at, shown, known>>
      BY <1>6 DEF StoreReturns
    <2>2. /\ todo[c] # <<>>
          /\ call[c].op = Head(todo[c]) /\ call[c].token_id = command[c].token_id
          /\ call[c].nonce = command[c].nonce
      <3>1. todo[c] # <<>> /\ call[c] = NextCall(c)
        BY <1>1 DEF CallsInOrder
      <3> QED
        BY <3>1 DEF NextCall
    <2>3. todo'[c] = Tail(todo[c])
      BY <2>1 DEF ControlTypes
    <2>4. ControlTypes'
      BY <1>1, <2>1 DEF ControlTypes
    <2>5. CASE Asking(c) /\ todo[c] \in AsksLeft
      <3>1. CallsInOrder(c)'
        BY <1>2, <2>1, <2>3, <2>5, SuffixFacts DEF CallsInOrder, Asking
      <3>2. command[c].token_id \notin known[c]
        <4>1. CASE todo[c] = Asks
          <5>1. call[c].op = "is_token_revoked"
            BY <2>2, <4>1, <2>5, SuffixFacts
          <5>2. result[c] = "false"
            BY <1>6, <5>1 DEF Favourable, Reads
          <5>3. call[c].token_id \notin revoked_ok
            BY <1>1, <5>1, <5>2 DEF StoreInv, ResultIsInFile
          <5> QED
            BY <2>2, <5>3 DEF Established
        <4>2. CASE todo[c] # Asks
          BY <2>5, <4>2 DEF Established
        <4> QED
          BY <4>1, <4>2
      <3>3. Tail(todo[c]) = <<>> => \E g \in granted' : g.nonce = command[c].nonce
        <4> SUFFICES ASSUME Tail(todo[c]) = <<>>
                     PROVE  \E g \in granted' : g.nonce = command[c].nonce
          OBVIOUS
        <4>1. call[c].op = "consume_nonce"
          BY <2>2, <2>5, SuffixFacts
        <4>2. result[c] = "true"
          BY <1>6, <4>1 DEF Favourable, Reads
        <4>3. [nonce |-> call[c].nonce, valid_until |-> call[c].valid_until] \in granted'
          BY <1>1, <4>1, <4>2 DEF Acknowledge
        <4> QED
          BY <2>2, <4>3
      <3>4. Established(c)'
        BY <1>1, <1>3, <2>1, <2>3, <2>5, <3>2, <3>3 DEF Established, Asking
      <3> QED
        BY <1>1, <1>2, <1>3, <1>4, <2>1, <2>4, <3>1, <3>4, ProcessControlInv
           DEF ControlTypes
    <2>6. CASE /\ command[c].name \in {"revoke_token", "emergency_deny_agent"}
               /\ todo[c] = <<command[c].name>>
      <3>1. todo'[c] = <<>> /\ call[c].op = command[c].name
        BY <2>2, <2>3, <2>6, SuffixFacts
      <3>2. CallsInOrder(c)'
        BY <1>2, <3>1 DEF CallsInOrder
      <3>3. command[c].name = "revoke_token" => command[c].token_id \in revoked_ok'
        <4> SUFFICES ASSUME command[c].name = "revoke_token"
                     PROVE  command[c].token_id \in revoked_ok'
          OBVIOUS
        <4>1. result[c] = "ok"
          BY <1>6, <3>1 DEF Favourable, Reads
        <4> QED
          BY <1>1, <2>2, <3>1, <4>1 DEF Acknowledge
      <3>4. Established(c)'
        BY <1>1, <1>3, <2>1, <2>6, <3>1, <3>3 DEF Established, Asking
      <3> QED
        BY <1>1, <1>2, <1>3, <1>4, <2>1, <2>4, <3>2, <3>4, ProcessControlInv
           DEF ControlTypes
    <2> QED
      BY <2>2, <2>5, <2>6 DEF CallsInOrder
  <1> QED
    BY <1>5, <1>6

\* A process ends without a report: a call failed, the decision was no decision,
\* an input or output failed, or it was killed.
LEMMA QuitControlInv ==
    ASSUME StoreInv, ControlInv, NEW c \in Clients,
           StoreFails(c) \/ RefuseDecision(c) \/ ReportFails(c) \/ Kill(c)
    PROVE  ControlInv'
  <1>1. /\ End(c)
        /\ UNCHANGED <<proposal_file, reports, started>>
        /\ \/ Leave(c) /\ UNCHANGED <<clock, file, lock_file, backend_available, history>>
           \/ pc[c] = "idle" /\ UNCHANGED vars
    BY DEF StoreFails, RefuseDecision, ReportFails, Kill, GiveUp, LockFails, Crash, Finished
  <1>2. /\ pc'[c] = "idle"
        /\ \A d \in Clients \ {c} : pc'[d] = pc[d] /\ call'[d] = call[d]
    BY <1>1 DEF Leave, vars, frame, StoreInv, StoreTypes
  <1>3. UNCHANGED <<clock, revoked_ok, granted>>
    BY <1>1 DEF vars, history
  <1>4. ReportsAreEstablished'
    BY <1>1, <1>3, ReportsKept DEF ControlInv
  <1> QED
    BY <1>1, <1>2, <1>3, <1>4, EndControlInv

\* The report: what it says was established when the calls were through.
LEMMA ReportControlInv ==
    ASSUME StoreInv, ControlInv, NEW c \in Clients, Report(c)
    PROVE  ControlInv'
  <1> USE DEF ControlInv
  <1>1. /\ command[c] # NoCommand /\ pc[c] = "idle" /\ todo[c] = <<>>
        /\ reports' = reports \cup ReportOf(c)
        /\ End(c)
        /\ UNCHANGED <<clock, pc, call, revoked_ok, granted, proposal_file, started>>
    BY DEF Report, Finished, vars, frame, history
  <1>2. \A r \in ReportOf(c) :
           /\ r.status = "Revoked" => r.token_id \in revoked_ok
           /\ r.status = "allowed" => /\ \E g \in granted : g.nonce = r.nonce
                                      /\ r.token_id \notin r.known
    <2>1. CASE command[c].name = "revoke_token"
      <3>1. ReportOf(c) = {Receipt(command[c].request_id, "Revoked", issued_at[c],
                                   command[c].token_id)}
        BY <2>1 DEF ReportOf, Approval
      <3>2. command[c].token_id \in revoked_ok
        BY <1>1, <2>1 DEF Established
      <3> QED
        BY <3>1, <3>2 DEF Receipt
    <2>2. CASE Approval(c)
      <3>1. ReportOf(c) = {Receipt(proposal_file, ApprovalStatus(command[c].decision),
                                   clock, "none")}
        BY <2>2 DEF ReportOf, Approval
      <3> QED
        BY <3>1 DEF Receipt, ApprovalStatus
    <2>3. CASE command[c].name = "verify_request" /\ command[c].worth = "authorized"
      <3>1. ReportOf(c) = {[status |-> "allowed", token_id |-> command[c].token_id,
                            nonce |-> command[c].nonce, known |-> known[c]]}
        BY <2>3 DEF ReportOf, Approval
      <3>2. /\ command[c].token_id \notin known[c]
            /\ \E g \in granted : g.nonce = command[c].nonce
        BY <1>1, <2>3, SuffixFacts DEF Established, Asking
      <3> QED
        BY <3>1, <3>2
    <2>4. CASE /\ command[c].name # "revoke_token" /\ ~Approval(c)
               /\ ~(command[c].name = "verify_request" /\ command[c].worth = "authorized")
      <3>1. ReportOf(c) = {}
        BY <2>4 DEF ReportOf
      <3> QED
        BY <3>1
    <2> QED
      BY <2>1, <2>2, <2>3, <2>4
  <1>3. ReportsAreEstablished'
    BY <1>1, <1>2 DEF ReportsAreEstablished, AllowedAfterAsking, Reported
  <1> QED
    BY <1>1, <1>3, EndControlInv

\* The proposal is shown or edited, time passes, a stale lock is removed.
LEMMA AroundControlInv ==
    ASSUME StoreInv, ControlInv,
           \/ \E c \in Clients : ShowProposal(c)
           \/ \E p \in Proposals : EditProposal(p)
           \/ Around
           \/ UNCHANGED allVars
    PROVE  ControlInv'
  <1> USE DEF ControlInv
  <1>1. UNCHANGED <<pc, call, command, todo, issued_at, reports, started, known,
                    revoked_ok, granted>>
    BY DEF ShowProposal, EditProposal, Around, RemoveStaleLock, Tick, allVars,
           controlVars, vars, frame, history
  <1>2. proposal_file' \in Proposals /\ shown' \in [Clients -> SUBSET Proposals]
    BY DEF ShowProposal, EditProposal, Around, allVars, controlVars, ControlTypes
  <1>3. clock \in Nat /\ clock' \in Nat /\ clock <= clock'
    <2>1. clock \in Nat
      BY BoundAssumption DEF StoreInv, StoreTypes
    <2>2. clock' = clock \/ clock' = clock + 1
      BY DEF ShowProposal, EditProposal, Around, RemoveStaleLock, Tick, allVars, vars
    <2> QED
      BY <2>1, <2>2
  <1>4. ControlTypes'
    BY <1>1, <1>2 DEF ControlTypes
  <1>5. ASSUME NEW c \in Clients
        PROVE  CallsInOrder(c)' /\ Established(c)'
    <2>1. CallsInOrder(c)'
      BY <1>1 DEF CallsInOrder, Asking, NextCall
    <2>2. issued_at[c] <= clock'
      BY <1>3 DEF Established, ControlTypes
    <2>3. Established(c)'
      BY <1>1, <2>2 DEF Established, Asking
    <2> QED
      BY <2>1, <2>3
  <1>6. ReportsAreEstablished'
    BY <1>1, ReportsKept
  <1> QED
    BY <1>4, <1>5, <1>6

\* Every step of a command is one of the store, made of a call of the type Call,
\* or leaves the store alone.
LEMMA ControlStepsStore ==
    ASSUME StoreInv, ControlInv, [ControlNext]_allVars
    PROVE  StoreInv'
  <1>1. ASSUME NEW c \in Clients, CallStore(c)
        PROVE  StoreInv'
    <2>1. todo[c] # <<>> /\ Begin(c, NextCall(c))
      BY <1>1 DEF CallStore, NextCall
    <2>2. NextCall(c) \in Call
      BY <2>1, NextCallType
    <2> QED
      BY <2>1, <2>2, BeforeLockStoreInv
  <1>2. ASSUME NEW c \in Clients,
               \/ StoreWorks(c) \/ StoreFaults(c) \/ StoreReturns(c) \/ StoreFails(c)
               \/ Kill(c)
        PROVE  StoreInv'
    <2>1. Step(c) \/ Fault(c) \/ UNCHANGED vars
      BY <1>2 DEF StoreWorks, StoreFaults, StoreReturns, StoreFails, Kill, Step, Fault
    <2> QED
      BY <2>1, ActionStoreInv
  <1>3. ASSUME NEW c \in Clients,
               \/ \E cmd \in Commands : Start(c, cmd)
               \/ ShowProposal(c) \/ RefuseDecision(c) \/ Report(c) \/ ReportFails(c)
        PROVE  StoreInv'
    <2>1. UNCHANGED vars
      BY <1>3 DEF Start, ShowProposal, RefuseDecision, Report, ReportFails
    <2> QED
      BY <2>1, AroundStoreInv
  <1>4. CASE (\E p \in Proposals : EditProposal(p)) \/ Around \/ UNCHANGED allVars
    <2>1. RemoveStaleLock \/ Tick \/ UNCHANGED vars
      BY <1>4 DEF EditProposal, Around, allVars
    <2> QED
      BY <2>1, AroundStoreInv
  <1> QED
    BY <1>1, <1>2, <1>3, <1>4 DEF ControlNext

\* Both invariants are inductive together.
THEOREM ControlInductive == ControlSpec => [](StoreInv /\ ControlInv)
  <1>1. ControlInit => StoreInv /\ ControlInv
    BY InitStoreInv, InitControlInv DEF ControlInit
  <1>2. StoreInv /\ ControlInv /\ [ControlNext]_allVars => StoreInv' /\ ControlInv'
    <2> SUFFICES ASSUME StoreInv, ControlInv, [ControlNext]_allVars
                 PROVE  StoreInv' /\ ControlInv'
      OBVIOUS
    <2>1. StoreInv'
      BY ControlStepsStore
    <2>2. ControlInv'
      BY StartControlInv, CallControlInv, ReturnControlInv, QuitControlInv,
         ReportControlInv, AroundControlInv DEF ControlNext
    <2> QED
      BY <2>1, <2>2
  <1> QED
    BY <1>1, <1>2, PTL DEF ControlSpec

-------------------------------------------------------------------------------
(***************************************************************************)
(* What follows from them                                                   *)
(***************************************************************************)

\* Every variable keeps its type, a process without a command calls nothing, and
\* the call in progress is the next one of its command.
THEOREM ControlTypeCorrect == ControlSpec => []ControlTypeOK
  <1>1. StoreInv /\ ControlInv => ControlTypeOK
    <2> SUFFICES ASSUME StoreInv, ControlInv, NEW c \in Clients
                 PROVE  /\ command[c] \in Commands \cup {NoCommand}
                        /\ issued_at[c] \in 0 .. clock
                        /\ shown[c] \subseteq Proposals
                        /\ known[c] \subseteq revoked_ok
                        /\ command[c] = NoCommand => (todo[c] = <<>> /\ pc[c] = "idle")
                        /\ pc[c] # "idle" => (todo[c] # <<>> /\ call[c].op = Head(todo[c]))
      BY DEF ControlInv, ControlTypes, ControlTypeOK
    <2>1. clock \in Nat /\ issued_at[c] \in Nat /\ issued_at[c] <= clock
      BY BoundAssumption
         DEF StoreInv, StoreTypes, ControlInv, ControlTypes, Established
    <2>2. command[c] = NoCommand => (todo[c] = <<>> /\ pc[c] = "idle")
      BY DEF ControlInv, CallsInOrder, Asking, NoCommand
    <2>3. pc[c] # "idle" => (todo[c] # <<>> /\ call[c].op = Head(todo[c]))
      <3>1. pc[c] # "idle" => todo[c] # <<>> /\ call[c] = NextCall(c)
        BY DEF ControlInv, CallsInOrder
      <3> QED
        BY <3>1 DEF NextCall
    <2> QED
      BY <2>1, <2>2, <2>3 DEF ControlInv, ControlTypes, Established
  <1> QED
    BY <1>1, ControlInductive, PTL

\* A revocation receipt is never issued for a token that is not revoked, over
\* failures, timeouts and concurrent commands, and stays true of the file.
THEOREM ReceiptsTrue == ControlSpec => []ReceiptsAreTrue
  <1>1. StoreInv /\ ControlInv => ReceiptsAreTrue
    <2> SUFFICES ASSUME StoreInv, ControlInv, NEW r \in Reported("Revoked")
                 PROVE  /\ r.token_id \in revoked_ok
                        /\ file_status # "damaged" =>
                              r.token_id \in file_content.revoked_token_ids
      BY DEF ReceiptsAreTrue
    <2>1. r.token_id \in revoked_ok
      BY DEF ControlInv, ReportsAreEstablished
    <2>2. file_status = "absent" => revoked_ok = {}
      BY DEF StoreInv, AcknowledgedIsDurable, EmptyState
    <2>3. file_status = "valid" => revoked_ok \subseteq file_content.revoked_token_ids
      BY DEF StoreInv, AcknowledgedIsDurable
    <2> QED
      BY <2>1, <2>2, <2>3 DEF StoreInv, StoreTypes
  <1> QED
    BY <1>1, ControlInductive, PTL

\* verify_request says "allowed" only of a request whose nonce it has consumed
\* and whose token was not known to be revoked when it started.
THEOREM AllowsAfterAsking == ControlSpec => []AllowedAfterAsking
  BY ControlInductive, PTL DEF ControlInv, ReportsAreEstablished

\* The store that the commands share stays exclusive and durable under them.
THEOREM StoreUnderControl == ControlSpec => [](LockInv /\ AcknowledgedIsDurable /\ FreshOnce)
  <1>1. StoreInv => LockInv /\ AcknowledgedIsDurable /\ FreshOnce
    BY DEF StoreInv, ResultIsInFile, Success, CallIsFresh, FreshOnce
  <1> QED
    BY <1>1, ControlInductive, PTL
===============================================================================
