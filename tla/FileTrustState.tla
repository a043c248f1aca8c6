---------------------------- MODULE FileTrustState ----------------------------
(***************************************************************************)
(* The file-backed trust state (FileBackedTrustState in                     *)
(* src/src/revocation.rs): one JSON file, guarded by a lock file that is    *)
(* created with create_new and removed when the guard is dropped.           *)
(*                                                                          *)
(* Every operation takes the lock, loads the whole file, computes, writes   *)
(* the whole file back if it changed something, and releases the lock.      *)
(* Clients are processes (or threads with a handle of their own) that run   *)
(* one operation at a time and may crash at any point of it.  fs::write     *)
(* truncates the file and then writes it, so a crash or an i/o error in     *)
(* between leaves a file that does not parse.                               *)
(***************************************************************************)
EXTENDS TrustState, FiniteSets

CONSTANTS
    Clients,       \* processes sharing the state file
    Calls,         \* the operations they perform
    MaxAttempts,   \* lock attempts that may fail before the call gives up (20)
    MaxTime        \* bound on the clock

Reads == {"is_token_revoked", "is_agent_emergency_denied"}
Operations == Reads \cup
    {"consume_nonce", "revoke_token", "emergency_deny_agent",
     "clear_emergency_deny_list", "flush_expired_nonces"}

\* Each operation reads the fields it needs.  The reference time of
\* flush_expired_nonces is the clock when the operation was called.
Call == [op : Operations, token_id : TokenIds, agent_id : Agents,
         nonce : Nonces, valid_until : Nat]

NoCall == [op |-> "none"]

ASSUME CallAssumption == Calls \subseteq Call
ASSUME BoundAssumption == MaxAttempts \in Nat /\ MaxTime \in Nat

VARIABLES
    clock,              \* Utc::now()
    file_status,        \* "absent", "valid" or "damaged"
    file_content,       \* what a valid file holds
    lock_file,          \* whether the lock file exists
    backend_available,  \* of each client's handle
    pc, call, called_at, attempts, persisted, result,   \* of each client's call
    (* History, read only by the properties. *)
    revoked_ok,         \* tokens whose revoke_token returned Ok
    denied_ok,          \* agents whose emergency_deny_agent returned Ok since
                        \* the last clear_emergency_deny_list
    granted             \* the consume_nonce calls that returned Ok(true)

file == <<file_status, file_content>>
frame == <<call, called_at, attempts, persisted, result>>
history == <<revoked_ok, denied_ok, granted>>
vars == <<clock, file, lock_file, backend_available, pc, frame, history>>

PersistedTrustState ==
    [revoked_token_ids : SUBSET TokenIds,
     emergency_denied_agents : SUBSET Agents,
     consumed_nonces : SUBSET NonceEntry]

EmptyState ==
    [revoked_token_ids |-> {}, emergency_denied_agents |-> {},
     consumed_nonces |-> {}]

Results == {"none", "true", "false", "ok", "error"}

Init ==
    /\ clock = 0
    /\ file_status = "absent"
    /\ file_content = EmptyState
    /\ lock_file = FALSE
    /\ backend_available = [c \in Clients |-> TRUE]
    /\ pc = [c \in Clients |-> "idle"]
    /\ call = [c \in Clients |-> NoCall]
    /\ called_at = [c \in Clients |-> 0]
    /\ attempts = [c \in Clients |-> 0]
    /\ persisted = [c \in Clients |-> EmptyState]
    /\ result = [c \in Clients |-> "none"]
    /\ revoked_ok = {}
    /\ denied_ok = {}
    /\ granted = {}

-------------------------------------------------------------------------------
(***************************************************************************)
(* What each operation computes from the loaded state p: the state it       *)
(* leaves and the value it returns.                                         *)
(***************************************************************************)
Bool(b) == IF b THEN "true" ELSE "false"

After(p, cl, at, utcNow) ==
    CASE cl.op \in Reads -> p
      [] cl.op = "consume_nonce" ->
            [p EXCEPT !.consumed_nonces =
                Consume(@, cl.nonce, utcNow, cl.valid_until)]
      [] cl.op = "revoke_token" ->
            [p EXCEPT !.revoked_token_ids = @ \cup {cl.token_id}]
      [] cl.op = "emergency_deny_agent" ->
            [p EXCEPT !.emergency_denied_agents = @ \cup {cl.agent_id}]
      [] cl.op = "clear_emergency_deny_list" ->
            [p EXCEPT !.emergency_denied_agents = {}]
      [] cl.op = "flush_expired_nonces" ->
            [p EXCEPT !.consumed_nonces = Retain(@, at)]

Returns(p, cl, utcNow) ==
    CASE cl.op = "is_token_revoked" -> Bool(cl.token_id \in p.revoked_token_ids)
      [] cl.op = "is_agent_emergency_denied" ->
            Bool(cl.agent_id \in p.emergency_denied_agents)
      [] cl.op = "consume_nonce" ->
            Bool(IsFresh(p.consumed_nonces, cl.nonce, utcNow, cl.valid_until))
      [] OTHER -> "ok"

\* Mutant: a replayed nonce is saved, a fresh one is not.
SavesReplay(p, cl, at, utcNow) ==
    CASE cl.op \in Reads -> FALSE
      [] cl.op = "consume_nonce" -> Returns(p, cl, utcNow) = "false"
      [] cl.op = "flush_expired_nonces" -> After(p, cl, at, utcNow) # p
      [] OTHER -> TRUE

\* Whether the operation calls save_persisted: a replay is answered without
\* saving the pruned map, a flush that removed nothing does not save.
Saves(p, cl, at, utcNow) ==
    CASE cl.op \in Reads -> FALSE
      [] cl.op = "consume_nonce" -> Returns(p, cl, utcNow) = "true"
      [] cl.op = "flush_expired_nonces" -> After(p, cl, at, utcNow) # p
      [] OTHER -> TRUE

-------------------------------------------------------------------------------
(***************************************************************************)
(* The steps of one call.                                                   *)
(***************************************************************************)
Goto(c, from, to) == pc[c] = from /\ pc' = [pc EXCEPT ![c] = to]
Give(c, value) == result' = [result EXCEPT ![c] = value]

\* The call is over and its local variables are gone.
Leave(c) ==
    /\ pc' = [pc EXCEPT ![c] = "idle"]
    /\ call' = [call EXCEPT ![c] = NoCall]
    /\ called_at' = [called_at EXCEPT ![c] = 0]
    /\ attempts' = [attempts EXCEPT ![c] = 0]
    /\ persisted' = [persisted EXCEPT ![c] = EmptyState]
    /\ result' = [result EXCEPT ![c] = "none"]

\* set_backend_available takes the handle exclusively.
SetBackendAvailable(c, available) ==
    /\ pc[c] = "idle"
    /\ backend_available' = [backend_available EXCEPT ![c] = available]
    /\ UNCHANGED <<clock, file, lock_file, pc, frame, history>>

\* ensure_available has passed; without it the call returns an error at once.
Begin(c, cl) ==
    /\ backend_available[c]
    /\ Goto(c, "idle", "acquire_lock")
    /\ call' = [call EXCEPT ![c] = cl]
    /\ called_at' = [called_at EXCEPT ![c] = clock]
    /\ UNCHANGED <<clock, file, lock_file, backend_available, attempts,
                   persisted, result, history>>

\* Mutant: the lock is opened with create, not create_new.
CreateLockShared(c) ==
    /\ Goto(c, "acquire_lock", "load_persisted")
    /\ lock_file' = TRUE
    /\ UNCHANGED <<clock, file, backend_available, frame, history>>

CreateLock(c) ==
    /\ ~lock_file
    /\ Goto(c, "acquire_lock", "load_persisted")
    /\ lock_file' = TRUE
    /\ UNCHANGED <<clock, file, backend_available, frame, history>>

\* The lock file exists: count, sleep and try again.
RetryLock(c) ==
    /\ pc[c] = "acquire_lock"
    /\ lock_file
    /\ attempts[c] < MaxAttempts
    /\ attempts' = [attempts EXCEPT ![c] = @ + 1]
    /\ UNCHANGED <<clock, file, lock_file, backend_available, pc, call, called_at,
                   persisted, result, history>>

\* Mutant: a call that is out of attempts keeps waiting.
GiveUpNever(c) ==
    /\ ~lock_file
    /\ pc[c] = "acquire_lock"
    /\ attempts[c] >= MaxAttempts
    /\ Leave(c)
    /\ UNCHANGED <<clock, file, lock_file, backend_available, history>>

\* The lock file still exists at the last attempt: the call returns an error.
GiveUp(c) ==
    /\ lock_file
    /\ pc[c] = "acquire_lock"
    /\ attempts[c] >= MaxAttempts
    /\ Leave(c)
    /\ UNCHANGED <<clock, file, lock_file, backend_available, history>>

\* The directory or the lock file cannot be created for another reason.
LockFails(c) ==
    /\ pc[c] = "acquire_lock"
    /\ Leave(c)
    /\ UNCHANGED <<clock, file, lock_file, backend_available, history>>

\* What load_persisted can return Ok with: the empty state for an absent
\* file, nothing for one that does not parse.  path.exists() is taken to tell
\* the truth; it says no of a file that it cannot stat, too.
Parsed ==
    CASE file_status = "absent" -> {EmptyState}
      [] file_status = "valid" -> {file_content}
      [] file_status = "damaged" -> {}

\* load_persisted and the computation on what it returns.
Load(c) ==
    pc[c] = "load_persisted" /\ \E p \in Parsed :
        /\ Give(c, Returns(p, call[c], clock))
        /\ persisted' = [persisted EXCEPT ![c] =
                            After(p, call[c], called_at[c], clock)]
        /\ \/ /\ Saves(p, call[c], called_at[c], clock)
              /\ Goto(c, "load_persisted", "truncate")
           \/ /\ ~Saves(p, call[c], called_at[c], clock)
              /\ Goto(c, "load_persisted", "unlock")
        /\ UNCHANGED <<clock, file, lock_file, backend_available, call, called_at,
                       attempts, history>>

\* The file does not parse.
ParseFails(c) ==
    /\ file_status = "damaged"
    /\ Goto(c, "load_persisted", "unlock")
    /\ Give(c, "error")
    /\ UNCHANGED <<clock, file, lock_file, backend_available, call, called_at,
                   attempts, persisted, history>>

\* The file cannot be read.
ReadFails(c) ==
    /\ Goto(c, "load_persisted", "unlock")
    /\ Give(c, "error")
    /\ UNCHANGED <<clock, file, lock_file, backend_available, call, called_at,
                   attempts, persisted, history>>

\* fs::write opens the file with truncation ...
Truncate(c) ==
    /\ Goto(c, "truncate", "write")
    /\ file_status' = "damaged"
    /\ denied_ok' = IF call[c].op = "clear_emergency_deny_list" THEN {} ELSE denied_ok
    /\ UNCHANGED <<clock, file_content, lock_file, backend_available, frame,
                   revoked_ok, granted>>

\* ... and then writes the encoded state.
Write(c) ==
    /\ Goto(c, "write", "unlock")
    /\ file_status' = "valid"
    /\ file_content' = persisted[c]
    /\ UNCHANGED <<clock, lock_file, backend_available, frame, history>>

\* Mutant: the error of save_persisted is dropped.
SaveFailsSilently(c) ==
    /\ \/ Goto(c, "truncate", "unlock")
       \/ Goto(c, "write", "unlock")
    /\ UNCHANGED <<clock, file, lock_file, backend_available, frame, history>>

\* Either half fails.  The value computed so far is replaced by the error.
SaveFails(c) ==
    /\ \/ Goto(c, "truncate", "unlock")
       \/ Goto(c, "write", "unlock")
    /\ Give(c, "error")
    /\ UNCHANGED <<clock, file, lock_file, backend_available, call, called_at,
                   attempts, persisted, history>>

\* What a caller that gets a value may rely on.
Acknowledge(c) ==
    LET cl == call[c]
        ok(op, value) == cl.op = op /\ result[c] = value
    IN
    /\ revoked_ok' = IF ok("revoke_token", "ok")
                     THEN revoked_ok \cup {cl.token_id} ELSE revoked_ok
    /\ denied_ok' = IF ok("emergency_deny_agent", "ok")
                    THEN denied_ok \cup {cl.agent_id} ELSE denied_ok
    /\ granted' = IF ok("consume_nonce", "true")
                  THEN granted \cup {[nonce |-> cl.nonce,
                                      valid_until |-> cl.valid_until]}
                  ELSE granted

\* FileLockGuard::drop, whose error is ignored, and the return of the call.
Unlock(c) ==
    /\ pc[c] = "unlock"
    /\ lock_file' \in {FALSE, lock_file}
    /\ Acknowledge(c)
    /\ Leave(c)
    /\ UNCHANGED <<clock, file, backend_available>>

\* The process dies; another takes its place.  Nothing is cleaned up.
Crash(c) ==
    /\ pc[c] # "idle"
    /\ Leave(c)
    /\ UNCHANGED <<clock, file, lock_file, backend_available, history>>

Holds(c) == pc[c] \in {"load_persisted", "truncate", "write", "unlock"}

\* The only way out of a lock file left behind: an operator who knows that
\* no live process holds it removes it.
RemoveStaleLock ==
    /\ lock_file
    /\ \A c \in Clients : ~Holds(c)
    /\ lock_file' = FALSE
    /\ UNCHANGED <<clock, file, backend_available, pc, frame, history>>

Tick ==
    /\ clock < MaxTime
    /\ clock' = clock + 1
    /\ UNCHANGED <<file, lock_file, backend_available, pc, frame, history>>

Step(c) ==
    \/ CreateLock(c) \/ RetryLock(c) \/ GiveUp(c)
    \/ Load(c) \/ ParseFails(c)
    \/ Truncate(c) \/ Write(c)
    \/ Unlock(c)

Fault(c) == LockFails(c) \/ ReadFails(c) \/ SaveFails(c) \/ Crash(c)

Next ==
    \/ \E c \in Clients :
          \/ \E available \in BOOLEAN : SetBackendAvailable(c, available)
          \/ \E cl \in Calls : Begin(c, cl)
          \/ Step(c)
          \/ Fault(c)
    \/ RemoveStaleLock
    \/ Tick

Spec == Init /\ [][Next]_vars

-------------------------------------------------------------------------------
(***************************************************************************)
(* Properties                                                               *)
(***************************************************************************)

ProgramCounters ==
    {"idle", "acquire_lock", "load_persisted", "truncate", "write", "unlock"}

\* Every variable has its type.
TypeOK ==
    /\ clock \in 0..MaxTime
    /\ file_status \in {"absent", "valid", "damaged"}
    /\ file_content \in PersistedTrustState
    /\ lock_file \in BOOLEAN
    /\ backend_available \in [Clients -> BOOLEAN]
    /\ pc \in [Clients -> ProgramCounters]
    /\ call \in [Clients -> Calls \cup {NoCall}]
    /\ called_at \in [Clients -> 0..MaxTime]
    /\ attempts \in [Clients -> 0..MaxAttempts]
    /\ persisted \in [Clients -> PersistedTrustState]
    /\ result \in [Clients -> Results]
    /\ revoked_ok \subseteq TokenIds
    /\ denied_ok \subseteq Agents
    /\ granted \subseteq NonceEntry

\* Every variable has its type; at most one call is inside the lock, and the
\* lock file exists while one is, through crashes, timeouts, failed removals
\* and operator repairs.
MutualExclusion ==
    /\ TypeOK
    /\ \A c, d \in Clients : Holds(c) /\ Holds(d) => c = d
    /\ \A c \in Clients : Holds(c) => lock_file

\* What was acknowledged is never lost while the file is readable: no
\* concurrent operation overwrites it with an older copy, and no crash, failed
\* write or parse error makes the store start over from an empty state.  Once
\* the file is damaged, no call gets as far as overwriting it: the store fails
\* closed, and the revocations that were lost with the file are never replaced
\* by a state that parses and lacks them.
AcknowledgedIsDurable ==
    LET p == IF file_status = "absent" THEN EmptyState ELSE file_content IN
    /\ file_status # "damaged" =>
          /\ revoked_ok \subseteq p.revoked_token_ids
          /\ denied_ok \subseteq p.emergency_denied_agents
          /\ \A e \in granted : e \in p.consumed_nonces \/ e.valid_until < clock
    /\ file_status = "damaged" => \A c \in Clients : pc[c] # "truncate"

\* consume_nonce tells at most one caller that a nonce is fresh until the
\* expiry that caller's token had, over crashes and retries.
FreshOnce ==
    \A c \in Clients :
        (pc[c] = "unlock" /\ call[c].op = "consume_nonce" /\ result[c] = "true") =>
            \A g \in granted : g.nonce = call[c].nonce => g.valid_until < clock
===============================================================================
