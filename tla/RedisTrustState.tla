--------------------------- MODULE RedisTrustState ---------------------------
(***************************************************************************)
(* The shared trust state in Redis (src/src/revocation_redis.rs) under the  *)
(* evaluations and the administration of several signet instances.          *)
(*                                                                          *)
(* The server executes one command at a time.  A caller sends a command and *)
(* waits for its reply; when the connection breaks it gets an error and      *)
(* cannot know whether the command was executed, will be, or is lost.        *)
(* Time is counted in ticks, TicksPerSecond of them to the second, because   *)
(* EXAT takes whole seconds.  A request claims the agent of its token: what   *)
(* becomes of other claims is decided after the store calls, whatever the     *)
(* store, and is in TrustEvaluation.                                         *)
(***************************************************************************)
EXTENDS Integers, Sequences, FiniteSets

CONSTANTS
    Requests,         \* evaluations, each a task of some instance
    Admins,           \* tasks that administer the store
    Crews,            \* the sets of tasks that may be at work together
    TokenIds, Agents, Nonces,
    Token,            \* token id -> agent_id, nonce, issued_at, expires_at
    AdminCalls,       \* what administrators may call
    Buckets,          \* the order in which SCAN walks over the agents' keys
    TicksPerSecond,
    Leeway,           \* clock_leeway_secs, in ticks
    MaxTime,          \* bound on the clock
    Horizon,          \* the bound while a crew is at work
    MaxFailures       \* bound on the connections that break

\* A call, and the ids it names.  An empty list of tokens is answered without a
\* command, and is no call here.
AdminCall ==
    [op : {"revoke_token", "unrevoke_token"}, ids : {{t} : t \in TokenIds}]
    \cup [op : {"revoke_tokens"}, ids : {ids \in SUBSET TokenIds : ids # {}}]
    \cup [op : {"emergency_deny_agent", "undeny_agent"}, ids : {{a} : a \in Agents}]
    \cup [op : {"clear_emergency_deny_list"}, ids : {{}}]

ASSUME RedisAssumption ==
    /\ TicksPerSecond \in Nat \ {0}
    /\ Leeway \in Nat /\ MaxTime \in Nat
    /\ Horizon \in [Crews -> 0..MaxTime] /\ MaxFailures \in Nat
    /\ Requests \cap Admins = {}
    /\ Crews \subseteq SUBSET (Requests \cup Admins)
    /\ Buckets \in Seq(SUBSET Agents)
    /\ Buckets # <<>>
    /\ UNION {Buckets[i] : i \in DOMAIN Buckets} = Agents
    /\ AdminCalls \subseteq AdminCall
    /\ TokenIds \cap Agents = {}        \* the prefix of a key tells its kind
    /\ Token \in [TokenIds -> [agent_id : Agents, nonce : Nonces,
                               issued_at : Nat, expires_at : Nat]]

VARIABLES
    clock,
    crew,             \* the tasks at work
    (* The server. *)
    revoked,          \* {prefix}:revoked:*
    denied,           \* {prefix}:denied:*
    nonces,           \* {prefix}:nonce:*, each with its EXAT
    (* The network. *)
    sent,             \* the command each caller waits for
    reply,            \* its reply, on the way back
    strays,           \* commands on the way whose callers were told of an error
    failures,         \* connections broken so far
    (* Evaluations. *)
    presents,         \* the token each request presents
    pc, now, decision,
    (* Administration. *)
    call,             \* the call each administrator is in
    cursor,           \* where a clear_emergency_deny_list is; 0 is the end
    (* History, read only by the properties. *)
    spent,            \* nonces granted to a request that was still waiting
    revoked_before,   \* requests whose token was revoked on arrival, and since
    denied_before,    \* requests whose agent was denied on arrival, and since
    contested,        \* ids some removal was under way for during each call
    settled,          \* ids whose last change is an acknowledged, uncontested one
    to_clear          \* agents denied when a clear began and not denied again

server == <<revoked, denied, nonces>>
network == <<sent, reply, strays, failures>>
evaluation == <<presents, pc, now, decision>>
administration == <<call, cursor>>
history == <<spent, revoked_before, denied_before, contested, settled, to_clear>>
vars == <<clock, crew, server, network, evaluation, administration, history>>

Callers == Requests \cup Admins

Command(cmd, kind, ids, exat) == [cmd |-> cmd, kind |-> kind, ids |-> ids, exat |-> exat]
NoCommand == Command("none", "none", {}, 0)
NoReply == [value |-> "none", keys |-> {}]
Reply(value) == [value |-> value, keys |-> {}]
NoCall == [op |-> "none", ids |-> {}]
tok(r) == Token[presents[r]]

\* valid_until.timestamp(): the fraction of a second is cut off.
Timestamp(t) == (t \div TicksPerSecond) * TicksPerSecond

\* A key is gone once the clock has passed its EXAT.
Live(e) == clock <= e.exat
Present(nonce) == \E e \in nonces : e.nonce = nonce /\ Live(e)

Init ==
    /\ clock = 0
    /\ crew \in Crews
    /\ revoked = {} /\ denied = {} /\ nonces = {}
    /\ sent = [c \in Callers |-> NoCommand]
    /\ reply = [c \in Callers |-> NoReply]
    /\ strays = {} /\ failures = 0
    /\ presents \in [Requests -> TokenIds]
    /\ \A r \in Requests \ crew : presents[r] = CHOOSE t \in TokenIds : TRUE
    /\ pc = [r \in Requests |-> "idle"]
    /\ now = [r \in Requests |-> 0]
    /\ decision = [r \in Requests |-> "pending"]
    /\ call = [a \in Admins |-> NoCall]
    /\ cursor = [a \in Admins |-> 0]
    /\ spent = {}
    /\ revoked_before = {} /\ denied_before = {}
    /\ contested = [a \in Admins |-> {}]
    /\ settled = {}
    /\ to_clear = [a \in Admins |-> {}]

Tick ==
    /\ clock < Horizon[crew]
    /\ clock' = clock + 1
    /\ UNCHANGED <<crew, server, network, evaluation, administration, history>>

-------------------------------------------------------------------------------
(***************************************************************************)
(* The server.  Each operator is one command on the keys it names.          *)
(***************************************************************************)

\* SET key 1 NX EXAT: a key that is there is left alone.
SetNonce(k) ==
    LET fresh == {n \in k.ids : ~Present(n)}
    IN  nonces' = {e \in nonces : e.nonce \notin fresh}
                      \cup {[nonce |-> n, exat |-> k.exat] : n \in fresh}

Set(kind, id) ==
    /\ revoked' = IF kind = "revoked" THEN revoked \cup {id} ELSE revoked
    /\ denied' = IF kind = "denied" THEN denied \cup {id} ELSE denied
    /\ to_clear' = [a \in Admins |-> to_clear[a] \ {id}]

Del(k) ==
    /\ revoked' = IF k.kind = "revoked" THEN revoked \ k.ids ELSE revoked
    /\ denied' = IF k.kind = "denied" THEN denied \ k.ids ELSE denied
    /\ revoked_before' = {r \in revoked_before : presents[r] \in revoked'}
    /\ denied_before' = {r \in denied_before : tok(r).agent_id \in denied'}

Waiting(c, cmd) == sent[c].cmd = cmd /\ reply[c] = NoReply
Answer(c, answer) == reply' = [reply EXCEPT ![c] = answer]

ServeExists(c) ==
    /\ Waiting(c, "EXISTS")
    /\ Answer(c, Reply(IF sent[c].ids \cap (revoked \cup denied) # {} THEN "yes" ELSE "no"))
    /\ UNCHANGED <<clock, crew, server, sent, strays, failures, evaluation, administration, history>>

ServeSetNonce(c) ==
    /\ Waiting(c, "SET NX EXAT")
    /\ SetNonce(sent[c])
    /\ \/ /\ \E n \in sent[c].ids : Present(n)
          /\ Answer(c, Reply("nil"))
          /\ UNCHANGED spent
       \/ /\ ~\E n \in sent[c].ids : Present(n)
          /\ Answer(c, Reply("OK"))
          /\ spent' = spent \cup
                {[nonce |-> tok(c).nonce, valid_until |-> tok(c).expires_at, by |-> c]}
    /\ UNCHANGED <<clock, crew, revoked, denied, sent, strays, failures, evaluation, administration,
                   revoked_before, denied_before, contested, settled, to_clear>>

\* The SETs of a pipeline are separate commands: others may come in between.
ServeSet(c) ==
    /\ Waiting(c, "SET")
    /\ \E id \in sent[c].ids :
          /\ Set(sent[c].kind, id)
          /\ IF sent[c].ids = {id}
             THEN Answer(c, Reply("OK")) /\ UNCHANGED sent
             ELSE sent' = [sent EXCEPT ![c].ids = @ \ {id}] /\ UNCHANGED reply
    /\ UNCHANGED <<clock, crew, nonces, strays, failures, evaluation, administration, spent,
                   revoked_before, denied_before, contested, settled>>

ServeDel(c) ==
    /\ Waiting(c, "DEL")
    /\ Del(sent[c])
    /\ Answer(c, Reply("OK"))
    /\ UNCHANGED <<clock, crew, nonces, sent, strays, failures, evaluation, administration, spent,
                   contested, settled, to_clear>>

\* SCAN returns the keys of its bucket, perhaps more: a key may be returned twice.
ServeScan(c) ==
    /\ Waiting(c, "SCAN")
    /\ \E more \in SUBSET denied :
          Answer(c, [value |-> "keys",
                     keys |-> (denied \cap Buckets[cursor[c]]) \cup more])
    /\ UNCHANGED <<clock, crew, server, sent, strays, failures, evaluation, administration, history>>

Serve(c) ==
    ServeExists(c) \/ ServeSetNonce(c) \/ ServeSet(c) \/ ServeDel(c) \/ ServeScan(c)

\* A command whose caller is gone arrives after all.  A pipeline may be cut.
ServeStray(k) ==
    /\ \/ /\ k.cmd = "SET NX EXAT" /\ SetNonce(k)
          /\ strays' = strays \ {k}
          /\ UNCHANGED <<revoked, denied, revoked_before, denied_before, to_clear>>
       \/ /\ k.cmd = "SET"
          /\ \E id \in k.ids :
                /\ Set(k.kind, id)
                /\ strays' = (strays \ {k}) \cup
                      {q \in {[k EXCEPT !.ids = @ \ {id}]} : q.ids # {}}
          /\ UNCHANGED <<nonces, revoked_before, denied_before>>
       \/ /\ k.cmd = "DEL" /\ Del(k)
          /\ strays' = strays \ {k}
          /\ UNCHANGED <<nonces, to_clear>>
    /\ UNCHANGED <<clock, crew, sent, reply, failures, evaluation, administration, spent,
                   contested, settled>>

LoseStray(k) ==
    /\ strays' = strays \ {k}
    /\ UNCHANGED <<clock, crew, server, sent, reply, failures, evaluation, administration, history>>

-------------------------------------------------------------------------------
(***************************************************************************)
(* Evaluations: enforce_revocation_and_redelegation_async and the checks     *)
(* after it that look at the clock.                                          *)
(***************************************************************************)
Send(c, k) ==
    /\ sent' = [sent EXCEPT ![c] = k]
    /\ reply' = [reply EXCEPT ![c] = NoReply]

Ask(r, stage, k) ==
    /\ pc' = [pc EXCEPT ![r] = stage]
    /\ Send(r, k)
    /\ UNCHANGED decision

Decide(r, verdict) ==
    /\ pc' = [pc EXCEPT ![r] = "decided"]
    /\ decision' = [decision EXCEPT ![r] = verdict]
    /\ Send(r, NoCommand)

Arrive(r) ==
    /\ r \in crew
    /\ pc[r] = "idle"
    /\ now' = [now EXCEPT ![r] = clock]
    /\ Ask(r, "is_token_revoked", Command("EXISTS", "revoked", {presents[r]}, 0))
    /\ revoked_before' = revoked_before \cup {q \in {r} : presents[q] \in revoked}
    /\ denied_before' = denied_before \cup {q \in {r} : tok(q).agent_id \in denied}
    /\ UNCHANGED <<clock, crew, server, strays, failures, presents, administration, spent,
                   contested, settled, to_clear>>

TokenRevokedReply(r) ==
    /\ pc[r] = "is_token_revoked"
    /\ \/ /\ reply[r].value = "yes"
          /\ Decide(r, "deny")
       \/ /\ reply[r].value = "no"
          /\ Ask(r, "is_agent_emergency_denied",
                 Command("EXISTS", "denied", {tok(r).agent_id}, 0))
    /\ UNCHANGED <<clock, crew, server, strays, failures, presents, now, administration, history>>

AgentDeniedReply(r) ==
    /\ pc[r] = "is_agent_emergency_denied"
    /\ \/ /\ reply[r].value = "yes"
          /\ Decide(r, "deny")
       \/ /\ reply[r].value = "no"
          /\ Ask(r, "consume_nonce",
                 Command("SET NX EXAT", "nonce", {tok(r).nonce},
                         Timestamp(tok(r).expires_at)))
    /\ UNCHANGED <<clock, crew, server, strays, failures, presents, now, administration, history>>

TokenLive(r) ==
    tok(r).issued_at <= now[r] + Leeway /\ now[r] < tok(r).expires_at + Leeway

\* Ok(result.is_some()); nil is a replay.
ConsumeNonceReply(r) ==
    /\ pc[r] = "consume_nonce"
    /\ reply[r] # NoReply
    /\ Decide(r, IF reply[r].value = "OK" /\ TokenLive(r) THEN "allow" ELSE "deny")
    /\ UNCHANGED <<clock, crew, server, strays, failures, presents, now, administration, history>>

-------------------------------------------------------------------------------
(***************************************************************************)
(* Administration.                                                          *)
(***************************************************************************)
Scan == Command("SCAN", "denied", {}, 0)

FirstCommand(c) ==
    CASE c.op \in {"revoke_token", "revoke_tokens"} -> Command("SET", "revoked", c.ids, 0)
      [] c.op = "emergency_deny_agent" -> Command("SET", "denied", c.ids, 0)
      [] c.op = "unrevoke_token" -> Command("DEL", "revoked", c.ids, 0)
      [] c.op = "undeny_agent" -> Command("DEL", "denied", c.ids, 0)
      [] c.op = "clear_emergency_deny_list" -> Scan

\* Ids that a call is to remove.
Removes(c) ==
    CASE c.op \in {"unrevoke_token", "undeny_agent"} -> c.ids
      [] c.op = "clear_emergency_deny_list" -> Agents
      [] OTHER -> {}

Removing ==
    UNION ({Removes(call[a]) : a \in Admins}
           \cup {k.ids : k \in {q \in strays : q.cmd = "DEL"}})

Begin(a, c) ==
    /\ a \in crew
    /\ call[a] = NoCall
    /\ call' = [call EXCEPT ![a] = c]
    /\ Send(a, FirstCommand(c))
    /\ cursor' = [cursor EXCEPT ![a] = IF FirstCommand(c) = Scan THEN 1 ELSE 0]
    /\ contested' = [b \in Admins |->
          IF b = a THEN Removing \cup Removes(c)
          ELSE IF call[b] = NoCall THEN {} ELSE contested[b] \cup Removes(c)]
    /\ settled' = settled \ Removes(c)
    /\ to_clear' = [to_clear EXCEPT
          ![a] = IF FirstCommand(c) = Scan THEN denied ELSE {}]
    /\ UNCHANGED <<clock, crew, server, strays, failures, evaluation, spent,
                   revoked_before, denied_before>>

\* A call ends, and with it what the properties remember of it.
Return(a) ==
    /\ call' = [call EXCEPT ![a] = NoCall]
    /\ cursor' = [cursor EXCEPT ![a] = 0]
    /\ Send(a, NoCommand)
    /\ contested' = [contested EXCEPT ![a] = {}]
    /\ to_clear' = [to_clear EXCEPT ![a] = {}]
    /\ UNCHANGED <<spent, revoked_before, denied_before>>

\* Mutant: the call returns Ok when its command is sent.
AcknowledgedUnread(a) ==
    /\ call[a].op \notin {"none", "clear_emergency_deny_list"}
    /\ Return(a)
    /\ strays' = strays \cup {k \in {sent[a]} : reply[a] = NoReply}
    /\ settled' = settled \cup ((call[a].ids \ Removes(call[a])) \ contested[a])
    /\ UNCHANGED <<clock, crew, server, failures, evaluation>>

\* The reply of a SET or of the DEL of one key ends the call.
Acknowledged(a) ==
    /\ call[a].op \notin {"none", "clear_emergency_deny_list"}
    /\ reply[a].value = "OK"
    /\ Return(a)
    /\ settled' = settled \cup ((call[a].ids \ Removes(call[a])) \ contested[a])
    /\ UNCHANGED <<clock, crew, server, strays, failures, evaluation>>

\* The next cursor of SCAN, 0 after the last bucket.
NextCursor(i) == IF i = Len(Buckets) THEN 0 ELSE i + 1

\* The loop of clear_emergency_deny_list goes on to the given cursor, or ends.
ScanFrom(a, next) ==
    \/ /\ next # 0
       /\ cursor' = [cursor EXCEPT ![a] = next]
       /\ Send(a, Scan)
       /\ UNCHANGED <<call, history>>
    \/ /\ next = 0
       /\ Return(a)
       /\ UNCHANGED settled

\* Mutant: a batch without a key is taken for the end of the scan.
ScannedShort(a) ==
    /\ reply[a].value = "keys"
    /\ \/ /\ reply[a].keys # {}
          /\ Send(a, Command("DEL", "denied", reply[a].keys, 0))
          /\ cursor' = [cursor EXCEPT ![a] = NextCursor(@)]
          /\ UNCHANGED <<call, history>>
       \/ /\ reply[a].keys = {}
          /\ ScanFrom(a, 0)
    /\ UNCHANGED <<clock, crew, server, strays, failures, evaluation>>

\* A batch of SCAN: its keys are deleted, or there are none and the loop goes
\* on at once.
Scanned(a) ==
    /\ reply[a].value = "keys"
    /\ \/ /\ reply[a].keys # {}
          /\ Send(a, Command("DEL", "denied", reply[a].keys, 0))
          /\ cursor' = [cursor EXCEPT ![a] = NextCursor(@)]
          /\ UNCHANGED <<call, history>>
       \/ /\ reply[a].keys = {}
          /\ ScanFrom(a, NextCursor(cursor[a]))
    /\ UNCHANGED <<clock, crew, server, strays, failures, evaluation>>

\* Mutant: the scan starts over after every deletion.
DeletedRestarts(a) ==
    /\ call[a].op = "clear_emergency_deny_list"
    /\ reply[a].value = "OK"
    /\ ScanFrom(a, 1)
    /\ UNCHANGED <<clock, crew, server, strays, failures, evaluation>>

Deleted(a) ==
    /\ call[a].op = "clear_emergency_deny_list"
    /\ reply[a].value = "OK"
    /\ ScanFrom(a, cursor[a])
    /\ UNCHANGED <<clock, crew, server, strays, failures, evaluation>>

-------------------------------------------------------------------------------
(***************************************************************************)
(* Failure.  The command may have been executed, may be on the way still,    *)
(* or may be lost; the caller learns only that there was an error.           *)
(***************************************************************************)
ConnectionBreaks(c) ==
    /\ sent[c] # NoCommand
    /\ failures < MaxFailures
    /\ failures' = failures + 1
    /\ \E left \in SUBSET {k \in {sent[c]} : reply[c] = NoReply
                                          /\ k.cmd \in {"SET NX EXAT", "SET", "DEL"}} :
          strays' = strays \cup left

\* Mutant: an error of consume_nonce is taken for a fresh nonce.
EvaluationFailsOpen(r) ==
    /\ ConnectionBreaks(r)
    /\ Decide(r, IF pc[r] = "consume_nonce" /\ TokenLive(r) THEN "allow" ELSE "deny")
    /\ UNCHANGED <<clock, crew, server, presents, now, administration, history>>

\* "(fail-closed)": an evaluation that gets an error denies.
EvaluationFails(r) ==
    /\ ConnectionBreaks(r)
    /\ Decide(r, "deny")
    /\ UNCHANGED <<clock, crew, server, presents, now, administration, history>>

CallFails(a) ==
    /\ ConnectionBreaks(a)
    /\ Return(a)
    /\ UNCHANGED <<clock, crew, server, evaluation, settled>>

Evaluate(r) == TokenRevokedReply(r) \/ AgentDeniedReply(r) \/ ConsumeNonceReply(r)
Administer(a) == Acknowledged(a) \/ Scanned(a) \/ Deleted(a)

Next ==
    \/ Tick
    \/ \E c \in Callers : Serve(c)
    \/ \E k \in strays : ServeStray(k) \/ LoseStray(k)
    \/ \E r \in Requests : Arrive(r) \/ Evaluate(r) \/ EvaluationFails(r)
    \/ \E a \in Admins :
          \/ \E c \in AdminCalls : Begin(a, c)
          \/ Administer(a) \/ CallFails(a)

Spec == Init /\ [][Next]_vars

(***************************************************************************)
(* The server executes what it is sent and callers take their replies.  The *)
(* connection sets no response timeout, so a server that stays silent on an  *)
(* open connection is outside this assumption.                              *)
(***************************************************************************)
FairSpec ==
    /\ Spec
    /\ \A c \in Callers : WF_vars(Serve(c))
    /\ \A r \in Requests : WF_vars(Evaluate(r))
    /\ \A a \in Admins : WF_vars(Administer(a))

-------------------------------------------------------------------------------
(***************************************************************************)
(* Properties                                                               *)
(***************************************************************************)

\* Every variable has its type, and no nonce has two keys.
TypeOK ==
    /\ crew \in Crews /\ clock \in 0..Horizon[crew]
    /\ revoked \subseteq TokenIds /\ denied \subseteq Agents
    /\ \A e, f \in nonces : e.nonce = f.nonce => e = f
    /\ \A c \in Callers : sent[c] = NoCommand => reply[c] = NoReply
    /\ \A k \in strays : k.ids # {}
    /\ \A r \in Requests : decision[r] = "pending" <=> pc[r] # "decided"
    /\ \A a \in Admins : call[a] = NoCall <=> sent[a] = NoCommand
    /\ failures \in 0..MaxFailures

\* A revocation, a bulk revocation or a denial that was answered Ok holds, over
\* lost connections and late commands, until some call to remove it is made;
\* the only exception are calls that a removal, finished or not, overlapped.
AcknowledgedHolds == TypeOK /\ settled \subseteq revoked \cup denied

\* clear_emergency_deny_list that answers Ok has removed every agent that was
\* denied when it was called, unless the agent was denied again meanwhile,
\* however the scan and other calls interleave.
ClearIsComplete ==
    [][\A a \in Admins :
          (call[a].op = "clear_emergency_deny_list" /\ call'[a] = NoCall
              /\ failures' = failures) => to_clear[a] \cap denied' = {}]_vars

\* A nonce is not granted a second time before the token it was granted for
\* expires: "nonce keys are automatically evicted when the associated token
\* expires", says the store's documentation.
NoReplayBeforeExpiry ==
    \A e, f \in spent :
        (e.nonce = f.nonce /\ e.by # f.by) =>
            clock >= e.valid_until \/ clock >= f.valid_until

Phase(r) ==
    CASE decision[r] = "allow" -> "allowed"
      [] decision[r] = "deny" -> "refused"
      [] decision[r] = "pending" ->
            IF pc[r] = "idle" THEN "idle"
            ELSE IF \E e \in spent : e.by = r THEN "admitted" ELSE "pending"

Gate ==
    INSTANCE AuthorizationGate WITH
        phase <- [r \in Requests |-> Phase(r)],
        submitted_at <- now,
        spent <- {[nonce |-> e.nonce, valid_until |-> e.valid_until] : e \in spent},
        barred <- [byToken |-> revoked_before, byAgent |-> denied_before]

\* Where tokens expire on whole seconds, evaluations over Redis keep the promise
\* that those over the in-memory store keep, with connections that break at any
\* point: a nonce is spent once until its token expires, what was revoked or
\* denied on arrival is not allowed, and an error never allows.
ImplementsGate == Gate!Spec

\* Every evaluation is decided and every call returns: the scan of
\* clear_emergency_deny_list ends although others keep denying agents.
EveryCallReturns ==
    /\ \A r \in Requests : pc[r] # "idle" ~> pc[r] = "decided"
    /\ \A a \in Admins : call[a] # NoCall ~> call[a] = NoCall
===============================================================================
