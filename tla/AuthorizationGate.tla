-------------------------- MODULE AuthorizationGate --------------------------
(***************************************************************************)
(* What signet promises to the services it guards, with the pipeline, the   *)
(* store's bookkeeping and the audit log left out.                          *)
(*                                                                          *)
(* The gate never forgets a spent nonce.  It admits a request only if every *)
(* earlier spending of the same nonce was by a token that has expired, and  *)
(* allows an admitted request only if its token was neither revoked nor its *)
(* agent denied when the request arrived, and the token was live then.      *)
(* A store that prunes its nonces implements the gate as long as it prunes  *)
(* no entry before the expiry it was recorded with.                         *)
(***************************************************************************)
EXTENDS Integers

CONSTANTS Requests, TokenIds, Agents, Token, Leeway, MaxTime

VARIABLES
    clock,
    revoked,         \* token ids
    denied,          \* agents
    presents,        \* the token id each request presents
    phase,           \* "idle", "pending", "admitted", "allowed" or "refused"
    submitted_at,    \* the clock when each request arrived
    spent,           \* every nonce ever spent, with its token's expiry
    barred           \* requests the revocations before their arrival forbid

gateVars == <<clock, revoked, denied, presents, phase, submitted_at, spent, barred>>

Phases == {"idle", "pending", "admitted", "allowed", "refused"}

Live(t, at) == t.issued_at <= at + Leeway /\ at < t.expires_at + Leeway

Init ==
    /\ clock = 0
    /\ revoked = {}
    /\ denied = {}
    /\ presents \in [Requests -> TokenIds]
    /\ phase = [r \in Requests |-> "idle"]
    /\ submitted_at = [r \in Requests |-> 0]
    /\ spent = {}
    /\ barred = [byToken |-> {}, byAgent |-> {}]

Submit(r) ==
    /\ phase[r] = "idle"
    /\ phase' = [phase EXCEPT ![r] = "pending"]
    /\ submitted_at' = [submitted_at EXCEPT ![r] = clock]
    /\ barred' =
         [byToken |-> barred.byToken \cup {q \in {r} : presents[q] \in revoked},
          byAgent |-> barred.byAgent \cup
                          {q \in {r} : Token[presents[q]].agent_id \in denied}]
    /\ UNCHANGED <<clock, revoked, denied, presents, spent>>

Admit(r) ==
    LET t == Token[presents[r]] IN
    /\ phase[r] = "pending"
    /\ \A e \in spent : e.nonce = t.nonce => e.valid_until < clock
    /\ phase' = [phase EXCEPT ![r] = "admitted"]
    /\ spent' = spent \cup {[nonce |-> t.nonce, valid_until |-> t.expires_at]}
    /\ UNCHANGED <<clock, revoked, denied, presents, submitted_at, barred>>

Allow(r) ==
    /\ phase[r] = "admitted"
    /\ r \notin barred.byToken \cup barred.byAgent
    /\ Live(Token[presents[r]], submitted_at[r])
    /\ phase' = [phase EXCEPT ![r] = "allowed"]
    /\ UNCHANGED <<clock, revoked, denied, presents, submitted_at, spent, barred>>

Refuse(r) ==
    /\ phase[r] \in {"pending", "admitted"}
    /\ phase' = [phase EXCEPT ![r] = "refused"]
    /\ UNCHANGED <<clock, revoked, denied, presents, submitted_at, spent, barred>>

Revoke(t) ==
    /\ revoked' = revoked \cup {t}
    /\ UNCHANGED <<clock, denied, presents, phase, submitted_at, spent, barred>>

Deny(a) ==
    /\ denied' = denied \cup {a}
    /\ UNCHANGED <<clock, revoked, presents, phase, submitted_at, spent, barred>>

Clear ==
    /\ denied' = {}
    /\ barred' = [barred EXCEPT !.byAgent = {}]
    /\ UNCHANGED <<clock, revoked, presents, phase, submitted_at, spent>>

\* A revocation taken back: the requests it barred are not barred any more.
Unrevoke(t) ==
    /\ revoked' = revoked \ {t}
    /\ barred' = [barred EXCEPT !.byToken = {r \in @ : presents[r] # t}]
    /\ UNCHANGED <<clock, denied, presents, phase, submitted_at, spent>>

\* Some agents are taken off the deny list.
Undeny(as) ==
    /\ denied' = denied \ as
    /\ barred' = [barred EXCEPT
                      !.byAgent = {r \in @ : Token[presents[r]].agent_id \notin as}]
    /\ UNCHANGED <<clock, revoked, presents, phase, submitted_at, spent>>

Tick ==
    /\ clock < MaxTime
    /\ clock' = clock + 1
    /\ UNCHANGED <<revoked, denied, presents, phase, submitted_at, spent, barred>>

Next ==
    \/ \E r \in Requests : Submit(r) \/ Admit(r) \/ Allow(r) \/ Refuse(r)
    \/ \E t \in TokenIds : Revoke(t) \/ Unrevoke(t)
    \/ \E a \in Agents : Deny(a)
    \/ \E as \in SUBSET Agents : Undeny(as)
    \/ Clear
    \/ Tick

Spec == Init /\ [][Next]_gateVars
===============================================================================
