------------------------ MODULE RedisTrustStateProofs ------------------------
(***************************************************************************)
(* Proofs about RedisTrustState: an acknowledged revocation or denial holds, *)
(* clear_emergency_deny_list removes all it was called for, and evaluations   *)
(* over Redis implement AuthorizationGate where tokens expire on whole        *)
(* seconds.                                                                 *)
(*                                                                          *)
(* There are four invariants.  WireInv says where every caller is, what it    *)
(* has sent and what it may be answered.  The other three are inductive       *)
(* relative to it: AckInv relates the store to the calls under way, ScanInv    *)
(* to the buckets a clear has still to visit, GrantInv to the evaluations.     *)
(***************************************************************************)
EXTENDS RedisTrustState, TLAPS

-------------------------------------------------------------------------------
(***************************************************************************)
(* WireInv                                                                  *)
(***************************************************************************)
CommandNames == {"none", "EXISTS", "SET NX EXAT", "SET", "DEL", "SCAN"}
Kinds == {"none", "revoked", "denied", "nonce"}
Values == {"none", "yes", "no", "nil", "OK", "keys"}
NonEmpty(S) == {ids \in SUBSET S : ids # {}}

NonceCommands ==
    [cmd : {"SET NX EXAT"}, kind : {"nonce"}, ids : {{n} : n \in Nonces}, exat : Int]

SetCommands ==
    [cmd : {"SET"}, kind : {"revoked"}, ids : NonEmpty(TokenIds), exat : {0}]
    \cup [cmd : {"SET"}, kind : {"denied"}, ids : NonEmpty(Agents), exat : {0}]

DelCommands ==
    [cmd : {"DEL"}, kind : {"revoked"}, ids : {{t} : t \in TokenIds}, exat : {0}]
    \cup [cmd : {"DEL"}, kind : {"denied"}, ids : NonEmpty(Agents), exat : {0}]

Commands ==
    [cmd : CommandNames, kind : Kinds, ids : SUBSET (TokenIds \cup Agents \cup Nonces), exat : Int]

Replies == [value : Values, keys : SUBSET Agents]

Stages == {"idle", "is_token_revoked", "is_agent_emergency_denied", "consume_nonce", "decided"}

Grants == [nonce : Nonces, valid_until : Nat, by : Requests]

ServerTypes ==
    /\ crew \in Crews
    /\ clock \in 0..Horizon[crew]
    /\ revoked \subseteq TokenIds
    /\ denied \subseteq Agents
    /\ nonces \subseteq [nonce : Nonces, exat : Int]
    /\ \A e, f \in nonces : e.nonce = f.nonce => e = f

NetworkTypes ==
    /\ sent \in [Callers -> Commands]
    /\ reply \in [Callers -> Replies]
    /\ strays \subseteq NonceCommands \cup SetCommands \cup DelCommands
    /\ failures \in 0..MaxFailures

TaskTypes ==
    /\ presents \in [Requests -> TokenIds]
    /\ pc \in [Requests -> Stages]
    /\ now \in [Requests -> Nat]
    /\ decision \in [Requests -> {"pending", "allow", "deny"}]
    /\ call \in [Admins -> AdminCalls \cup {NoCall}]
    /\ cursor \in [Admins -> 0..Len(Buckets)]

HistoryTypes ==
    /\ spent \subseteq Grants
    /\ revoked_before \subseteq Requests
    /\ denied_before \subseteq Requests
    /\ contested \in [Admins -> SUBSET (TokenIds \cup Agents)]
    /\ settled \subseteq TokenIds \cup Agents
    /\ to_clear \in [Admins -> SUBSET Agents]

\* What an evaluation has sent, and what it may be answered, by its stage.
RequestOK(r) ==
    /\ pc[r] \in {"idle", "decided"} => sent[r] = NoCommand /\ reply[r] = NoReply
    /\ pc[r] = "is_token_revoked" =>
          /\ sent[r] = Command("EXISTS", "revoked", {presents[r]}, 0)
          /\ reply[r] \in {NoReply, Reply("yes"), Reply("no")}
    /\ pc[r] = "is_agent_emergency_denied" =>
          /\ sent[r] = Command("EXISTS", "denied", {tok(r).agent_id}, 0)
          /\ reply[r] \in {NoReply, Reply("yes"), Reply("no")}
    /\ pc[r] = "consume_nonce" =>
          /\ sent[r] = Command("SET NX EXAT", "nonce", {tok(r).nonce},
                               Timestamp(tok(r).expires_at))
          /\ reply[r] \in {NoReply, Reply("nil"), Reply("OK")}
    /\ decision[r] = "pending" <=> pc[r] # "decided"

\* What an administrator has sent, and what it may be answered, by its call.
AtRest(a) == call[a] = NoCall /\ sent[a] = NoCommand /\ reply[a] = NoReply

Adding(a) ==
    /\ call[a].op \in {"revoke_token", "revoke_tokens", "emergency_deny_agent"}
    /\ sent[a] \in SetCommands
    /\ sent[a].kind = FirstCommand(call[a]).kind
    /\ sent[a].ids \subseteq call[a].ids
    /\ reply[a] \in {NoReply, Reply("OK")}

Dropping(a) ==
    /\ call[a].op \in {"unrevoke_token", "undeny_agent"}
    /\ sent[a] \in DelCommands
    /\ sent[a] = FirstCommand(call[a])
    /\ reply[a] \in {NoReply, Reply("OK")}

Scanning(a) ==
    /\ call[a].op = "clear_emergency_deny_list"
    /\ sent[a] = Scan
    /\ cursor[a] # 0
    /\ reply[a] = NoReply \/ reply[a].value = "keys"

Sweeping(a) ==
    /\ call[a].op = "clear_emergency_deny_list"
    /\ sent[a] \in DelCommands
    /\ sent[a].kind = "denied"
    /\ reply[a] \in {NoReply, Reply("OK")}

AdminOK(a) == AtRest(a) \/ Adding(a) \/ Dropping(a) \/ Scanning(a) \/ Sweeping(a)

WireInv ==
    /\ ServerTypes /\ NetworkTypes /\ TaskTypes /\ HistoryTypes
    /\ \A r \in Requests : RequestOK(r)
    /\ \A a \in Admins : AdminOK(a)

-------------------------------------------------------------------------------
(***************************************************************************)
(* AckInv                                                                   *)
(***************************************************************************)

\* A removal that is under way, or on its way, is known to all calls it overlaps,
\* and nothing it may remove is settled.
RemovalsKnown ==
    /\ \A a \in Admins : call[a] # NoCall => Removing \subseteq contested[a]
    /\ settled \cap Removing = {}

\* What a call that adds ids has had executed and no removal contests is there.
AddedHolds ==
    \A a \in Admins :
        Adding(a) =>
            \A id \in call[a].ids \ contested[a] :
                (id \notin sent[a].ids \/ reply[a] # NoReply) => id \in revoked \cup denied

AckInv == RemovalsKnown /\ AddedHolds /\ settled \subseteq revoked \cup denied

-------------------------------------------------------------------------------
(***************************************************************************)
(* ScanInv                                                                  *)
(***************************************************************************)

\* The buckets a clear that is at cursor i has still to visit.
Rest(i) == UNION {Buckets[j] : j \in {n \in DOMAIN Buckets : i # 0 /\ i <= n}}

\* Of the agents a clear is to remove, those still denied are in the buckets
\* before it, in the batch it was answered, or in the batch it deletes.
LeftToClear(a) == to_clear[a] \cap denied

ScanOK(a) ==
    /\ Scanning(a) =>
          /\ LeftToClear(a) \subseteq Rest(cursor[a])
          /\ reply[a] # NoReply =>
                LeftToClear(a) \cap Buckets[cursor[a]] \subseteq reply[a].keys
    /\ Sweeping(a) =>
          LeftToClear(a) \subseteq
              Rest(cursor[a]) \cup (IF reply[a] = NoReply THEN sent[a].ids ELSE {})

ScanInv == \A a \in Admins : ScanOK(a)

-------------------------------------------------------------------------------
(***************************************************************************)
(* GrantInv                                                                 *)
(***************************************************************************)

\* A granted nonce has a key that lives as long as its token, to the second.
GrantsKept ==
    \A g \in spent :
        clock <= Timestamp(g.valid_until) =>
            \E e \in nonces : e.nonce = g.nonce /\ e.exat >= Timestamp(g.valid_until)

Granted(r) == \E g \in spent : g.by = r

\* A request was granted its nonce exactly if it was answered so.
GrantOK(r) ==
    /\ Granted(r) => \/ pc[r] = "decided"
                     \/ pc[r] = "consume_nonce" /\ reply[r] = Reply("OK")
    /\ pc[r] = "consume_nonce" /\ reply[r] = Reply("OK") => Granted(r)

\* What was revoked or denied when a request arrived, and since, still is, and
\* the request is on its way to a denial.
BarredOK(r) ==
    /\ r \in revoked_before =>
          /\ presents[r] \in revoked
          /\ pc[r] \in {"is_token_revoked", "decided"}
          /\ pc[r] = "is_token_revoked" => reply[r] # Reply("no")
    /\ r \in denied_before =>
          /\ tok(r).agent_id \in denied
          /\ pc[r] \in {"is_token_revoked", "is_agent_emergency_denied", "decided"}
          /\ pc[r] = "is_agent_emergency_denied" => reply[r] # Reply("no")

GrantInv == GrantsKept /\ \A r \in Requests : GrantOK(r) /\ BarredOK(r)

-------------------------------------------------------------------------------
(***************************************************************************)
(* Facts about commands and calls                                           *)
(***************************************************************************)

\* The fields of a SET NX EXAT.
LEMMA NonceCommandFields ==
    ASSUME NEW k, NEW n, NEW x, k = Command("SET NX EXAT", "nonce", {n}, x)
    PROVE  k.ids = {n} /\ k.exat = x
  BY DEF Command

LEMMA NonceCommandFacts ==
    ASSUME NEW n \in Nonces, NEW x \in Int, NEW k, k = Command("SET NX EXAT", "nonce", {n}, x)
    PROVE  k \in NonceCommands
  <1>1. {n} \in {{m} : m \in Nonces}
    OBVIOUS
  <1> QED
    BY <1>1 DEF Command, NonceCommands

\* Timestamp is an integer.
LEMMA TimestampType == ASSUME NEW t \in Nat PROVE Timestamp(t) \in Int
  BY RedisAssumption DEF Timestamp

\* The token a request presents has its type.
LEMMA TokenFacts ==
    ASSUME TaskTypes, NEW r \in Requests
    PROVE  /\ presents[r] \in TokenIds
           /\ tok(r) \in [agent_id : Agents, nonce : Nonces, issued_at : Nat, expires_at : Nat]
           /\ Timestamp(tok(r).expires_at) \in Int
  BY RedisAssumption, TimestampType DEF TaskTypes, tok

\* What a call sends first, and what it is to remove.
LEMMA CallFacts ==
    ASSUME NEW c \in AdminCalls
    PROVE  /\ c # NoCall /\ c.op # "none"
           /\ c.op \in {"revoke_token", "revoke_tokens", "emergency_deny_agent"} =>
                 /\ FirstCommand(c) \in SetCommands
                 /\ FirstCommand(c).ids = c.ids
                 /\ c.ids \subseteq TokenIds \cup Agents
                 /\ FirstCommand(c) # Scan
                 /\ Removes(c) = {}
           /\ c.op \in {"unrevoke_token", "undeny_agent"} =>
                 /\ FirstCommand(c) \in DelCommands
                 /\ FirstCommand(c).ids = c.ids
                 /\ FirstCommand(c) # Scan
                 /\ Removes(c) = c.ids /\ c.ids \subseteq TokenIds \cup Agents
           /\ c.op = "clear_emergency_deny_list" =>
                 FirstCommand(c) = Scan /\ Removes(c) = Agents
           /\ c.op \in {"revoke_token", "revoke_tokens", "emergency_deny_agent",
                        "unrevoke_token", "undeny_agent", "clear_emergency_deny_list"}
  <1>1. c \in AdminCall
    BY RedisAssumption
  <1>2. c.op \in {"revoke_token", "revoke_tokens", "emergency_deny_agent",
                 "unrevoke_token", "undeny_agent", "clear_emergency_deny_list"}
    BY <1>1 DEF AdminCall
  <1>3. CASE c.op \in {"revoke_token", "revoke_tokens"}
    <2>1. c.ids \in NonEmpty(TokenIds)
      <3>1. c.ids \in {{t} : t \in TokenIds} \/ c.ids \in NonEmpty(TokenIds)
        BY <1>1, <1>3 DEF AdminCall, NonEmpty
      <3> QED
        BY <3>1 DEF NonEmpty
    <2>2. FirstCommand(c) = Command("SET", "revoked", c.ids, 0) /\ Removes(c) = {}
      BY <1>3 DEF FirstCommand, Removes
    <2> QED
      BY <1>3, <2>1, <2>2 DEF Command, SetCommands, Scan, NoCall, NonEmpty
  <1>4. CASE c.op = "emergency_deny_agent"
    <2>1. c.ids \in NonEmpty(Agents)
      <3>1. c.ids \in {{a} : a \in Agents}
        BY <1>1, <1>4 DEF AdminCall
      <3> QED
        BY <3>1 DEF NonEmpty
    <2>2. FirstCommand(c) = Command("SET", "denied", c.ids, 0) /\ Removes(c) = {}
      BY <1>4 DEF FirstCommand, Removes
    <2> QED
      BY <1>4, <2>1, <2>2 DEF Command, SetCommands, Scan, NoCall, NonEmpty
  <1>5. CASE c.op = "unrevoke_token"
    <2>1. c.ids \in {{t} : t \in TokenIds}
      BY <1>1, <1>5 DEF AdminCall
    <2>2. FirstCommand(c) = Command("DEL", "revoked", c.ids, 0) /\ Removes(c) = c.ids
      BY <1>5 DEF FirstCommand, Removes
    <2> QED
      BY <1>5, <2>1, <2>2 DEF Command, DelCommands, Scan, NoCall, NonEmpty
  <1>6. CASE c.op = "undeny_agent"
    <2>1. c.ids \in NonEmpty(Agents)
      <3>1. c.ids \in {{a} : a \in Agents}
        BY <1>1, <1>6 DEF AdminCall
      <3> QED
        BY <3>1 DEF NonEmpty
    <2>2. FirstCommand(c) = Command("DEL", "denied", c.ids, 0) /\ Removes(c) = c.ids
      BY <1>6 DEF FirstCommand, Removes
    <2> QED
      BY <1>6, <2>1, <2>2 DEF Command, DelCommands, Scan, NoCall, NonEmpty
  <1>7. CASE c.op = "clear_emergency_deny_list"
    BY <1>7 DEF FirstCommand, Removes, NoCall
  <1> QED
    BY <1>2, <1>3, <1>4, <1>5, <1>6, <1>7

\* NoCall removes nothing, and what a call removes are tokens and agents.
LEMMA RemovesType ==
    /\ Removes(NoCall) = {}
    /\ \A c \in AdminCalls \cup {NoCall} : Removes(c) \subseteq TokenIds \cup Agents
  <1>1. Removes(NoCall) = {}
    BY DEF Removes, NoCall
  <1> QED
    BY <1>1, CallFacts

\* A record of a command's fields is a command.
LEMMA IsCommand ==
    ASSUME NEW k, k = [cmd |-> k.cmd, kind |-> k.kind, ids |-> k.ids, exat |-> k.exat],
           k.cmd \in CommandNames, k.kind \in Kinds,
           k.ids \subseteq TokenIds \cup Agents \cup Nonces, k.exat \in Int
    PROVE  k \in Commands
  BY DEF Commands

\* Commands are told apart by their names.
LEMMA CommandFacts ==
    /\ NoCommand.cmd = "none" /\ Scan.cmd = "SCAN" /\ Scan \in Commands /\ NoCommand \in Commands
    /\ NoReply.value = "none" /\ NoReply \in Replies
    /\ \A v \in Values : Reply(v).value = v /\ Reply(v) \in Replies
    /\ \A k \in NonceCommands : k \in Commands /\ k.cmd = "SET NX EXAT" /\ k.ids # {}
    /\ \A k \in SetCommands :
          k \in Commands /\ k.cmd = "SET" /\ k.ids # {} /\ k.ids \subseteq TokenIds \cup Agents
    /\ \A k \in DelCommands :
          k \in Commands /\ k.cmd = "DEL" /\ k.ids # {} /\ k.ids \subseteq TokenIds \cup Agents
  <1>1. /\ NoCommand.cmd = "none" /\ Scan.cmd = "SCAN"
        /\ Scan \in Commands /\ NoCommand \in Commands
    BY DEF NoCommand, Scan, Command, Commands, CommandNames, Kinds
  <1>2. /\ NoReply.value = "none" /\ NoReply \in Replies
        /\ \A v \in Values : Reply(v).value = v /\ Reply(v) \in Replies
    BY DEF NoReply, Reply, Replies, Values
  <1>3. ASSUME NEW k \in NonceCommands
        PROVE  k \in Commands /\ k.cmd = "SET NX EXAT" /\ k.ids # {}
    <2>1. PICK n \in Nonces : k.ids = {n}
      BY DEF NonceCommands
    <2> QED
      BY <2>1 DEF NonceCommands, Commands, CommandNames, Kinds, NonEmpty
  <1>4. ASSUME NEW k \in SetCommands
        PROVE  k \in Commands /\ k.cmd = "SET" /\ k.ids # {} /\ k.ids \subseteq TokenIds \cup Agents
    <2>1. CASE k \in [cmd : {"SET"}, kind : {"revoked"}, ids : NonEmpty(TokenIds), exat : {0}]
      <3>1. k = [cmd |-> k.cmd, kind |-> k.kind, ids |-> k.ids, exat |-> k.exat]
        BY <2>1
      <3>2. k.cmd = "SET" /\ k.kind = "revoked" /\ k.exat = 0 /\ k.ids \in NonEmpty(TokenIds)
        BY <2>1
      <3>3. k.ids # {} /\ k.ids \subseteq TokenIds
        BY <3>2 DEF NonEmpty
      <3>4. /\ k.cmd \in CommandNames /\ k.kind \in Kinds /\ k.exat \in Int
            /\ k.ids \subseteq TokenIds \cup Agents \cup Nonces
        BY <3>2, <3>3 DEF CommandNames, Kinds
      <3>5. k \in Commands
        BY <3>1, <3>4, IsCommand, Zenon
      <3> QED
        BY <3>2, <3>3, <3>5
    <2>2. CASE k \in [cmd : {"SET"}, kind : {"denied"}, ids : NonEmpty(Agents), exat : {0}]
      <3>1. k = [cmd |-> k.cmd, kind |-> k.kind, ids |-> k.ids, exat |-> k.exat]
        BY <2>2
      <3>2. k.cmd = "SET" /\ k.kind = "denied" /\ k.exat = 0 /\ k.ids \in NonEmpty(Agents)
        BY <2>2
      <3>3. k.ids # {} /\ k.ids \subseteq Agents
        BY <3>2 DEF NonEmpty
      <3>4. /\ k.cmd \in CommandNames /\ k.kind \in Kinds /\ k.exat \in Int
            /\ k.ids \subseteq TokenIds \cup Agents \cup Nonces
        BY <3>2, <3>3 DEF CommandNames, Kinds
      <3>5. k \in Commands
        BY <3>1, <3>4, IsCommand, Zenon
      <3> QED
        BY <3>2, <3>3, <3>5
    <2> QED
      BY <2>1, <2>2 DEF SetCommands
  <1>5. ASSUME NEW k \in DelCommands
        PROVE  k \in Commands /\ k.cmd = "DEL" /\ k.ids # {} /\ k.ids \subseteq TokenIds \cup Agents
    <2>1. CASE k \in [cmd : {"DEL"}, kind : {"revoked"}, ids : {{t} : t \in TokenIds}, exat : {0}]
      <3>1. k = [cmd |-> k.cmd, kind |-> k.kind, ids |-> k.ids, exat |-> k.exat]
        BY <2>1
      <3>2. k.cmd = "DEL" /\ k.kind = "revoked" /\ k.exat = 0 /\ k.ids \in {{t} : t \in TokenIds}
        BY <2>1
      <3>3. k.ids # {} /\ k.ids \subseteq TokenIds
        BY <3>2 DEF NonEmpty
      <3>4. /\ k.cmd \in CommandNames /\ k.kind \in Kinds /\ k.exat \in Int
            /\ k.ids \subseteq TokenIds \cup Agents \cup Nonces
        BY <3>2, <3>3 DEF CommandNames, Kinds
      <3>5. k \in Commands
        BY <3>1, <3>4, IsCommand, Zenon
      <3> QED
        BY <3>2, <3>3, <3>5
    <2>2. CASE k \in [cmd : {"DEL"}, kind : {"denied"}, ids : NonEmpty(Agents), exat : {0}]
      <3>1. k = [cmd |-> k.cmd, kind |-> k.kind, ids |-> k.ids, exat |-> k.exat]
        BY <2>2
      <3>2. k.cmd = "DEL" /\ k.kind = "denied" /\ k.exat = 0 /\ k.ids \in NonEmpty(Agents)
        BY <2>2
      <3>3. k.ids # {} /\ k.ids \subseteq Agents
        BY <3>2 DEF NonEmpty
      <3>4. /\ k.cmd \in CommandNames /\ k.kind \in Kinds /\ k.exat \in Int
            /\ k.ids \subseteq TokenIds \cup Agents \cup Nonces
        BY <3>2, <3>3 DEF CommandNames, Kinds
      <3>5. k \in Commands
        BY <3>1, <3>4, IsCommand, Zenon
      <3> QED
        BY <3>2, <3>3, <3>5
    <2> QED
      BY <2>1, <2>2 DEF DelCommands
  <1> QED
    BY <1>1, <1>2, <1>3, <1>4, <1>5

\* What is true of a caller stays true while nothing of it changes.
LEMMA RequestFrame ==
    ASSUME NEW r \in Requests, RequestOK(r),
           presents'[r] = presents[r], pc'[r] = pc[r], decision'[r] = decision[r],
           sent'[r] = sent[r], reply'[r] = reply[r]
    PROVE  RequestOK(r)'
  BY DEF RequestOK, tok

LEMMA AdminFrame ==
    ASSUME NEW a \in Admins, AdminOK(a),
           call'[a] = call[a], sent'[a] = sent[a], reply'[a] = reply[a], cursor'[a] = cursor[a]
    PROVE  AdminOK(a)'
  BY DEF AdminOK, AtRest, Adding, Dropping, Scanning, Sweeping

\* Who may have sent which command.
LEMMA SenderFacts ==
    ASSUME WireInv, NEW c \in Callers
    PROVE  /\ sent[c].cmd = "EXISTS" =>
                 c \in Requests /\ pc[c] \in {"is_token_revoked", "is_agent_emergency_denied"}
           /\ sent[c].cmd = "SET NX EXAT" => c \in Requests /\ pc[c] = "consume_nonce"
           /\ sent[c].cmd = "SET" => c \in Admins /\ Adding(c)
           /\ sent[c].cmd = "DEL" => c \in Admins /\ (Dropping(c) \/ Sweeping(c))
           /\ sent[c].cmd = "SCAN" => c \in Admins /\ Scanning(c)
  <1>1. CASE c \in Requests
    <2>1. RequestOK(c) /\ pc[c] \in Stages
      BY <1>1 DEF WireInv, TaskTypes
    <2>2. \/ pc[c] \in {"idle", "decided"} /\ sent[c].cmd = "none"
          \/ pc[c] \in {"is_token_revoked", "is_agent_emergency_denied"} /\ sent[c].cmd = "EXISTS"
          \/ pc[c] = "consume_nonce" /\ sent[c].cmd = "SET NX EXAT"
      <3>1. \A kind, ids, exat : Command("EXISTS", kind, ids, exat).cmd = "EXISTS"
        BY DEF Command
      <3>2. \A kind, ids, exat : Command("SET NX EXAT", kind, ids, exat).cmd = "SET NX EXAT"
        BY DEF Command
      <3>3. CASE pc[c] \in {"idle", "decided"}
        BY <2>1, <3>3, CommandFacts DEF RequestOK
      <3>4. CASE pc[c] = "is_token_revoked"
        BY <2>1, <3>1, <3>4 DEF RequestOK
      <3>5. CASE pc[c] = "is_agent_emergency_denied"
        BY <2>1, <3>1, <3>5 DEF RequestOK
      <3>6. CASE pc[c] = "consume_nonce"
        BY <2>1, <3>2, <3>6 DEF RequestOK
      <3> QED
        BY <2>1, <3>3, <3>4, <3>5, <3>6 DEF Stages
    <2> QED
      BY <1>1, <2>2
  <1>2. CASE c \in Admins
    <2>1. AdminOK(c)
      BY <1>2 DEF WireInv
    <2> QED
      BY <1>2, <2>1, CommandFacts DEF AdminOK, AtRest, Adding, Dropping, Scanning, Sweeping
  <1> QED
    BY <1>1, <1>2 DEF Callers

-------------------------------------------------------------------------------
(***************************************************************************)
(* WireInv is inductive                                                     *)
(***************************************************************************)

\* A step of one caller leaves what is true of the others.
LEMMA OneCaller ==
    ASSUME WireInv, NEW c \in Callers,
           \A d \in Callers \ {c} : sent'[d] = sent[d] /\ reply'[d] = reply[d],
           \A r \in Requests \ {c} :
               presents'[r] = presents[r] /\ pc'[r] = pc[r] /\ decision'[r] = decision[r],
           \A a \in Admins \ {c} : call'[a] = call[a] /\ cursor'[a] = cursor[a],
           c \in Requests => RequestOK(c)',
           c \in Admins => AdminOK(c)'
    PROVE  /\ \A r \in Requests : RequestOK(r)'
           /\ \A a \in Admins : AdminOK(a)'
  <1>1. ASSUME NEW r \in Requests PROVE RequestOK(r)'
    <2>1. CASE r # c
      <3>1. RequestOK(r) /\ r \in Callers
        BY DEF WireInv, Callers
      <3> QED
        BY <2>1, <3>1, RequestFrame
    <2> QED
      BY <2>1
  <1>2. ASSUME NEW a \in Admins PROVE AdminOK(a)'
    <2>1. CASE a # c
      <3>1. AdminOK(a) /\ a \in Callers
        BY DEF WireInv, Callers
      <3> QED
        BY <2>1, <3>1, AdminFrame
    <2> QED
      BY <2>1
  <1> QED
    BY <1>1, <1>2

\* A step of the server or the clock that answers nobody leaves the callers.
LEMMA NoCaller ==
    ASSUME WireInv, UNCHANGED <<sent, reply, presents, pc, decision, call, cursor>>
    PROVE  /\ \A r \in Requests : RequestOK(r)'
           /\ \A a \in Admins : AdminOK(a)'
  BY RequestFrame, AdminFrame DEF WireInv

LEMMA InitWire == Init => WireInv
  <1> SUFFICES ASSUME Init PROVE WireInv
    OBVIOUS
  <1>1. ServerTypes
    <2>1. Horizon[crew] \in Nat /\ crew \in Crews
      BY RedisAssumption DEF Init
    <2> QED
      BY <2>1 DEF Init, ServerTypes
  <1>2. NetworkTypes
    <2>1. MaxFailures \in Nat
      BY RedisAssumption
    <2>2. 0 \in 0..MaxFailures
      BY <2>1
    <2> QED
      BY <2>2, CommandFacts DEF Init, NetworkTypes
  <1>3. TaskTypes
    <2>1. Len(Buckets) \in Nat
      BY RedisAssumption
    <2> QED
      BY <2>1 DEF Init, TaskTypes, Stages
  <1>4. HistoryTypes
    BY DEF Init, HistoryTypes
  <1>5. ASSUME NEW r \in Requests PROVE RequestOK(r)
    BY DEF Init, RequestOK, Callers
  <1>6. ASSUME NEW a \in Admins PROVE AdminOK(a)
    BY DEF Init, AdminOK, AtRest, Callers
  <1> QED
    BY <1>1, <1>2, <1>3, <1>4, <1>5, <1>6 DEF WireInv

LEMMA TickWire == ASSUME WireInv, Tick PROVE WireInv'
  <1>1. /\ clock < Horizon[crew] /\ clock' = clock + 1
        /\ UNCHANGED <<crew, server, network, evaluation, administration, history>>
    BY DEF Tick
  <1>2. ServerTypes'
    <2>1. Horizon[crew] \in Nat /\ clock \in 0..Horizon[crew]
      BY RedisAssumption DEF WireInv, ServerTypes
    <2>2. clock' \in 0..Horizon[crew]
      BY <1>1, <2>1
    <2> QED
      BY <1>1, <2>2 DEF WireInv, ServerTypes, server
  <1>3. NetworkTypes' /\ TaskTypes' /\ HistoryTypes'
    BY <1>1 DEF WireInv, NetworkTypes, TaskTypes, HistoryTypes, network, evaluation,
                administration, history
  <1> QED
    BY <1>1, <1>2, <1>3, NoCaller DEF WireInv, network, evaluation, administration

LEMMA ServeExistsWire ==
    ASSUME WireInv, NEW c \in Callers, ServeExists(c)
    PROVE  WireInv'
  <1>1. PICK v \in {"yes", "no"} : reply' = [reply EXCEPT ![c] = Reply(v)]
    BY DEF ServeExists, Answer
  <1>2. /\ sent[c].cmd = "EXISTS"
        /\ UNCHANGED <<clock, crew, server, sent, strays, failures, evaluation,
                       administration, history>>
    BY DEF ServeExists, Waiting
  <1>3. c \in Requests /\ pc[c] \in {"is_token_revoked", "is_agent_emergency_denied"}
    BY <1>2, SenderFacts
  <1>4. reply' \in [Callers -> Replies]
    BY <1>1, CommandFacts DEF WireInv, NetworkTypes, Values
  <1>5. RequestOK(c)'
    <2>1. reply'[c] = Reply(v)
      BY <1>1 DEF WireInv, NetworkTypes
    <2> QED
      BY <1>2, <1>3, <2>1 DEF WireInv, RequestOK, evaluation, tok
  <1>6. c \notin Admins
    BY <1>3, RedisAssumption
  <1>7. /\ \A r \in Requests : RequestOK(r)'
        /\ \A a \in Admins : AdminOK(a)'
    BY <1>1, <1>2, <1>5, <1>6, OneCaller DEF evaluation, administration, WireInv, NetworkTypes
  <1> QED
    BY <1>2, <1>4, <1>7 DEF WireInv, ServerTypes, NetworkTypes, TaskTypes, HistoryTypes,
                            server, evaluation, administration, history

\* The kinds of the commands that change sets, and a pipeline one command on.
LEMMA KindFacts ==
    /\ \A k \in SetCommands :
          /\ \/ k.kind = "revoked" /\ k.ids \subseteq TokenIds
             \/ k.kind = "denied" /\ k.ids \subseteq Agents
          /\ \A id \in k.ids : k.ids # {id} => [k EXCEPT !.ids = @ \ {id}] \in SetCommands
    /\ \A k \in DelCommands :
          \/ k.kind = "revoked" /\ \E t \in TokenIds : k.ids = {t}
          \/ k.kind = "denied" /\ k.ids \subseteq Agents
    /\ \A k \in NonceCommands : k.ids \subseteq Nonces /\ k.exat \in Int
  <1>1. ASSUME NEW k \in SetCommands
        PROVE  \/ k.kind = "revoked" /\ k.ids \subseteq TokenIds
               \/ k.kind = "denied" /\ k.ids \subseteq Agents
    BY DEF SetCommands, NonEmpty
  <1>2. ASSUME NEW k \in SetCommands, NEW id \in k.ids, k.ids # {id}
        PROVE  [k EXCEPT !.ids = @ \ {id}] \in SetCommands
    <2>1. CASE k \in [cmd : {"SET"}, kind : {"revoked"}, ids : NonEmpty(TokenIds), exat : {0}]
      <3>1. k.ids \ {id} \in NonEmpty(TokenIds)
        BY <1>2, <2>1 DEF NonEmpty
      <3> QED
        BY <2>1, <3>1 DEF SetCommands
    <2>2. CASE k \in [cmd : {"SET"}, kind : {"denied"}, ids : NonEmpty(Agents), exat : {0}]
      <3>1. k.ids \ {id} \in NonEmpty(Agents)
        BY <1>2, <2>2 DEF NonEmpty
      <3> QED
        BY <2>2, <3>1 DEF SetCommands
    <2> QED
      BY <2>1, <2>2 DEF SetCommands
  <1>3. ASSUME NEW k \in DelCommands
        PROVE  \/ k.kind = "revoked" /\ \E t \in TokenIds : k.ids = {t}
               \/ k.kind = "denied" /\ k.ids \subseteq Agents
    BY DEF DelCommands, NonEmpty
  <1>4. ASSUME NEW k \in NonceCommands PROVE k.ids \subseteq Nonces /\ k.exat \in Int
    BY DEF NonceCommands
  <1> QED
    BY <1>1, <1>2, <1>3, <1>4

\* SET NX EXAT keeps one key to a nonce.
LEMMA SetNonceTypes ==
    ASSUME ServerTypes, NEW k, k.ids \subseteq Nonces, k.exat \in Int, SetNonce(k)
    PROVE  /\ nonces' \subseteq [nonce : Nonces, exat : Int]
           /\ \A e, f \in nonces' : e.nonce = f.nonce => e = f
  <1> DEFINE fresh == {n \in k.ids : ~Present(n)}
  <1>1. nonces' = {e \in nonces : e.nonce \notin fresh}
                      \cup {[nonce |-> n, exat |-> k.exat] : n \in fresh}
    BY DEF SetNonce
  <1>2. fresh \subseteq Nonces
    OBVIOUS
  <1> HIDE DEF fresh
  <1>3. ASSUME NEW e \in nonces' PROVE e \in [nonce : Nonces, exat : Int]
    BY <1>1, <1>2 DEF ServerTypes
  <1>4. ASSUME NEW e \in nonces', NEW f \in nonces', e.nonce = f.nonce PROVE e = f
    BY <1>1, <1>4 DEF ServerTypes
  <1> QED
    BY <1>3, <1>4

\* SET and DEL keep the types of the sets.
LEMMA SetTypes ==
    ASSUME ServerTypes, HistoryTypes, NEW k \in SetCommands, NEW id \in k.ids, Set(k.kind, id)
    PROVE  /\ revoked' \subseteq TokenIds /\ denied' \subseteq Agents
           /\ to_clear' \in [Admins -> SUBSET Agents]
  BY KindFacts DEF Set, ServerTypes, HistoryTypes

LEMMA DelTypes ==
    ASSUME ServerTypes, HistoryTypes, NEW k, Del(k)
    PROVE  /\ revoked' \subseteq revoked /\ denied' \subseteq denied
           /\ revoked_before' \subseteq revoked_before /\ denied_before' \subseteq denied_before
  BY DEF Del

\* The nonce and the expiry a request has sent.
LEMMA NonceSentFields ==
    ASSUME NEW r, NEW n, NEW x, sent[r] = Command("SET NX EXAT", "nonce", {n}, x)
    PROVE  sent[r].ids = {n} /\ sent[r].exat = x
  BY NonceCommandFields, Zenon

\* What consume_nonce has sent.
LEMMA NonceSent ==
    ASSUME WireInv, NEW r \in Requests, pc[r] = "consume_nonce"
    PROVE  /\ sent[r].ids = {tok(r).nonce} /\ sent[r].exat = Timestamp(tok(r).expires_at)
           /\ sent[r].ids \subseteq Nonces /\ sent[r].exat \in Int
  <1>1. /\ tok(r) \in [agent_id : Agents, nonce : Nonces, issued_at : Nat, expires_at : Nat]
        /\ Timestamp(tok(r).expires_at) \in Int
    BY TokenFacts DEF WireInv
  <1>2. sent[r] = Command("SET NX EXAT", "nonce", {tok(r).nonce}, Timestamp(tok(r).expires_at))
    BY DEF WireInv, RequestOK
  <1>3. sent[r].ids = {tok(r).nonce} /\ sent[r].exat = Timestamp(tok(r).expires_at)
    <2>1. PICK n, x : n = tok(r).nonce /\ x = Timestamp(tok(r).expires_at)
      BY Zenon
    <2>2. sent[r] = Command("SET NX EXAT", "nonce", {n}, x)
      BY <1>2, <2>1
    <2>3. sent[r].ids = {n} /\ sent[r].exat = x
      BY <2>2, NonceSentFields, Zenon
    <2> QED
      BY <2>1, <2>3
  <1> QED
    BY <1>1, <1>3

LEMMA ServeSetNonceWire ==
    ASSUME WireInv, NEW c \in Callers, ServeSetNonce(c)
    PROVE  WireInv'
  <1>1. /\ sent[c].cmd = "SET NX EXAT" /\ SetNonce(sent[c])
        /\ UNCHANGED <<clock, crew, revoked, denied, sent, strays, failures, evaluation,
                       administration, revoked_before, denied_before, contested, settled,
                       to_clear>>
    BY DEF ServeSetNonce, Waiting
  <1>2. c \in Requests /\ pc[c] = "consume_nonce" /\ c \notin Admins
    BY <1>1, SenderFacts, RedisAssumption
  <1>3. PICK v \in {"nil", "OK"} : reply' = [reply EXCEPT ![c] = Reply(v)]
    BY DEF ServeSetNonce, Answer
  <1>4. /\ tok(c) \in [agent_id : Agents, nonce : Nonces, issued_at : Nat, expires_at : Nat]
        /\ Timestamp(tok(c).expires_at) \in Int
    BY <1>2, TokenFacts DEF WireInv
  <1>5. spent' \subseteq Grants
    <2>1. [nonce |-> tok(c).nonce, valid_until |-> tok(c).expires_at, by |-> c] \in Grants
      BY <1>2, <1>4 DEF Grants
    <2> QED
      BY <2>1 DEF ServeSetNonce, WireInv, HistoryTypes
  <1>6. ServerTypes'
    <2>1. sent[c].ids \subseteq Nonces /\ sent[c].exat \in Int
      BY <1>2, NonceSent
    <2> QED
      BY <1>1, <2>1, SetNonceTypes DEF WireInv, ServerTypes
  <1>7. reply' \in [Callers -> Replies] /\ reply'[c] = Reply(v)
    BY <1>3, CommandFacts DEF WireInv, NetworkTypes, Values
  <1>8. RequestOK(c)'
    BY <1>1, <1>2, <1>7 DEF WireInv, RequestOK, evaluation, tok
  <1>9. /\ \A r \in Requests : RequestOK(r)'
        /\ \A a \in Admins : AdminOK(a)'
    BY <1>1, <1>2, <1>3, <1>8, OneCaller DEF evaluation, administration, WireInv, NetworkTypes
  <1> QED
    BY <1>1, <1>5, <1>6, <1>7, <1>9
       DEF WireInv, NetworkTypes, TaskTypes, HistoryTypes, evaluation, administration

LEMMA ServeSetWire ==
    ASSUME WireInv, NEW c \in Callers, ServeSet(c)
    PROVE  WireInv'
  <1>1. /\ sent[c].cmd = "SET"
        /\ UNCHANGED <<clock, crew, nonces, strays, failures, evaluation, administration, spent,
                       revoked_before, denied_before, contested, settled>>
    BY DEF ServeSet, Waiting
  <1>2. c \in Admins /\ Adding(c) /\ c \notin Requests
    BY <1>1, SenderFacts, RedisAssumption
  <1>3. PICK id \in sent[c].ids :
          /\ Set(sent[c].kind, id)
          /\ IF sent[c].ids = {id}
             THEN Answer(c, Reply("OK")) /\ UNCHANGED sent
             ELSE sent' = [sent EXCEPT ![c].ids = @ \ {id}] /\ UNCHANGED reply
    BY DEF ServeSet
  <1>4. sent[c] \in SetCommands
    BY <1>2 DEF Adding
  <1>5. revoked' \subseteq TokenIds /\ denied' \subseteq Agents /\ to_clear' \in [Admins -> SUBSET Agents]
    BY <1>3, <1>4, SetTypes DEF WireInv
  <1>6. /\ sent' \in [Callers -> Commands] /\ reply' \in [Callers -> Replies]
        /\ \A d \in Callers \ {c} : sent'[d] = sent[d] /\ reply'[d] = reply[d]
        /\ sent'[c] \in SetCommands /\ sent'[c].kind = sent[c].kind
        /\ sent'[c].ids \subseteq sent[c].ids
        /\ reply'[c] \in {reply[c], Reply("OK")}
    <2>1. CASE sent[c].ids = {id}
      BY <1>3, <1>4, <2>1, CommandFacts DEF WireInv, NetworkTypes, Answer, Values
    <2>2. CASE sent[c].ids # {id}
      <3>1. sent' = [sent EXCEPT ![c] = [sent[c] EXCEPT !.ids = @ \ {id}]] /\ reply' = reply
        BY <1>3, <2>2
      <3>2. [sent[c] EXCEPT !.ids = @ \ {id}] \in SetCommands
        BY <1>4, <2>2, KindFacts
      <3>3. /\ [sent[c] EXCEPT !.ids = @ \ {id}].kind = sent[c].kind
            /\ [sent[c] EXCEPT !.ids = @ \ {id}].ids = sent[c].ids \ {id}
        BY <1>4, CommandFacts DEF Commands
      <3> QED
        BY <3>1, <3>2, <3>3, CommandFacts DEF WireInv, NetworkTypes
    <2> QED
      BY <2>1, <2>2
  <1>7. AdminOK(c)'
    BY <1>1, <1>2, <1>6 DEF Adding, AdminOK, administration
  <1>8. /\ \A r \in Requests : RequestOK(r)'
        /\ \A a \in Admins : AdminOK(a)'
    BY <1>1, <1>2, <1>6, <1>7, OneCaller DEF evaluation, administration
  <1> QED
    BY <1>1, <1>5, <1>6, <1>8
       DEF WireInv, ServerTypes, NetworkTypes, TaskTypes, HistoryTypes, evaluation, administration

LEMMA ServeDelWire ==
    ASSUME WireInv, NEW c \in Callers, ServeDel(c)
    PROVE  WireInv'
  <1>1. /\ sent[c].cmd = "DEL" /\ Del(sent[c])
        /\ reply' = [reply EXCEPT ![c] = Reply("OK")]
        /\ UNCHANGED <<clock, crew, nonces, sent, strays, failures, evaluation, administration,
                       spent, contested, settled, to_clear>>
    BY DEF ServeDel, Waiting, Answer
  <1>2. c \in Admins /\ (Dropping(c) \/ Sweeping(c)) /\ c \notin Requests
    BY <1>1, SenderFacts, RedisAssumption
  <1>3. /\ revoked' \subseteq revoked /\ denied' \subseteq denied
        /\ revoked_before' \subseteq revoked_before /\ denied_before' \subseteq denied_before
    BY <1>1, DelTypes DEF WireInv
  <1>4. reply' \in [Callers -> Replies] /\ reply'[c] = Reply("OK")
    BY <1>1, CommandFacts DEF WireInv, NetworkTypes, Values
  <1>5. AdminOK(c)'
    BY <1>1, <1>2, <1>4 DEF AdminOK, Dropping, Sweeping, administration
  <1>6. /\ \A r \in Requests : RequestOK(r)'
        /\ \A a \in Admins : AdminOK(a)'
    BY <1>1, <1>2, <1>5, OneCaller DEF evaluation, administration, WireInv, NetworkTypes
  <1> QED
    BY <1>1, <1>3, <1>4, <1>6
       DEF WireInv, ServerTypes, NetworkTypes, TaskTypes, HistoryTypes, evaluation, administration

LEMMA ServeScanWire ==
    ASSUME WireInv, NEW c \in Callers, ServeScan(c)
    PROVE  WireInv'
  <1>1. /\ sent[c].cmd = "SCAN"
        /\ UNCHANGED <<clock, crew, server, sent, strays, failures, evaluation, administration,
                       history>>
    BY DEF ServeScan, Waiting
  <1>2. c \in Admins /\ Scanning(c) /\ c \notin Requests
    BY <1>1, SenderFacts, RedisAssumption
  <1>3. PICK keys \in SUBSET denied :
          reply' = [reply EXCEPT ![c] = [value |-> "keys", keys |-> keys]]
    <2>1. PICK more \in SUBSET denied :
            reply' = [reply EXCEPT ![c] =
                [value |-> "keys", keys |-> (denied \cap Buckets[cursor[c]]) \cup more]]
      BY DEF ServeScan, Answer
    <2> QED
      BY <2>1
  <1>4. [value |-> "keys", keys |-> keys] \in Replies
    BY DEF WireInv, ServerTypes, Replies, Values
  <1>5. reply' \in [Callers -> Replies] /\ reply'[c].value = "keys"
    BY <1>3, <1>4 DEF WireInv, NetworkTypes
  <1>6. AdminOK(c)'
    BY <1>1, <1>2, <1>5 DEF AdminOK, Scanning, administration
  <1>7. /\ \A r \in Requests : RequestOK(r)'
        /\ \A a \in Admins : AdminOK(a)'
    BY <1>1, <1>2, <1>3, <1>6, OneCaller DEF evaluation, administration, WireInv, NetworkTypes
  <1> QED
    BY <1>1, <1>5, <1>7 DEF WireInv, ServerTypes, NetworkTypes, TaskTypes, HistoryTypes,
                            server, evaluation, administration, history

LEMMA StrayWire ==
    ASSUME WireInv, NEW k \in strays, ServeStray(k) \/ LoseStray(k)
    PROVE  WireInv'
  <1>1. /\ UNCHANGED <<clock, crew, sent, reply, failures, evaluation, administration, spent,
                       contested, settled>>
    BY DEF ServeStray, LoseStray, history
  <1>2. ServerTypes' /\ HistoryTypes' /\ strays' \subseteq NonceCommands \cup SetCommands \cup DelCommands
    <2> USE DEF WireInv
    <2>1. k \in NonceCommands \cup SetCommands \cup DelCommands
      BY DEF NetworkTypes
    <2>2. CASE k.cmd = "SET NX EXAT" /\ ServeStray(k)
      <3>1. /\ SetNonce(k) /\ strays' = strays \ {k}
            /\ UNCHANGED <<revoked, denied, revoked_before, denied_before, to_clear>>
        BY <2>2 DEF ServeStray
      <3>2. k \in NonceCommands
        BY <2>1, <2>2, CommandFacts
      <3>3. /\ nonces' \subseteq [nonce : Nonces, exat : Int]
            /\ \A e, f \in nonces' : e.nonce = f.nonce => e = f
        BY <3>1, <3>2, SetNonceTypes, KindFacts
      <3> QED
        BY <1>1, <3>1, <3>3 DEF ServerTypes, HistoryTypes, NetworkTypes
    <2>3. CASE k.cmd = "SET" /\ ServeStray(k)
      <3>1. k \in SetCommands
        BY <2>1, <2>3, CommandFacts
      <3>2. PICK id \in k.ids :
              /\ Set(k.kind, id)
              /\ strays' = (strays \ {k}) \cup {q \in {[k EXCEPT !.ids = @ \ {id}]} : q.ids # {}}
              /\ UNCHANGED <<nonces, revoked_before, denied_before>>
        BY <2>3 DEF ServeStray
      <3>3. /\ revoked' \subseteq TokenIds /\ denied' \subseteq Agents
            /\ to_clear' \in [Admins -> SUBSET Agents]
        BY <3>1, <3>2, SetTypes
      <3>4. ASSUME NEW q \in strays', q \notin strays PROVE q \in SetCommands
        <4>1. q = [k EXCEPT !.ids = @ \ {id}] /\ q.ids # {}
          BY <3>2, <3>4
        <4>2. q.ids = k.ids \ {id}
          BY <3>1, <4>1, CommandFacts DEF Commands
        <4> QED
          BY <3>1, <4>1, <4>2, KindFacts
      <3> QED
        BY <1>1, <3>2, <3>3, <3>4 DEF ServerTypes, HistoryTypes, NetworkTypes
    <2>4. CASE k.cmd = "DEL" /\ ServeStray(k)
      <3>1. Del(k) /\ strays' = strays \ {k} /\ UNCHANGED <<nonces, to_clear>>
        BY <2>4 DEF ServeStray
      <3>2. /\ revoked' \subseteq revoked /\ denied' \subseteq denied
            /\ revoked_before' \subseteq revoked_before /\ denied_before' \subseteq denied_before
        BY <3>1, DelTypes
      <3> QED
        BY <1>1, <3>1, <3>2 DEF ServerTypes, HistoryTypes, NetworkTypes
    <2>5. CASE LoseStray(k)
      BY <1>1, <2>5 DEF LoseStray, ServerTypes, HistoryTypes, NetworkTypes, server, history
    <2> QED
      BY <2>2, <2>3, <2>4, <2>5 DEF ServeStray
  <1>3. /\ \A r \in Requests : RequestOK(r)'
        /\ \A a \in Admins : AdminOK(a)'
    BY <1>1, NoCaller DEF evaluation, administration
  <1> QED
    BY <1>1, <1>2, <1>3 DEF WireInv, NetworkTypes, TaskTypes, evaluation, administration

\* A step of an evaluation sets its own stage, command and verdict.
LEMMA EvaluationWire ==
    ASSUME WireInv, NEW r \in Requests, NEW k \in Commands,
           NEW stage \in Stages, NEW verdict \in {"pending", "allow", "deny"},
           pc' = [pc EXCEPT ![r] = stage], decision' = [decision EXCEPT ![r] = verdict],
           Send(r, k), now' \in [Requests -> Nat],
           RequestOK(r)',
           strays' \subseteq NonceCommands \cup SetCommands \cup DelCommands,
           failures' \in 0..MaxFailures,
           revoked_before' \subseteq Requests, denied_before' \subseteq Requests,
           UNCHANGED <<clock, crew, server, presents, administration, spent,
                       contested, settled, to_clear>>
    PROVE  WireInv'
  <1>1. /\ sent' \in [Callers -> Commands] /\ reply' \in [Callers -> Replies]
        /\ \A d \in Callers \ {r} : sent'[d] = sent[d] /\ reply'[d] = reply[d]
    BY CommandFacts DEF WireInv, NetworkTypes, Send
  <1>2. /\ pc' \in [Requests -> Stages] /\ decision' \in [Requests -> {"pending", "allow", "deny"}]
        /\ \A q \in Requests \ {r} : pc'[q] = pc[q] /\ decision'[q] = decision[q]
    BY DEF WireInv, TaskTypes
  <1>3. r \in Callers /\ r \notin Admins
    BY RedisAssumption DEF Callers
  <1>4. /\ \A q \in Requests : RequestOK(q)'
        /\ \A a \in Admins : AdminOK(a)'
    BY <1>1, <1>2, <1>3, OneCaller DEF administration
  <1> QED
    BY <1>1, <1>2, <1>4 DEF WireInv, ServerTypes, NetworkTypes, TaskTypes, HistoryTypes,
                            server, administration

\* The command and the reply of a caller after Send.
LEMMA SendFacts ==
    ASSUME WireInv, NEW c \in Callers, NEW k, Send(c, k)
    PROVE  /\ sent'[c] = k /\ reply'[c] = NoReply
           /\ \A d \in Callers \ {c} : sent'[d] = sent[d] /\ reply'[d] = reply[d]
  BY DEF WireInv, NetworkTypes, Send

\* Breaking a connection leaves a command of its caller on the way, at most.
LEMMA BreakFacts ==
    ASSUME WireInv, NEW c \in Callers, ConnectionBreaks(c)
    PROVE  /\ sent[c] # NoCommand
           /\ failures' = failures + 1 /\ failures' \in 0..MaxFailures
           /\ strays \subseteq strays' /\ strays' \subseteq strays \cup {sent[c]}
           /\ strays' \subseteq NonceCommands \cup SetCommands \cup DelCommands
  <1>1. /\ sent[c] # NoCommand /\ failures < MaxFailures /\ failures' = failures + 1
    BY DEF ConnectionBreaks
  <1>2. failures' \in 0..MaxFailures
    <2>1. failures \in 0..MaxFailures /\ MaxFailures \in Nat
      BY RedisAssumption DEF WireInv, NetworkTypes
    <2> QED
      BY <1>1, <2>1
  <1>3. PICK left \in SUBSET {k \in {sent[c]} : k.cmd \in {"SET NX EXAT", "SET", "DEL"}} :
          strays' = strays \cup left
    <2>1. PICK left \in SUBSET {k \in {sent[c]} : reply[c] = NoReply
                                    /\ k.cmd \in {"SET NX EXAT", "SET", "DEL"}} :
            strays' = strays \cup left
      BY DEF ConnectionBreaks
    <2> QED
      BY <2>1
  <1>4. ASSUME sent[c].cmd \in {"SET NX EXAT", "SET", "DEL"}
        PROVE  sent[c] \in NonceCommands \cup SetCommands \cup DelCommands
    <2>1. CASE sent[c].cmd = "SET NX EXAT"
      <3>1. c \in Requests /\ pc[c] = "consume_nonce"
        BY <2>1, SenderFacts
      <3>2. sent[c] = Command("SET NX EXAT", "nonce", {tok(c).nonce},
                              Timestamp(tok(c).expires_at))
        BY <3>1 DEF WireInv, RequestOK
      <3>3. tok(c).nonce \in Nonces /\ Timestamp(tok(c).expires_at) \in Int
        BY <3>1, TokenFacts DEF WireInv
      <3> QED
        BY <3>2, <3>3, NonceCommandFacts, Zenon
    <2>2. CASE sent[c].cmd \in {"SET", "DEL"}
      BY <2>2, SenderFacts DEF Adding, Dropping, Sweeping
    <2> QED
      BY <1>4, <2>1, <2>2
  <1> QED
    BY <1>1, <1>2, <1>3, <1>4 DEF WireInv, NetworkTypes

\* An evaluation that asks moves on to the stage that waits for the answer.
LEMMA AskWire ==
    ASSUME WireInv, NEW r \in Requests, pc[r] # "decided",
           NEW stage \in Stages, NEW k \in Commands, Ask(r, stage, k),
           \/ stage = "is_token_revoked" /\ k = Command("EXISTS", "revoked", {presents[r]}, 0)
           \/ /\ stage = "is_agent_emergency_denied"
              /\ k = Command("EXISTS", "denied", {tok(r).agent_id}, 0)
           \/ /\ stage = "consume_nonce"
              /\ k = Command("SET NX EXAT", "nonce", {tok(r).nonce}, Timestamp(tok(r).expires_at)),
           now' \in [Requests -> Nat],
           revoked_before' \subseteq Requests, denied_before' \subseteq Requests,
           UNCHANGED <<clock, crew, server, strays, failures, presents, administration, spent,
                       contested, settled, to_clear>>
    PROVE  WireInv'
  <1>1. r \in Callers
    BY DEF Callers
  <1>2. /\ pc' = [pc EXCEPT ![r] = stage] /\ pc'[r] = stage
        /\ decision' = [decision EXCEPT ![r] = "pending"] /\ decision'[r] = "pending"
    BY DEF Ask, WireInv, TaskTypes, RequestOK
  <1>3. Send(r, k) /\ sent'[r] = k /\ reply'[r] = NoReply
    BY <1>1, SendFacts DEF Ask
  <1>4. RequestOK(r)'
    BY <1>2, <1>3 DEF RequestOK, tok
  <1>5. strays' \subseteq NonceCommands \cup SetCommands \cup DelCommands /\ failures' \in 0..MaxFailures
    BY DEF WireInv, NetworkTypes
  <1> QED
    BY <1>2, <1>3, <1>4, <1>5, EvaluationWire

\* An evaluation that decides has nothing under way any more.
LEMMA DecideWire ==
    ASSUME WireInv, NEW r \in Requests, NEW verdict \in {"allow", "deny"}, Decide(r, verdict),
           strays' \subseteq NonceCommands \cup SetCommands \cup DelCommands,
           failures' \in 0..MaxFailures,
           UNCHANGED <<clock, crew, server, presents, now, administration, history>>
    PROVE  WireInv'
  <1>1. r \in Callers
    BY DEF Callers
  <1>2. /\ pc' = [pc EXCEPT ![r] = "decided"] /\ pc'[r] = "decided"
        /\ decision' = [decision EXCEPT ![r] = verdict] /\ decision'[r] = verdict
    BY DEF Decide, WireInv, TaskTypes
  <1>3. Send(r, NoCommand) /\ sent'[r] = NoCommand /\ reply'[r] = NoReply
    BY <1>1, SendFacts DEF Decide
  <1>4. RequestOK(r)'
    BY <1>2, <1>3 DEF RequestOK
  <1>5. /\ now' \in [Requests -> Nat] /\ revoked_before' \subseteq Requests
        /\ denied_before' \subseteq Requests
        /\ UNCHANGED <<spent, contested, settled, to_clear>>
    BY DEF WireInv, TaskTypes, HistoryTypes, history
  <1>6. "decided" \in Stages /\ NoCommand \in Commands
    BY CommandFacts DEF Stages
  <1> QED
    BY <1>2, <1>3, <1>4, <1>5, <1>6, EvaluationWire

LEMMA ExistsCommand ==
    ASSUME NEW kind \in {"revoked", "denied"}, NEW id \in TokenIds \cup Agents
    PROVE  Command("EXISTS", kind, {id}, 0) \in Commands
  BY DEF Command, Commands, CommandNames, Kinds

LEMMA ArriveWire ==
    ASSUME WireInv, NEW r \in Requests, Arrive(r)
    PROVE  WireInv'
  <1>1. /\ pc[r] = "idle" /\ now' = [now EXCEPT ![r] = clock]
        /\ Ask(r, "is_token_revoked", Command("EXISTS", "revoked", {presents[r]}, 0))
        /\ UNCHANGED <<clock, crew, server, strays, failures, presents, administration, spent,
                       contested, settled, to_clear>>
    BY DEF Arrive
  <1>2. Command("EXISTS", "revoked", {presents[r]}, 0) \in Commands
    BY TokenFacts, ExistsCommand DEF WireInv
  <1>3. now' \in [Requests -> Nat]
    <2>1. clock \in Nat
      <3>1. Horizon[crew] \in Nat /\ clock \in 0..Horizon[crew]
        BY RedisAssumption DEF WireInv, ServerTypes
      <3> QED
        BY <3>1
    <2> QED
      BY <1>1, <2>1 DEF WireInv, TaskTypes
  <1>4. revoked_before' \subseteq Requests /\ denied_before' \subseteq Requests
    BY DEF Arrive, WireInv, HistoryTypes
  <1>5. pc[r] # "decided" /\ "is_token_revoked" \in Stages
    BY <1>1 DEF Stages
  <1> QED
    BY <1>1, <1>2, <1>3, <1>4, <1>5, AskWire

LEMMA EvaluateWire ==
    ASSUME WireInv, NEW r \in Requests, Evaluate(r)
    PROVE  WireInv'
  <1>1. /\ pc[r] \in {"is_token_revoked", "is_agent_emergency_denied", "consume_nonce"}
        /\ UNCHANGED <<clock, crew, server, strays, failures, presents, now, administration, history>>
    BY DEF Evaluate, TokenRevokedReply, AgentDeniedReply, ConsumeNonceReply
  <1>2. /\ now' \in [Requests -> Nat] /\ revoked_before' \subseteq Requests
        /\ denied_before' \subseteq Requests /\ pc[r] # "decided"
        /\ UNCHANGED <<spent, contested, settled, to_clear>>
    BY <1>1 DEF WireInv, TaskTypes, HistoryTypes, history
  <1>3. CASE \E verdict \in {"allow", "deny"} : Decide(r, verdict)
    <2>1. PICK verdict \in {"allow", "deny"} : Decide(r, verdict)
      BY <1>3
    <2>2. /\ strays' \subseteq NonceCommands \cup SetCommands \cup DelCommands
          /\ failures' \in 0..MaxFailures
      BY <1>1 DEF WireInv, NetworkTypes
    <2> QED
      BY <1>1, <2>1, <2>2, DecideWire
  <1>4. CASE Ask(r, "is_agent_emergency_denied", Command("EXISTS", "denied", {tok(r).agent_id}, 0))
    <2>1. Command("EXISTS", "denied", {tok(r).agent_id}, 0) \in Commands
      BY TokenFacts, ExistsCommand DEF WireInv
    <2>2. "is_agent_emergency_denied" \in Stages
      BY DEF Stages
    <2> QED
      BY <1>1, <1>2, <1>4, <2>1, <2>2, AskWire
  <1>5. CASE Ask(r, "consume_nonce", Command("SET NX EXAT", "nonce", {tok(r).nonce},
                                             Timestamp(tok(r).expires_at)))
    <2>1. tok(r).nonce \in Nonces /\ Timestamp(tok(r).expires_at) \in Int
      BY TokenFacts DEF WireInv
    <2>2. Command("SET NX EXAT", "nonce", {tok(r).nonce}, Timestamp(tok(r).expires_at)) \in Commands
      BY <2>1, NonceCommandFacts, CommandFacts, Zenon
    <2>3. "consume_nonce" \in Stages
      BY DEF Stages
    <2> QED
      BY <1>1, <1>2, <1>5, <2>2, <2>3, AskWire
  <1> QED
    BY <1>3, <1>4, <1>5 DEF Evaluate, TokenRevokedReply, AgentDeniedReply, ConsumeNonceReply

LEMMA EvaluationFailsWire ==
    ASSUME WireInv, NEW r \in Requests, EvaluationFails(r)
    PROVE  WireInv'
  <1>1. r \in Callers
    BY DEF Callers
  <1> QED
    BY <1>1, BreakFacts, DecideWire DEF EvaluationFails

\* A step of an administrator sets its own call, cursor and command.
LEMMA AdministrationWire ==
    ASSUME WireInv, NEW a \in Admins, NEW k \in Commands, Send(a, k),
           NEW c \in AdminCalls \cup {NoCall}, call' = [call EXCEPT ![a] = c],
           NEW i \in 0..Len(Buckets), cursor' = [cursor EXCEPT ![a] = i],
           AdminOK(a)',
           strays' \subseteq NonceCommands \cup SetCommands \cup DelCommands,
           failures' \in 0..MaxFailures,
           HistoryTypes',
           UNCHANGED <<clock, crew, server, evaluation>>
    PROVE  WireInv'
  <1>1. /\ sent' \in [Callers -> Commands] /\ reply' \in [Callers -> Replies]
        /\ \A d \in Callers \ {a} : sent'[d] = sent[d] /\ reply'[d] = reply[d]
    BY CommandFacts DEF WireInv, NetworkTypes, Send
  <1>2. /\ call' \in [Admins -> AdminCalls \cup {NoCall}] /\ cursor' \in [Admins -> 0..Len(Buckets)]
        /\ \A b \in Admins \ {a} : call'[b] = call[b] /\ cursor'[b] = cursor[b]
    <2> DEFINE N == 0..Len(Buckets)
    <2>1. cursor \in [Admins -> N] /\ i \in N
      BY DEF WireInv, TaskTypes
    <2> HIDE DEF N
    <2>2. cursor' \in [Admins -> N] /\ \A b \in Admins \ {a} : cursor'[b] = cursor[b]
      BY <2>1
    <2>3. /\ call' \in [Admins -> AdminCalls \cup {NoCall}]
          /\ \A b \in Admins \ {a} : call'[b] = call[b]
      BY DEF WireInv, TaskTypes
    <2> QED
      BY <2>2, <2>3 DEF N
  <1>3. a \in Callers /\ a \notin Requests
    BY RedisAssumption DEF Callers
  <1>4. /\ \A q \in Requests : RequestOK(q)'
        /\ \A b \in Admins : AdminOK(b)'
    BY <1>1, <1>2, <1>3, OneCaller DEF evaluation
  <1>5. TaskTypes'
    BY <1>2 DEF WireInv, TaskTypes, evaluation
  <1> QED
    BY <1>1, <1>4, <1>5 DEF WireInv, ServerTypes, NetworkTypes, server

\* What is being removed: by a call, or by a command on its way.
LEMMA RemovingFacts ==
    \A id : id \in Removing <=> \/ \E a \in Admins : id \in Removes(call[a])
                              \/ \E k \in strays : k.cmd = "DEL" /\ id \in k.ids
  BY DEF Removing

LEMMA RemovingType == ASSUME WireInv PROVE Removing \subseteq TokenIds \cup Agents
  <1>1. ASSUME NEW a \in Admins PROVE Removes(call[a]) \subseteq TokenIds \cup Agents
    BY RemovesType DEF WireInv, TaskTypes
  <1>2. ASSUME NEW k \in strays, k.cmd = "DEL" PROVE k.ids \subseteq TokenIds \cup Agents
    BY <1>2, CommandFacts DEF WireInv, NetworkTypes
  <1> QED
    BY <1>1, <1>2, RemovingFacts

LEMMA BucketFacts ==
    /\ Len(Buckets) \in Nat /\ 1 \in 0..Len(Buckets) /\ 0 \in 0..Len(Buckets)
    /\ DOMAIN Buckets = 1..Len(Buckets)
    /\ \A i \in 0..Len(Buckets) : NextCursor(i) \in 0..Len(Buckets)
  <1>1. Buckets \in Seq(SUBSET Agents) /\ Buckets # <<>>
    BY RedisAssumption
  <1>2. Len(Buckets) \in Nat /\ Len(Buckets) # 0 /\ DOMAIN Buckets = 1..Len(Buckets)
    BY <1>1
  <1>3. ASSUME NEW i \in 0..Len(Buckets) PROVE NextCursor(i) \in 0..Len(Buckets)
    <2>1. CASE i = Len(Buckets)
      BY <1>2, <2>1 DEF NextCursor
    <2>2. CASE i # Len(Buckets)
      <3>1. NextCursor(i) = i + 1
        BY <2>2 DEF NextCursor
      <3>2. \A n \in Nat : \A j \in 0..n : j # n => j + 1 \in 0..n
        OBVIOUS
      <3>3. Len(Buckets) \in Nat
        BY <1>2
      <3> QED
        BY <2>2, <3>1, <3>2, <3>3
    <2> QED
      BY <2>1, <2>2
  <1>4. 1 \in 0..Len(Buckets) /\ 0 \in 0..Len(Buckets)
    BY <1>2
  <1> QED
    BY <1>2, <1>3, <1>4

LEMMA BeginWire ==
    ASSUME WireInv, NEW a \in Admins, NEW c \in AdminCalls, Begin(a, c)
    PROVE  WireInv'
  <1>1. /\ call' = [call EXCEPT ![a] = c] /\ Send(a, FirstCommand(c))
        /\ UNCHANGED <<clock, crew, server, strays, failures, evaluation, spent,
                       revoked_before, denied_before>>
    BY DEF Begin
  <1>2. PICK i \in 0..Len(Buckets) :
          cursor' = [cursor EXCEPT ![a] = i] /\ (FirstCommand(c) = Scan => i # 0)
    <2>1. CASE FirstCommand(c) = Scan
      <3>1. cursor' = [cursor EXCEPT ![a] = 1]
        BY <2>1 DEF Begin
      <3>2. 1 \in 0..Len(Buckets) /\ 1 # 0
        BY BucketFacts
      <3> QED
        BY <3>1, <3>2
    <2>2. CASE FirstCommand(c) # Scan
      <3>1. cursor' = [cursor EXCEPT ![a] = 0]
        BY <2>2 DEF Begin
      <3> QED
        BY <2>2, <3>1, BucketFacts
    <2> QED
      BY <2>1, <2>2
  <1>3. FirstCommand(c) \in Commands
    BY CallFacts, CommandFacts
  <1>4. a \in Callers
    BY DEF Callers
  <1>5. AdminOK(a)'
    <2>1. sent'[a] = FirstCommand(c) /\ reply'[a] = NoReply
      BY <1>1, <1>4, SendFacts
    <2>2. call'[a] = c /\ cursor'[a] = i
      BY <1>1, <1>2 DEF WireInv, TaskTypes
    <2>3. CASE c.op \in {"revoke_token", "revoke_tokens", "emergency_deny_agent"}
      BY <2>1, <2>2, <2>3, CallFacts DEF AdminOK, Adding
    <2>4. CASE c.op \in {"unrevoke_token", "undeny_agent"}
      BY <2>1, <2>2, <2>4, CallFacts DEF AdminOK, Dropping
    <2>5. CASE c.op = "clear_emergency_deny_list"
      BY <1>2, <2>1, <2>2, <2>5, CallFacts DEF AdminOK, Scanning
    <2> QED
      BY <2>3, <2>4, <2>5, CallFacts
  <1>6. HistoryTypes'
    <2>1. Removes(c) \subseteq TokenIds \cup Agents /\ Removing \subseteq TokenIds \cup Agents
      BY RemovesType, RemovingType
    <2>2. contested' \in [Admins -> SUBSET (TokenIds \cup Agents)]
      <3>1. ASSUME NEW b \in Admins
            PROVE  (IF b = a THEN Removing \cup Removes(c)
                    ELSE IF call[b] = NoCall THEN {} ELSE contested[b] \cup Removes(c))
                   \in SUBSET (TokenIds \cup Agents)
        BY <2>1 DEF WireInv, HistoryTypes
      <3> QED
        BY <3>1 DEF Begin
    <2>3. settled' \subseteq TokenIds \cup Agents
      BY DEF Begin, WireInv, HistoryTypes
    <2>4. to_clear' \in [Admins -> SUBSET Agents]
      BY DEF Begin, WireInv, HistoryTypes, ServerTypes
    <2> QED
      BY <1>1, <2>2, <2>3, <2>4 DEF WireInv, HistoryTypes
  <1>7. strays' \subseteq NonceCommands \cup SetCommands \cup DelCommands /\ failures' \in 0..MaxFailures
    BY <1>1 DEF WireInv, NetworkTypes
  <1> QED
    BY <1>1, <1>2, <1>3, <1>5, <1>6, <1>7, AdministrationWire

\* A call that returns leaves its administrator at rest.
LEMMA ReturnWire ==
    ASSUME WireInv, NEW a \in Admins, Return(a),
           settled' \subseteq TokenIds \cup Agents,
           strays' \subseteq NonceCommands \cup SetCommands \cup DelCommands,
           failures' \in 0..MaxFailures,
           UNCHANGED <<clock, crew, server, evaluation>>
    PROVE  WireInv'
  <1>1. /\ call' = [call EXCEPT ![a] = NoCall] /\ cursor' = [cursor EXCEPT ![a] = 0]
        /\ Send(a, NoCommand)
    BY DEF Return
  <1>2. a \in Callers
    BY DEF Callers
  <1>3. AdminOK(a)'
    <2>1. sent'[a] = NoCommand /\ reply'[a] = NoReply
      BY <1>1, <1>2, SendFacts
    <2>2. call'[a] = NoCall
      BY <1>1 DEF WireInv, TaskTypes
    <2> QED
      BY <2>1, <2>2 DEF AdminOK, AtRest
  <1>4. HistoryTypes'
    BY DEF Return, WireInv, HistoryTypes
  <1>5. NoCommand \in Commands
    BY CommandFacts
  <1> QED
    BY <1>1, <1>3, <1>4, <1>5, BucketFacts, AdministrationWire

LEMMA AcknowledgedWire ==
    ASSUME WireInv, NEW a \in Admins, Acknowledged(a)
    PROVE  WireInv'
  <1>1. call[a] \in AdminCalls
    BY DEF Acknowledged, WireInv, TaskTypes, NoCall
  <1>2. call[a].ids \ Removes(call[a]) \subseteq TokenIds \cup Agents
    BY <1>1, CallFacts DEF Acknowledged
  <1>3. settled' \subseteq TokenIds \cup Agents
    BY <1>2 DEF Acknowledged, WireInv, HistoryTypes
  <1>4. strays' \subseteq NonceCommands \cup SetCommands \cup DelCommands /\ failures' \in 0..MaxFailures
    BY DEF Acknowledged, WireInv, NetworkTypes
  <1> QED
    BY <1>3, <1>4, ReturnWire DEF Acknowledged

LEMMA CallFailsWire ==
    ASSUME WireInv, NEW a \in Admins, CallFails(a)
    PROVE  WireInv'
  <1>1. a \in Callers
    BY DEF Callers
  <1>2. settled' \subseteq TokenIds \cup Agents
    BY DEF CallFails, WireInv, HistoryTypes
  <1> QED
    BY <1>1, <1>2, BreakFacts, ReturnWire DEF CallFails

\* The clear that is answered goes on with a scan, with a deletion, or returns.
LEMMA GoOnWire ==
    ASSUME WireInv, NEW a \in Admins, call[a].op = "clear_emergency_deny_list",
           NEW i \in 0..Len(Buckets), cursor' = [cursor EXCEPT ![a] = i],
           NEW k \in Commands, Send(a, k),
           \/ i # 0 /\ k = Scan
           \/ k \in DelCommands /\ k.kind = "denied",
           UNCHANGED <<clock, crew, server, strays, failures, evaluation, call, history>>
    PROVE  WireInv'
  <1>1. call' = [call EXCEPT ![a] = call[a]] /\ call[a] \in AdminCalls \cup {NoCall} /\ call'[a] = call[a]
    BY DEF WireInv, TaskTypes
  <1>2. a \in Callers
    BY DEF Callers
  <1>3. AdminOK(a)'
    <2>1. sent'[a] = k /\ reply'[a] = NoReply
      BY <1>2, SendFacts
    <2>2. cursor'[a] = i
      BY DEF WireInv, TaskTypes
    <2> QED
      BY <1>1, <2>1, <2>2 DEF AdminOK, Scanning, Sweeping
  <1>4. HistoryTypes'
    BY DEF WireInv, HistoryTypes, history
  <1>5. strays' \subseteq NonceCommands \cup SetCommands \cup DelCommands /\ failures' \in 0..MaxFailures
    BY DEF WireInv, NetworkTypes
  <1> QED
    BY <1>1, <1>3, <1>4, <1>5, AdministrationWire

LEMMA ScanFromWire ==
    ASSUME WireInv, NEW a \in Admins, call[a].op = "clear_emergency_deny_list",
           NEW next \in 0..Len(Buckets), ScanFrom(a, next),
           UNCHANGED <<clock, crew, server, strays, failures, evaluation>>
    PROVE  WireInv'
  <1>1. CASE next # 0
    <2>1. cursor' = [cursor EXCEPT ![a] = next] /\ Send(a, Scan) /\ UNCHANGED <<call, history>>
      BY <1>1 DEF ScanFrom
    <2>2. Scan \in Commands
      BY CommandFacts
    <2> QED
      BY <1>1, <2>1, <2>2, GoOnWire
  <1>2. CASE next = 0
    <2>1. Return(a) /\ UNCHANGED settled
      BY <1>2 DEF ScanFrom
    <2>2. settled' \subseteq TokenIds \cup Agents
      BY <2>1 DEF WireInv, HistoryTypes
    <2>3. strays' \subseteq NonceCommands \cup SetCommands \cup DelCommands /\ failures' \in 0..MaxFailures
      BY DEF WireInv, NetworkTypes
    <2> QED
      BY <2>1, <2>2, <2>3, ReturnWire
  <1> QED
    BY <1>1, <1>2

\* Only a scan is answered with keys.
LEMMA ScannedFacts ==
    ASSUME WireInv, NEW a \in Admins, reply[a].value = "keys"
    PROVE  Scanning(a)
  BY CommandFacts DEF WireInv, AdminOK, AtRest, Adding, Dropping, Sweeping, Values

LEMMA ScannedWire ==
    ASSUME WireInv, NEW a \in Admins, Scanned(a)
    PROVE  WireInv'
  <1>1. Scanning(a) /\ call[a].op = "clear_emergency_deny_list"
    BY ScannedFacts DEF Scanned, Scanning
  <1>2. UNCHANGED <<clock, crew, server, strays, failures, evaluation>>
    BY DEF Scanned
  <1>3. NextCursor(cursor[a]) \in 0..Len(Buckets)
    BY BucketFacts DEF WireInv, TaskTypes
  <1>4. CASE reply[a].keys # {}
    <2>1. /\ Send(a, Command("DEL", "denied", reply[a].keys, 0))
          /\ cursor' = [cursor EXCEPT ![a] = NextCursor(cursor[a])]
          /\ UNCHANGED <<call, history>>
      BY <1>4 DEF Scanned
    <2>2. reply[a].keys \in NonEmpty(Agents)
      BY <1>4 DEF WireInv, NetworkTypes, Replies, Callers, NonEmpty
    <2>3. PICK k : k = Command("DEL", "denied", reply[a].keys, 0)
      OBVIOUS
    <2>4. k \in DelCommands /\ k.kind = "denied"
      BY <2>2, <2>3 DEF Command, DelCommands
    <2>5. k \in Commands
      BY <2>4, CommandFacts
    <2> QED
      BY <1>1, <1>2, <1>3, <2>1, <2>3, <2>4, <2>5, GoOnWire
  <1>5. CASE reply[a].keys = {}
    BY <1>1, <1>2, <1>3, <1>5, ScanFromWire DEF Scanned
  <1> QED
    BY <1>4, <1>5

LEMMA DeletedWire ==
    ASSUME WireInv, NEW a \in Admins, Deleted(a)
    PROVE  WireInv'
  <1>1. cursor[a] \in 0..Len(Buckets)
    BY DEF WireInv, TaskTypes
  <1> QED
    BY <1>1, ScanFromWire DEF Deleted

LEMMA StepWire == WireInv /\ [Next]_vars => WireInv'
  <1> SUFFICES ASSUME WireInv, [Next]_vars PROVE WireInv'
    OBVIOUS
  <1>1. CASE UNCHANGED vars
    <2>1. /\ \A r \in Requests : RequestOK(r)'
          /\ \A a \in Admins : AdminOK(a)'
      BY <1>1, NoCaller DEF vars, network, evaluation, administration
    <2> QED
      BY <1>1, <2>1 DEF WireInv, ServerTypes, NetworkTypes, TaskTypes, HistoryTypes, vars,
                        server, network, evaluation, administration, history
  <1>2. ASSUME NEW c \in Callers, Serve(c) PROVE WireInv'
    BY <1>2, ServeExistsWire, ServeSetNonceWire, ServeSetWire, ServeDelWire, ServeScanWire DEF Serve
  <1>3. ASSUME NEW r \in Requests, Arrive(r) \/ Evaluate(r) \/ EvaluationFails(r) PROVE WireInv'
    BY <1>3, ArriveWire, EvaluateWire, EvaluationFailsWire
  <1>4. ASSUME NEW a \in Admins,
               (\E c \in AdminCalls : Begin(a, c)) \/ Administer(a) \/ CallFails(a)
        PROVE  WireInv'
    BY <1>4, BeginWire, AcknowledgedWire, ScannedWire, DeletedWire, CallFailsWire DEF Administer
  <1> QED
    BY <1>1, <1>2, <1>3, <1>4, TickWire, StrayWire DEF Next

\* Where every caller of the store is, what it has sent and what it may be
\* answered, is as the code's control flow has it, in every reachable state.
THEOREM WireInductive == Spec => []WireInv
  BY InitWire, StepWire, PTL DEF Spec

\* WireInv contains the type invariant.
LEMMA WireTypeOK == WireInv => TypeOK
  <1> SUFFICES ASSUME WireInv PROVE TypeOK
    OBVIOUS
  <1>1. ASSUME NEW c \in Callers, sent[c] = NoCommand PROVE reply[c] = NoReply
    <2>1. sent[c].cmd = "none"
      BY <1>1, CommandFacts
    <2>2. CASE c \in Requests
      <3>1. pc[c] \in {"idle", "decided"}
        <4>1. RequestOK(c) /\ pc[c] \in Stages
          BY <2>2 DEF WireInv, TaskTypes
        <4>2. ASSUME NEW cmd, NEW kind, NEW ids, NEW exat, sent[c] = Command(cmd, kind, ids, exat)
              PROVE  cmd = "none"
          BY <2>1, <4>2 DEF Command
        <4> QED
          BY <4>1, <4>2 DEF RequestOK, Stages
      <3> QED
        BY <2>2, <3>1 DEF WireInv, RequestOK
    <2>3. CASE c \in Admins
      BY <2>1, <2>3, CommandFacts
         DEF WireInv, AdminOK, AtRest, Adding, Dropping, Scanning, Sweeping
    <2> QED
      BY <2>2, <2>3 DEF Callers
  <1>2. ASSUME NEW k \in strays PROVE k.ids # {}
    BY CommandFacts DEF WireInv, NetworkTypes
  <1>3. ASSUME NEW a \in Admins PROVE call[a] = NoCall <=> sent[a] = NoCommand
    <2>1. NoCall.op = "none"
      BY DEF NoCall
    <2> QED
      BY <2>1, CommandFacts
         DEF WireInv, AdminOK, AtRest, Adding, Dropping, Scanning, Sweeping
  <1>4. \A r \in Requests : decision[r] = "pending" <=> pc[r] # "decided"
    BY DEF WireInv, RequestOK
  <1> QED
    BY <1>1, <1>2, <1>3, <1>4 DEF WireInv, ServerTypes, NetworkTypes, TypeOK

-------------------------------------------------------------------------------
(***************************************************************************)
(* AckInv is inductive relative to WireInv                                  *)
(***************************************************************************)

\* What a call or a command is to remove is being removed.
LEMMA RemovingIncludes ==
    ASSUME WireInv
    PROVE  /\ \A a \in Admins : Removes(call[a]) \subseteq Removing
           /\ \A k \in strays : k.cmd = "DEL" => k.ids \subseteq Removing
           /\ \A a \in Admins : sent[a].cmd = "DEL" => sent[a].ids \subseteq Removing
  <1>1. \A a \in Admins : Removes(call[a]) \subseteq Removing
    BY RemovingFacts
  <1>2. \A k \in strays : k.cmd = "DEL" => k.ids \subseteq Removing
    BY RemovingFacts
  <1>3. ASSUME NEW a \in Admins, sent[a].cmd = "DEL"
        PROVE  sent[a].ids \subseteq Removes(call[a])
    <2>1. Dropping(a) \/ Sweeping(a)
      BY <1>3, SenderFacts DEF Callers
    <2>2. call[a] \in AdminCalls
      BY <2>1 DEF WireInv, TaskTypes, NoCall, Dropping, Sweeping
    <2>3. CASE Dropping(a)
      BY <2>2, <2>3, CallFacts DEF Dropping
    <2>4. CASE Sweeping(a)
      BY <2>2, <2>4, CallFacts, KindFacts DEF Sweeping
    <2> QED
      BY <2>1, <2>3, <2>4
  <1> QED
    BY <1>1, <1>2, <1>3

\* No removal is under way that was not.
LEMMA RemovingShrinks ==
    ASSUME \A a \in Admins : Removes(call'[a]) \subseteq Removing,
           \A k \in strays' : k.cmd = "DEL" => k.ids \subseteq Removing
    PROVE  Removing' \subseteq Removing
  <1>1. \A id : id \in Removing' <=> \/ \E a \in Admins : id \in Removes(call'[a])
                                    \/ \E k \in strays' : k.cmd = "DEL" /\ id \in k.ids
    BY DEF Removing, Removes
  <1> QED
    BY <1>1

\* A step that removes nothing and neither begins nor ends a call.
LEMMA AckFrame ==
    ASSUME WireInv, AckInv,
           call' = call, contested' = contested, settled' = settled,
           revoked \subseteq revoked', denied \subseteq denied',
           \A k \in strays' : k.cmd = "DEL" => k \in strays,
           \A a \in Admins : Adding(a)' =>
               Adding(a) /\ sent'[a] = sent[a] /\ reply'[a] = reply[a]
    PROVE  AckInv'
  <1>1. Removing' \subseteq Removing
    BY RemovingIncludes, RemovingShrinks
  <1>2. RemovalsKnown'
    BY <1>1 DEF AckInv, RemovalsKnown
  <1>3. AddedHolds'
    BY DEF AckInv, AddedHolds
  <1> QED
    BY <1>2, <1>3 DEF AckInv

\* A step that touches no administrator at all.
LEMMA AckIdle ==
    ASSUME WireInv, AckInv, UNCHANGED <<call, contested, settled, revoked, denied>>,
           \A k \in strays' : k.cmd = "DEL" => k \in strays,
           \A a \in Admins : sent'[a] = sent[a] /\ reply'[a] = reply[a]
    PROVE  AckInv'
  <1>1. ASSUME NEW a \in Admins, Adding(a)' PROVE Adding(a)
    BY <1>1 DEF Adding
  <1> QED
    BY <1>1, AckFrame

\* DEL removes only what is known to be removed.
LEMMA AckDel ==
    ASSUME WireInv, AckInv, NEW k, Del(k), k.ids \subseteq Removing,
           UNCHANGED <<call, contested, settled>>,
           strays' \subseteq strays,
           \A a \in Admins : Adding(a)' =>
               Adding(a) /\ sent'[a] = sent[a] /\ reply'[a] = reply[a]
    PROVE  AckInv'
  <1>1. Removing' \subseteq Removing
    BY RemovingIncludes, RemovingShrinks
  <1>2. (revoked \cup denied) \ Removing \subseteq revoked' \cup denied'
    BY DEF Del
  <1>3. RemovalsKnown'
    BY <1>1 DEF AckInv, RemovalsKnown
  <1>4. AddedHolds'
    <2>1. ASSUME NEW a \in Admins, Adding(a)' PROVE Removing \subseteq contested[a]
      <3>1. call[a] # NoCall
        BY <2>1 DEF Adding, NoCall
      <3> QED
        BY <3>1 DEF AckInv, RemovalsKnown
    <2> QED
      BY <1>2, <2>1 DEF AckInv, AddedHolds
  <1>5. settled' \subseteq revoked' \cup denied'
    BY <1>2 DEF AckInv, RemovalsKnown
  <1> QED
    BY <1>3, <1>4, <1>5 DEF AckInv

LEMMA ServeAck ==
    ASSUME WireInv, AckInv, NEW c \in Callers, Serve(c)
    PROVE  AckInv'
  <1> USE DEF WireInv
  <1>1. CASE ServeExists(c) \/ ServeSetNonce(c)
    <2>1. c \notin Admins
      BY <1>1, SenderFacts, RedisAssumption DEF ServeExists, ServeSetNonce, Waiting
    <2>2. /\ \E v : reply' = [reply EXCEPT ![c] = v]
          /\ UNCHANGED <<sent, strays, call, contested, settled, revoked, denied>>
      BY <1>1 DEF ServeExists, ServeSetNonce, Answer, administration, history, server
    <2>3. \A a \in Admins : sent'[a] = sent[a] /\ reply'[a] = reply[a]
      BY <2>1, <2>2 DEF NetworkTypes, Callers
    <2> QED
      BY <2>2, <2>3, AckIdle
  <1>2. CASE ServeScan(c)
    <2>1. c \in Admins /\ Scanning(c)
      BY <1>2, SenderFacts DEF ServeScan, Waiting
    <2>2. /\ \E v : reply' = [reply EXCEPT ![c] = v]
          /\ UNCHANGED <<sent, strays, call, contested, settled, revoked, denied>>
      BY <1>2 DEF ServeScan, Answer, administration, history, server
    <2>3. ASSUME NEW a \in Admins, Adding(a)'
          PROVE  Adding(a) /\ sent'[a] = sent[a] /\ reply'[a] = reply[a]
      <3>1. a # c
        BY <2>1, <2>2, <2>3 DEF Scanning, Adding
      <3>2. sent'[a] = sent[a] /\ reply'[a] = reply[a]
        BY <2>2, <3>1 DEF NetworkTypes, Callers
      <3> QED
        BY <2>2, <2>3, <3>2 DEF Adding
    <2> QED
      BY <2>2, <2>3, AckFrame
  <1>3. CASE ServeSet(c)
    <2>1. c \in Admins /\ Adding(c)
      BY <1>3, SenderFacts DEF ServeSet, Waiting
    <2>2. PICK id \in sent[c].ids :
            /\ Set(sent[c].kind, id)
            /\ IF sent[c].ids = {id}
               THEN Answer(c, Reply("OK")) /\ UNCHANGED sent
               ELSE sent' = [sent EXCEPT ![c].ids = @ \ {id}] /\ UNCHANGED reply
      BY <1>3 DEF ServeSet
    <2>3. UNCHANGED <<strays, call, contested, settled>>
      BY <1>3 DEF ServeSet, administration
    <2>4. sent[c].kind \in {"revoked", "denied"}
      BY <2>1, KindFacts DEF Adding
    <2>5. revoked \cup denied \cup {id} \subseteq revoked' \cup denied'
      BY <2>2, <2>4 DEF Set
    <2>6. Removing' \subseteq Removing
      BY <2>3, RemovingIncludes, RemovingShrinks
    <2>7. RemovalsKnown'
      BY <2>3, <2>6 DEF AckInv, RemovalsKnown
    <2>8. \A a \in Admins \ {c} : sent'[a] = sent[a] /\ reply'[a] = reply[a]
      BY <2>2 DEF NetworkTypes, Callers, Answer
    <2>9. AddedHolds'
      <3>1. ASSUME NEW a \in Admins \ {c}, Adding(a)',
                   NEW x \in call'[a].ids \ contested'[a],
                   x \notin sent'[a].ids \/ reply'[a] # NoReply
            PROVE  x \in revoked' \cup denied'
        <4>1. Adding(a)
          BY <2>3, <2>8, <3>1 DEF Adding
        <4> QED
          BY <2>3, <2>5, <2>8, <3>1, <4>1 DEF AckInv, AddedHolds
      <3>2. ASSUME NEW x \in call'[c].ids \ contested'[c],
                   x \notin sent'[c].ids \/ reply'[c] # NoReply
            PROVE  x \in revoked' \cup denied'
        <4>1. x = id \/ x \notin sent[c].ids \/ reply[c] # NoReply
          <5>1. CASE sent[c].ids = {id}
            BY <5>1
          <5>2. CASE sent[c].ids # {id}
            <6>1. sent'[c].ids = sent[c].ids \ {id} /\ reply' = reply
              BY <2>2, <5>2 DEF NetworkTypes, Commands
            <6> QED
              BY <3>2, <6>1
          <5> QED
            BY <5>1, <5>2
        <4> QED
          BY <2>1, <2>3, <2>5, <3>2, <4>1 DEF AckInv, AddedHolds
      <3> QED
        BY <3>1, <3>2 DEF AddedHolds
    <2> QED
      BY <2>3, <2>5, <2>7, <2>9 DEF AckInv
  <1>4. CASE ServeDel(c)
    <2>1. sent[c].cmd = "DEL" /\ c \in Admins /\ (Dropping(c) \/ Sweeping(c))
      BY <1>4, SenderFacts DEF ServeDel, Waiting
    <2>2. /\ Del(sent[c]) /\ reply' = [reply EXCEPT ![c] = Reply("OK")]
          /\ UNCHANGED <<sent, strays, call, contested, settled>>
      BY <1>4 DEF ServeDel, Answer, administration
    <2>3. ASSUME NEW a \in Admins, Adding(a)'
          PROVE  Adding(a) /\ sent'[a] = sent[a] /\ reply'[a] = reply[a]
      <3>1. a # c
        BY <2>1, <2>2, <2>3 DEF Dropping, Sweeping, Adding
      <3>2. sent'[a] = sent[a] /\ reply'[a] = reply[a]
        BY <2>2, <3>1 DEF NetworkTypes, Callers
      <3> QED
        BY <2>2, <2>3, <3>2 DEF Adding
    <2>4. sent[c].ids \subseteq Removing
      BY <2>1, RemovingIncludes
    <2> QED
      BY <2>2, <2>3, <2>4, AckDel
  <1> QED
    BY <1>1, <1>2, <1>3, <1>4 DEF Serve

LEMMA StrayAck ==
    ASSUME WireInv, AckInv, NEW k \in strays, ServeStray(k) \/ LoseStray(k)
    PROVE  AckInv'
  <1>1. UNCHANGED <<sent, reply, call, contested, settled>>
    BY DEF ServeStray, LoseStray, administration, history
  <1>2. \A a \in Admins : Adding(a)' => Adding(a)
    BY <1>1 DEF Adding
  <1>3. CASE ServeStray(k) /\ k.cmd = "DEL"
    <2>1. Del(k) /\ strays' = strays \ {k}
      BY <1>3 DEF ServeStray
    <2>2. k.ids \subseteq Removing
      BY <1>3, RemovingIncludes
    <2> QED
      BY <1>1, <1>2, <2>1, <2>2, AckDel
  <1>4. CASE ServeStray(k) /\ k.cmd = "SET"
    <2>1. PICK id \in k.ids :
            /\ Set(k.kind, id)
            /\ strays' = (strays \ {k}) \cup {q \in {[k EXCEPT !.ids = @ \ {id}]} : q.ids # {}}
      BY <1>4 DEF ServeStray
    <2>2. revoked \subseteq revoked' /\ denied \subseteq denied'
      BY <2>1 DEF Set
    <2>3. k \in SetCommands
      BY <1>4, CommandFacts DEF WireInv, NetworkTypes
    <2>4. [k EXCEPT !.ids = @ \ {id}].cmd = "SET"
      BY <2>3, CommandFacts DEF Commands
    <2>5. \A q \in strays' : q.cmd = "DEL" => q \in strays
      BY <2>1, <2>4
    <2> QED
      BY <1>1, <1>2, <2>2, <2>5, AckFrame
  <1>5. CASE (ServeStray(k) /\ k.cmd = "SET NX EXAT") \/ LoseStray(k)
    <2>1. strays' = strays \ {k} /\ UNCHANGED <<revoked, denied>>
      BY <1>5 DEF ServeStray, LoseStray, server
    <2> QED
      BY <1>1, <1>2, <2>1, AckFrame
  <1> QED
    BY <1>3, <1>4, <1>5 DEF ServeStray

LEMMA EvaluationAck ==
    ASSUME WireInv, AckInv, NEW r \in Requests, Arrive(r) \/ Evaluate(r) \/ EvaluationFails(r)
    PROVE  AckInv'
  <1>1. r \notin Admins /\ r \in Callers
    BY RedisAssumption DEF Callers
  <1>2. /\ UNCHANGED <<call, contested, settled, revoked, denied>>
        /\ \E k : Send(r, k)
    BY DEF Arrive, Evaluate, EvaluationFails, TokenRevokedReply, AgentDeniedReply,
           ConsumeNonceReply, Ask, Decide, administration, history, server
  <1>3. \A a \in Admins : sent'[a] = sent[a] /\ reply'[a] = reply[a]
    BY <1>1, <1>2, SendFacts DEF Callers
  <1>4. \A k \in strays' : k.cmd = "DEL" => k \in strays
    <2>1. CASE EvaluationFails(r)
      <3>1. strays' \subseteq strays \cup {sent[r]}
        BY <1>1, <2>1, BreakFacts DEF EvaluationFails
      <3>2. sent[r].cmd # "DEL"
        BY <1>1, SenderFacts
      <3> QED
        BY <3>1, <3>2
    <2>2. CASE Arrive(r) \/ Evaluate(r)
      BY <2>2 DEF Arrive, Evaluate, TokenRevokedReply, AgentDeniedReply, ConsumeNonceReply
    <2> QED
      BY <2>1, <2>2
  <1> QED
    BY <1>2, <1>3, <1>4, AckIdle

LEMMA BeginAck ==
    ASSUME WireInv, AckInv, NEW a \in Admins, NEW c \in AdminCalls, Begin(a, c)
    PROVE  AckInv'
  <1>1. /\ call[a] = NoCall /\ call' = [call EXCEPT ![a] = c] /\ Send(a, FirstCommand(c))
        /\ contested' = [b \in Admins |->
              IF b = a THEN Removing \cup Removes(c)
              ELSE IF call[b] = NoCall THEN {} ELSE contested[b] \cup Removes(c)]
        /\ settled' = settled \ Removes(c)
        /\ UNCHANGED <<revoked, denied, strays>>
    BY DEF Begin, server
  <1>2. call'[a] = c /\ \A b \in Admins \ {a} : call'[b] = call[b]
    BY <1>1 DEF WireInv, TaskTypes
  <1>3. Removing' \subseteq Removing \cup Removes(c)
    <2>1. \A id : id \in Removing' <=> \/ \E b \in Admins : id \in Removes(call'[b])
                                      \/ \E k \in strays' : k.cmd = "DEL" /\ id \in k.ids
      BY DEF Removing, Removes
    <2> QED
      BY <1>1, <1>2, <2>1, RemovingFacts
  <1>4. RemovalsKnown'
    <2>1. ASSUME NEW b \in Admins, call'[b] # NoCall
          PROVE  Removing' \subseteq contested'[b]
      <3>1. CASE b = a
        BY <1>1, <1>3, <3>1
      <3>2. CASE b # a
        <4>1. contested'[b] = contested[b] \cup Removes(c) /\ Removing \subseteq contested[b]
          BY <1>1, <1>2, <2>1, <3>2 DEF AckInv, RemovalsKnown
        <4> QED
          BY <1>3, <4>1
      <3> QED
        BY <3>1, <3>2
    <2>2. settled' \cap Removing' = {}
      BY <1>1, <1>3 DEF AckInv, RemovalsKnown
    <2> QED
      BY <2>1, <2>2 DEF RemovalsKnown
  <1>5. AddedHolds'
    <2>1. ASSUME NEW b \in Admins, Adding(b)',
                 NEW id \in call'[b].ids \ contested'[b],
                 id \notin sent'[b].ids \/ reply'[b] # NoReply
          PROVE  id \in revoked' \cup denied'
      <3>1. CASE b = a
        <4>1. sent'[a] = FirstCommand(c) /\ reply'[a] = NoReply
          BY <1>1, SendFacts DEF Callers
        <4>2. FirstCommand(c).ids = c.ids
          BY <1>2, <2>1, <3>1, CallFacts DEF Adding
        <4> QED
          BY <1>2, <2>1, <3>1, <4>1, <4>2
      <3>2. CASE b # a
        <4>1. sent'[b] = sent[b] /\ reply'[b] = reply[b] /\ call'[b] = call[b]
          BY <1>1, <1>2, <3>2, SendFacts DEF Callers
        <4>2. Adding(b) /\ call[b] # NoCall
          BY <2>1, <4>1 DEF Adding, NoCall
        <4>3. contested[b] \subseteq contested'[b]
          BY <1>1, <3>2, <4>2
        <4> QED
          BY <1>1, <2>1, <4>1, <4>2, <4>3 DEF AckInv, AddedHolds
      <3> QED
        BY <3>1, <3>2
    <2> QED
      BY <2>1 DEF AddedHolds
  <1> QED
    BY <1>1, <1>4, <1>5 DEF AckInv

\* A call returns: what it settles is there and not being removed.
LEMMA ReturnAck ==
    ASSUME WireInv, AckInv, NEW a \in Admins, Return(a), UNCHANGED <<revoked, denied>>,
           \A k \in strays' : k.cmd = "DEL" => k.ids \subseteq Removing,
           settled' \subseteq revoked \cup denied,
           settled' \cap Removing = {}
    PROVE  AckInv'
  <1>1. /\ call' = [call EXCEPT ![a] = NoCall] /\ Send(a, NoCommand)
        /\ contested' = [contested EXCEPT ![a] = {}]
    BY DEF Return
  <1>2. /\ call'[a] = NoCall
        /\ \A b \in Admins \ {a} : call'[b] = call[b] /\ contested'[b] = contested[b]
    BY <1>1 DEF WireInv, TaskTypes, HistoryTypes
  <1>3. \A b \in Admins \ {a} : sent'[b] = sent[b] /\ reply'[b] = reply[b]
    BY <1>1, SendFacts DEF Callers
  <1>4. Removing' \subseteq Removing
    BY <1>2, RemovesType, RemovingIncludes, RemovingShrinks
  <1>5. RemovalsKnown'
    BY <1>2, <1>4 DEF AckInv, RemovalsKnown
  <1>6. AddedHolds'
    <2>1. ASSUME NEW b \in Admins, Adding(b)' PROVE b # a /\ Adding(b)
      <3>1. b # a
        BY <1>2, <2>1 DEF Adding, NoCall
      <3> QED
        BY <1>2, <1>3, <2>1, <3>1 DEF Adding
    <2> QED
      BY <1>2, <1>3, <2>1 DEF AckInv, AddedHolds
  <1> QED
    BY <1>5, <1>6 DEF AckInv

LEMMA AcknowledgedAck ==
    ASSUME WireInv, AckInv, NEW a \in Admins, Acknowledged(a)
    PROVE  AckInv'
  <1>1. /\ call[a].op \notin {"none", "clear_emergency_deny_list"} /\ reply[a].value = "OK"
        /\ Return(a)
        /\ settled' = settled \cup ((call[a].ids \ Removes(call[a])) \ contested[a])
        /\ UNCHANGED <<revoked, denied, strays>>
    BY DEF Acknowledged, server
  <1>2. call[a] # NoCall /\ reply[a] # NoReply
    <2>1. call[a] # NoCall
      BY <1>1 DEF NoCall
    <2>2. reply[a] # NoReply
      BY <1>1, CommandFacts
    <2> QED
      BY <2>1, <2>2
  <1>3. Adding(a) \/ Dropping(a)
    BY <1>1 DEF WireInv, AdminOK, AtRest, Scanning, Sweeping, NoCall
  <1>4. (call[a].ids \ Removes(call[a])) \ contested[a] \subseteq revoked \cup denied
    <2>1. CASE Adding(a)
      BY <1>2, <2>1 DEF AckInv, AddedHolds
    <2>2. CASE Dropping(a)
      <3>1. call[a] \in AdminCalls
        BY <1>2 DEF WireInv, TaskTypes
      <3>2. Removes(call[a]) = call[a].ids
        BY <2>2, <3>1, CallFacts DEF Dropping
      <3> QED
        BY <3>2
    <2> QED
      BY <1>3, <2>1, <2>2
  <1>5. Removing \subseteq contested[a]
    BY <1>2 DEF AckInv, RemovalsKnown
  <1>6. settled' \subseteq revoked \cup denied
    BY <1>1, <1>4 DEF AckInv
  <1>7. settled' \cap Removing = {}
    BY <1>1, <1>5 DEF AckInv, RemovalsKnown
  <1> QED
    BY <1>1, <1>6, <1>7, RemovingIncludes, ReturnAck

LEMMA CallFailsAck ==
    ASSUME WireInv, AckInv, NEW a \in Admins, CallFails(a)
    PROVE  AckInv'
  <1>1. Return(a) /\ UNCHANGED <<revoked, denied, settled>> /\ ConnectionBreaks(a)
    BY DEF CallFails, server
  <1>2. strays' \subseteq strays \cup {sent[a]}
    BY <1>1, BreakFacts DEF Callers
  <1>3. \A k \in strays' : k.cmd = "DEL" => k.ids \subseteq Removing
    BY <1>2, RemovingIncludes
  <1>4. settled' \subseteq revoked \cup denied /\ settled' \cap Removing = {}
    BY <1>1 DEF AckInv, RemovalsKnown
  <1> QED
    BY <1>1, <1>3, <1>4, ReturnAck

\* A step of a clear settles nothing.
LEMMA ClearAck ==
    ASSUME WireInv, AckInv, NEW a \in Admins, Scanned(a) \/ Deleted(a)
    PROVE  AckInv'
  <1>1. /\ call[a].op = "clear_emergency_deny_list"
        /\ UNCHANGED <<revoked, denied, strays>>
    BY ScannedFacts DEF Scanned, Deleted, Scanning, server
  <1>2. CASE Return(a) /\ UNCHANGED settled
    <2>1. settled' \subseteq revoked \cup denied /\ settled' \cap Removing = {}
      BY <1>2 DEF AckInv, RemovalsKnown
    <2> QED
      BY <1>1, <1>2, <2>1, RemovingIncludes, ReturnAck
  <1>3. CASE (\E k : Send(a, k)) /\ UNCHANGED <<call, history>>
    <2>1. \A b \in Admins \ {a} : sent'[b] = sent[b] /\ reply'[b] = reply[b]
      BY <1>3, SendFacts DEF Callers
    <2>2. ASSUME NEW b \in Admins, Adding(b)'
          PROVE  Adding(b) /\ sent'[b] = sent[b] /\ reply'[b] = reply[b]
      <3>1. b # a
        BY <1>1, <1>3, <2>2 DEF Adding
      <3> QED
        BY <1>3, <2>1, <2>2, <3>1 DEF Adding
    <2> QED
      BY <1>1, <1>3, <2>2, AckFrame DEF history
  <1> QED
    BY <1>2, <1>3 DEF Scanned, Deleted, ScanFrom

LEMMA StepAck == WireInv /\ AckInv /\ [Next]_vars => AckInv'
  <1> SUFFICES ASSUME WireInv, AckInv, [Next]_vars PROVE AckInv'
    OBVIOUS
  <1>1. CASE UNCHANGED vars \/ Tick
    BY <1>1, AckIdle DEF Tick, vars, server, network, administration, history
  <1>2. ASSUME NEW a \in Admins,
               (\E c \in AdminCalls : Begin(a, c)) \/ Administer(a) \/ CallFails(a)
        PROVE  AckInv'
    BY <1>2, BeginAck, AcknowledgedAck, ClearAck, CallFailsAck DEF Administer
  <1> QED
    BY <1>1, <1>2, ServeAck, StrayAck, EvaluationAck DEF Next

LEMMA InitAck == Init => AckInv
  <1> SUFFICES ASSUME Init PROVE AckInv
    OBVIOUS
  <1>1. \A a \in Admins : call[a] = NoCall
    BY DEF Init
  <1>2. RemovalsKnown
    BY <1>1 DEF Init, RemovalsKnown
  <1>3. AddedHolds
    BY <1>1 DEF AddedHolds, Adding, NoCall
  <1> QED
    BY <1>2, <1>3 DEF Init, AckInv

\* The store agrees with the calls under way: nothing settled is being removed,
\* and what a pipeline has had executed is there unless a removal contests it.
THEOREM AckInductive == Spec => []AckInv
  BY InitAck, StepAck, WireInductive, PTL DEF Spec

\* A revocation or denial that Redis acknowledged holds until some call to remove
\* it is made, for any tasks, calls, scan order and number of lost connections.
THEOREM RedisAcknowledged == Spec => []AcknowledgedHolds
  <1>1. WireInv /\ AckInv => AcknowledgedHolds
    BY WireTypeOK DEF AckInv, AcknowledgedHolds
  <1> QED
    BY <1>1, WireInductive, AckInductive, PTL

-------------------------------------------------------------------------------
(***************************************************************************)
(* ScanInv is inductive relative to WireInv                                 *)
(***************************************************************************)

\* The buckets from the first on hold every agent; past the last there are none.
LEMMA RestFacts ==
    /\ Rest(0) = {}
    /\ Agents \subseteq Rest(1)
    /\ \A i \in 0..Len(Buckets) :
          i # 0 => Rest(i) \subseteq Buckets[i] \cup Rest(NextCursor(i))
  <1>1. Len(Buckets) \in Nat /\ DOMAIN Buckets = 1..Len(Buckets)
    BY BucketFacts
  <1>2. Rest(0) = {}
    BY DEF Rest
  <1>3. Agents \subseteq Rest(1)
    <2>1. UNION {Buckets[i] : i \in DOMAIN Buckets} = Agents
      BY RedisAssumption
    <2>2. \A j \in DOMAIN Buckets : 1 # 0 /\ 1 <= j
      BY <1>1
    <2> QED
      BY <2>1, <2>2 DEF Rest
  <1>4. ASSUME NEW i \in 0..Len(Buckets), i # 0, NEW x \in Rest(i), x \notin Buckets[i]
        PROVE  x \in Rest(NextCursor(i))
    <2>1. PICK j \in DOMAIN Buckets : i <= j /\ x \in Buckets[j]
      BY <1>4 DEF Rest
    <2>2. PICK n \in Nat : n = Len(Buckets)
      BY <1>1
    <2>3. j # i /\ j \in 1..n /\ i \in 0..n
      BY <1>1, <1>4, <2>1, <2>2
    <2>4. i # n /\ i + 1 <= j /\ i + 1 # 0
      BY <2>1, <2>2, <2>3
    <2>5. NextCursor(i) = i + 1
      BY <2>2, <2>4 DEF NextCursor
    <2> QED
      BY <2>1, <2>4, <2>5 DEF Rest
  <1> QED
    BY <1>2, <1>3, <1>4

\* A clear keeps its place while nothing of it changes and no agent it is to
\* remove is denied again.
LEMMA ScanFrame ==
    ASSUME NEW a \in Admins, ScanOK(a),
           call'[a] = call[a], sent'[a] = sent[a], reply'[a] = reply[a], cursor'[a] = cursor[a],
           LeftToClear(a)' \subseteq LeftToClear(a)
    PROVE  ScanOK(a)'
  <1>1. /\ Scanning(a)' <=> Scanning(a)
        /\ Sweeping(a)' <=> Sweeping(a)
    BY DEF Scanning, Sweeping
  <1> QED
    BY <1>1 DEF ScanOK, Rest

LEMMA NoClear ==
    ASSUME NEW a \in Admins, call'[a].op # "clear_emergency_deny_list"
    PROVE  ScanOK(a)'
  BY DEF ScanOK, Scanning, Sweeping

\* SET and DEL leave no more to clear.
LEMMA SetLeft ==
    ASSUME WireInv, NEW kind, NEW id, Set(kind, id), NEW a \in Admins
    PROVE  LeftToClear(a)' \subseteq LeftToClear(a)
  <1>1. denied' \subseteq denied \cup {id} /\ to_clear'[a] = to_clear[a] \ {id}
    BY DEF Set
  <1> QED
    BY <1>1 DEF LeftToClear

LEMMA DelLeft ==
    ASSUME NEW k, Del(k), UNCHANGED to_clear, NEW a \in Admins
    PROVE  LeftToClear(a)' \subseteq LeftToClear(a)
  BY DEF Del, LeftToClear

LEMMA ServeScanInv ==
    ASSUME WireInv, ScanInv, NEW c \in Callers, Serve(c), NEW a \in Admins
    PROVE  ScanOK(a)'
  <1> USE DEF WireInv
  <1>1. call'[a] = call[a] /\ cursor'[a] = cursor[a]
    BY DEF Serve, ServeExists, ServeSetNonce, ServeSet, ServeDel, ServeScan, administration
  <1>2. LeftToClear(a)' \subseteq LeftToClear(a)
    <2>1. CASE ServeExists(c) \/ ServeSetNonce(c) \/ ServeScan(c)
      BY <2>1 DEF ServeExists, ServeSetNonce, ServeScan, server, history, LeftToClear
    <2>2. CASE ServeSet(c)
      BY <2>2, SetLeft DEF ServeSet
    <2>3. CASE ServeDel(c)
      BY <2>3, DelLeft DEF ServeDel
    <2> QED
      BY <2>1, <2>2, <2>3 DEF Serve
  <1>3. CASE a # c
    <2>1. sent'[a] = sent[a] /\ reply'[a] = reply[a]
      <3>1. CASE ServeSet(c)
        BY <1>3, <3>1 DEF ServeSet, Answer, NetworkTypes, Callers
      <3>2. CASE ServeExists(c) \/ ServeSetNonce(c) \/ ServeScan(c) \/ ServeDel(c)
        <4>1. (\E v : reply' = [reply EXCEPT ![c] = v]) /\ UNCHANGED sent
          BY <3>2 DEF ServeExists, ServeSetNonce, ServeScan, ServeDel, Answer
        <4> QED
          BY <1>3, <4>1 DEF NetworkTypes, Callers
      <3> QED
        BY <3>1, <3>2 DEF Serve
    <2> QED
      BY <1>1, <1>2, <2>1, ScanFrame DEF ScanInv
  <1>4. CASE a = c
    <2>1. CASE ServeExists(c) \/ ServeSetNonce(c)
      BY <1>4, <2>1, SenderFacts, RedisAssumption DEF ServeExists, ServeSetNonce, Waiting
    <2>2. CASE ServeSet(c)
      <3>1. Adding(a)
        BY <1>4, <2>2, SenderFacts DEF ServeSet, Waiting
      <3> QED
        BY <1>1, <3>1, NoClear DEF Adding
    <2>3. CASE ServeScan(c)
      <3>1. Scanning(a) /\ reply[a] = NoReply
        BY <1>4, <2>3, SenderFacts DEF ServeScan, Waiting
      <3>2. PICK more \in SUBSET denied :
              reply' = [reply EXCEPT ![a] =
                  [value |-> "keys", keys |-> (denied \cap Buckets[cursor[a]]) \cup more]]
        BY <1>4, <2>3 DEF ServeScan, Answer
      <3>3. reply'[a].keys = (denied \cap Buckets[cursor[a]]) \cup more
        BY <3>2 DEF NetworkTypes, Callers
      <3>4. sent'[a] = Scan /\ UNCHANGED <<denied, to_clear>>
        BY <2>3, <3>1 DEF ServeScan, Scanning, server, history
      <3>5. ~Sweeping(a)'
        BY <3>4, CommandFacts DEF Sweeping
      <3>6. LeftToClear(a) \subseteq Rest(cursor[a])
        BY <3>1 DEF ScanInv, ScanOK
      <3> QED
        BY <1>1, <1>2, <3>3, <3>4, <3>5, <3>6 DEF ScanOK, LeftToClear, Rest
    <2>4. CASE ServeDel(c)
      <3>1. sent'[a] = sent[a] /\ reply'[a] = Reply("OK") /\ Del(sent[a]) /\ UNCHANGED to_clear
        BY <1>4, <2>4 DEF ServeDel, Answer, NetworkTypes, Callers
      <3>2. Dropping(a) \/ Sweeping(a)
        BY <1>4, <2>4, SenderFacts DEF ServeDel, Waiting
      <3>3. CASE Dropping(a)
        BY <1>1, <3>3, NoClear DEF Dropping
      <3>4. CASE Sweeping(a)
        <4>1. LeftToClear(a) \subseteq Rest(cursor[a]) \cup sent[a].ids
          BY <3>4 DEF ScanInv, ScanOK
        <4>2. denied' = denied \ sent[a].ids
          BY <3>1, <3>4 DEF Del, Sweeping
        <4>3. LeftToClear(a)' \subseteq Rest(cursor[a])
          BY <3>1, <4>1, <4>2 DEF LeftToClear
        <4>4. ~Scanning(a)'
          BY <3>1, <3>4, CommandFacts DEF Scanning, Sweeping
        <4> QED
          BY <1>1, <4>3, <4>4 DEF ScanOK, Rest
      <3> QED
        BY <3>2, <3>3, <3>4
    <2> QED
      BY <2>1, <2>2, <2>3, <2>4 DEF Serve
  <1> QED
    BY <1>3, <1>4

\* A step of no administrator and not of the server.
LEMMA OtherScan ==
    ASSUME WireInv, ScanInv, NEW a \in Admins,
           UNCHANGED vars \/ Tick
             \/ (\E k \in strays : ServeStray(k) \/ LoseStray(k))
             \/ (\E r \in Requests : Arrive(r) \/ Evaluate(r) \/ EvaluationFails(r))
    PROVE  ScanOK(a)'
  <1>1. CASE UNCHANGED vars \/ Tick
    BY <1>1, ScanFrame DEF ScanInv, vars, Tick, server, network, administration, history, LeftToClear
  <1>2. ASSUME NEW k \in strays, ServeStray(k) \/ LoseStray(k) PROVE ScanOK(a)'
    <2>1. UNCHANGED <<sent, reply, call, cursor>>
      BY <1>2 DEF ServeStray, LoseStray, administration
    <2>2. LeftToClear(a)' \subseteq LeftToClear(a)
      <3>1. CASE LoseStray(k) \/ UNCHANGED <<denied, to_clear>>
        BY <3>1 DEF LoseStray, LeftToClear, server, history
      <3>2. CASE \E id : Set(k.kind, id)
        BY <3>2, SetLeft
      <3>3. CASE Del(k) /\ UNCHANGED to_clear
        BY <3>3, DelLeft
      <3> QED
        BY <1>2, <3>1, <3>2, <3>3 DEF ServeStray
    <2> QED
      BY <2>1, <2>2, ScanFrame DEF ScanInv
  <1>3. ASSUME NEW r \in Requests, Arrive(r) \/ Evaluate(r) \/ EvaluationFails(r)
        PROVE  ScanOK(a)'
    <2>1. /\ UNCHANGED <<call, cursor, denied, to_clear>>
          /\ \E k : Send(r, k)
      BY <1>3 DEF Arrive, Evaluate, EvaluationFails, TokenRevokedReply, AgentDeniedReply,
                  ConsumeNonceReply, Ask, Decide, administration, history, server
    <2>2. sent'[a] = sent[a] /\ reply'[a] = reply[a]
      BY <2>1, SendFacts, RedisAssumption DEF Callers
    <2> QED
      BY <2>1, <2>2, ScanFrame DEF ScanInv, LeftToClear
  <1> QED
    BY <1>1, <1>2, <1>3

\* A step of another administrator.
LEMMA OthersScan ==
    ASSUME WireInv, ScanInv, NEW a \in Admins, NEW b \in Admins, a # b,
           (\E c \in AdminCalls : Begin(b, c)) \/ Administer(b) \/ CallFails(b)
    PROVE  ScanOK(a)'
  <1>1. /\ \E k : Send(b, k)
        /\ \E c : call' = [call EXCEPT ![b] = c]
        /\ \E i : cursor' = [cursor EXCEPT ![b] = i]
        /\ \E S : to_clear' = [to_clear EXCEPT ![b] = S]
        /\ UNCHANGED denied
    <2>1. CASE \E c \in AdminCalls : Begin(b, c)
      BY <2>1 DEF Begin, server
    <2>2. CASE Return(b) /\ UNCHANGED server
      BY <2>2 DEF Return, server
    <2>3. CASE /\ \E k : Send(b, k)
               /\ \E i : cursor' = [cursor EXCEPT ![b] = i]
               /\ UNCHANGED <<call, history, server>>
      <3>1. call' = [call EXCEPT ![b] = call[b]] /\ to_clear' = [to_clear EXCEPT ![b] = to_clear[b]]
        BY <2>3 DEF history, WireInv, TaskTypes, HistoryTypes
      <3> QED
        BY <2>3, <3>1 DEF server
    <2> QED
      BY <2>1, <2>2, <2>3 DEF Administer, Acknowledged, Scanned, Deleted, ScanFrom, CallFails
  <1>2. /\ call'[a] = call[a] /\ cursor'[a] = cursor[a] /\ to_clear'[a] = to_clear[a]
    BY <1>1 DEF WireInv, TaskTypes, HistoryTypes
  <1>3. sent'[a] = sent[a] /\ reply'[a] = reply[a]
    BY <1>1, SendFacts DEF Callers
  <1> QED
    BY <1>1, <1>2, <1>3, ScanFrame DEF ScanInv, LeftToClear

\* A call that ends leaves nothing to say of it.
LEMMA ReturnScan ==
    ASSUME WireInv, NEW a \in Admins, Return(a)
    PROVE  ScanOK(a)'
  <1>1. call'[a].op = "none"
    BY DEF Return, WireInv, TaskTypes, NoCall
  <1> QED
    BY <1>1, NoClear

LEMMA BeginScan ==
    ASSUME WireInv, NEW a \in Admins, NEW c \in AdminCalls, Begin(a, c)
    PROVE  ScanOK(a)'
  <1>1. call'[a] = c
    BY DEF Begin, WireInv, TaskTypes
  <1>2. CASE c.op = "clear_emergency_deny_list"
    <2>1. FirstCommand(c) = Scan
      BY <1>2, CallFacts
    <2>2. sent'[a] = Scan /\ reply'[a] = NoReply
      BY <2>1, SendFacts DEF Begin, Callers
    <2>3. cursor'[a] = 1 /\ to_clear'[a] = denied /\ denied' = denied
      BY <2>1 DEF Begin, server, WireInv, TaskTypes, HistoryTypes
    <2>4. ~Sweeping(a)'
      BY <2>2, CommandFacts DEF Sweeping
    <2>5. denied \subseteq Rest(1)
      BY RestFacts DEF WireInv, ServerTypes
    <2> QED
      BY <2>2, <2>3, <2>4, <2>5 DEF ScanOK, LeftToClear, Rest
  <1>3. CASE c.op # "clear_emergency_deny_list"
    BY <1>1, <1>3, NoClear
  <1> QED
    BY <1>2, <1>3

\* The buckets before the cursor that a step of a clear goes on to hold all that
\* is left.
LEMMA ScannedLeft ==
    ASSUME WireInv, ScanInv, NEW a \in Admins, reply[a].value = "keys"
    PROVE  LeftToClear(a) \subseteq reply[a].keys \cup Rest(NextCursor(cursor[a]))
  <1>1. Scanning(a) /\ reply[a] # NoReply
    BY ScannedFacts, CommandFacts
  <1>2. /\ LeftToClear(a) \subseteq Rest(cursor[a])
        /\ LeftToClear(a) \cap Buckets[cursor[a]] \subseteq reply[a].keys
    BY <1>1 DEF ScanInv, ScanOK
  <1>3. Rest(cursor[a]) \subseteq Buckets[cursor[a]] \cup Rest(NextCursor(cursor[a]))
    BY <1>1, RestFacts DEF Scanning, WireInv, TaskTypes
  <1> QED
    BY <1>2, <1>3

LEMMA DeletedLeft ==
    ASSUME WireInv, ScanInv, NEW a \in Admins,
           call[a].op = "clear_emergency_deny_list", reply[a].value = "OK"
    PROVE  LeftToClear(a) \subseteq Rest(cursor[a])
  <1>1. reply[a] # NoReply
    BY CommandFacts
  <1>2. Sweeping(a)
    BY <1>1 DEF WireInv, AdminOK, AtRest, Adding, Dropping, Scanning, NoCall
  <1> QED
    BY <1>1, <1>2 DEF ScanInv, ScanOK

LEMMA ScanFromScan ==
    ASSUME WireInv, NEW a \in Admins, NEW next, ScanFrom(a, next),
           LeftToClear(a) \subseteq Rest(next), UNCHANGED denied
    PROVE  ScanOK(a)'
  <1>1. CASE next # 0
    <2>1. cursor' = [cursor EXCEPT ![a] = next] /\ Send(a, Scan) /\ UNCHANGED to_clear
      BY <1>1 DEF ScanFrom, history
    <2>2. cursor'[a] = next
      BY <2>1 DEF WireInv, TaskTypes
    <2>3. sent'[a] = Scan /\ reply'[a] = NoReply
      BY <2>1, SendFacts DEF Callers
    <2>4. ~Sweeping(a)'
      BY <2>3, CommandFacts DEF Sweeping
    <2> QED
      BY <2>1, <2>2, <2>3, <2>4 DEF ScanOK, LeftToClear, Rest
  <1>2. CASE next = 0
    BY <1>2, ReturnScan DEF ScanFrom
  <1> QED
    BY <1>1, <1>2

LEMMA ClearScan ==
    ASSUME WireInv, ScanInv, NEW a \in Admins, Scanned(a) \/ Deleted(a)
    PROVE  ScanOK(a)'
  <1>1. UNCHANGED denied
    BY DEF Scanned, Deleted, server
  <1>2. CASE Scanned(a) /\ reply[a].keys # {}
    <2>1. /\ Send(a, Command("DEL", "denied", reply[a].keys, 0))
          /\ cursor' = [cursor EXCEPT ![a] = NextCursor(cursor[a])]
          /\ UNCHANGED to_clear
      BY <1>2 DEF Scanned, history
    <2>2. cursor'[a] = NextCursor(cursor[a])
      BY <2>1 DEF WireInv, TaskTypes
    <2>3. sent'[a] = Command("DEL", "denied", reply[a].keys, 0) /\ reply'[a] = NoReply
      BY <2>1, SendFacts DEF Callers
    <2>4. sent'[a].ids = reply[a].keys /\ sent'[a].cmd = "DEL"
      BY <2>3 DEF Command
    <2>5. ~Scanning(a)'
      BY <2>4, CommandFacts DEF Scanning
    <2>6. LeftToClear(a) \subseteq reply[a].keys \cup Rest(NextCursor(cursor[a]))
      BY <1>2, ScannedLeft DEF Scanned
    <2> QED
      BY <1>1, <2>1, <2>2, <2>3, <2>4, <2>5, <2>6 DEF ScanOK, LeftToClear, Rest
  <1>3. CASE Scanned(a) /\ reply[a].keys = {}
    <2>1. LeftToClear(a) \subseteq Rest(NextCursor(cursor[a]))
      BY <1>3, ScannedLeft DEF Scanned
    <2> QED
      BY <1>1, <1>3, <2>1, ScanFromScan DEF Scanned
  <1>4. CASE Deleted(a)
    BY <1>1, <1>4, DeletedLeft, ScanFromScan DEF Deleted
  <1> QED
    BY <1>2, <1>3, <1>4

LEMMA StepScan == WireInv /\ ScanInv /\ [Next]_vars => ScanInv'
  <1> SUFFICES ASSUME WireInv, ScanInv, [Next]_vars, NEW a \in Admins PROVE ScanOK(a)'
    BY DEF ScanInv
  <1>1. CASE UNCHANGED vars \/ Tick
             \/ (\E k \in strays : ServeStray(k) \/ LoseStray(k))
             \/ (\E r \in Requests : Arrive(r) \/ Evaluate(r) \/ EvaluationFails(r))
    BY <1>1, OtherScan
  <1>2. CASE \E c \in Callers : Serve(c)
    BY <1>2, ServeScanInv
  <1>3. ASSUME NEW b \in Admins,
               (\E c \in AdminCalls : Begin(b, c)) \/ Administer(b) \/ CallFails(b)
        PROVE  ScanOK(a)'
    <2>1. CASE a # b
      BY <1>3, <2>1, OthersScan
    <2>2. CASE a = b
      <3>1. CASE Acknowledged(a) \/ CallFails(a)
        BY <3>1, ReturnScan DEF Acknowledged, CallFails
      <3> QED
        BY <1>3, <2>2, <3>1, BeginScan, ClearScan DEF Administer
    <2> QED
      BY <2>1, <2>2
  <1> QED
    BY <1>1, <1>2, <1>3 DEF Next

LEMMA InitScan == Init => ScanInv
  <1> SUFFICES ASSUME Init, NEW a \in Admins PROVE ScanOK(a)
    BY DEF ScanInv
  <1>1. call[a].op = "none"
    BY DEF Init, NoCall
  <1> QED
    BY <1>1 DEF ScanOK, Scanning, Sweeping

\* The agents a clear has still to remove are before it, whatever other calls do
\* meanwhile.
THEOREM ScanInductive == Spec => []ScanInv
  BY InitScan, StepScan, WireInductive, PTL DEF Spec

\* clear_emergency_deny_list answers Ok only when every agent that was denied when
\* it was called, and not again since, has been removed, for any order of the scan.
THEOREM ClearComplete == Spec => ClearIsComplete
  <1>1. ASSUME WireInv, ScanInv, [Next]_vars, NEW a \in Admins,
               call[a].op = "clear_emergency_deny_list", call'[a] = NoCall, failures' = failures
        PROVE  to_clear[a] \cap denied' = {}
    <2>1. call'[a] # call[a]
      BY <1>1 DEF NoCall
    <2>2. CASE UNCHANGED call
      BY <2>1, <2>2
    <2>3. ASSUME NEW b \in Admins, CallFails(b) PROVE FALSE
      <3>1. failures' = failures + 1 /\ failures \in 0..MaxFailures
        BY <1>1, <2>3, BreakFacts DEF CallFails, WireInv, NetworkTypes, Callers
      <3> QED
        BY <1>1, <3>1
    <2>4. ASSUME NEW b \in Admins, (\E c \in AdminCalls : Begin(b, c)) \/ Administer(b), b # a
          PROVE  FALSE
      <3>1. UNCHANGED call \/ \E c : call' = [call EXCEPT ![b] = c]
        BY <2>4 DEF Begin, Administer, Acknowledged, Scanned, Deleted, ScanFrom, Return
      <3>2. call'[a] = call[a]
        BY <1>1, <2>4, <3>1 DEF WireInv, TaskTypes
      <3> QED
        BY <2>1, <3>2
    <2>5. ASSUME (\E c \in AdminCalls : Begin(a, c)) \/ Acknowledged(a) PROVE FALSE
      BY <1>1, <2>5 DEF Begin, Acknowledged, NoCall
    <2>6. CASE Scanned(a)
      <3>1. reply[a].keys = {} /\ NextCursor(cursor[a]) = 0 /\ denied' = denied
        BY <2>1, <2>6 DEF Scanned, ScanFrom, server
      <3>2. LeftToClear(a) \subseteq Rest(0)
        BY <1>1, <2>6, <3>1, ScannedLeft DEF Scanned
      <3> QED
        BY <3>1, <3>2, RestFacts DEF LeftToClear
    <2>7. CASE Deleted(a)
      <3>1. cursor[a] = 0 /\ denied' = denied
        BY <2>1, <2>7 DEF Deleted, ScanFrom, server
      <3>2. LeftToClear(a) \subseteq Rest(0)
        BY <1>1, <2>7, <3>1, DeletedLeft DEF Deleted
      <3> QED
        BY <3>1, <3>2, RestFacts DEF LeftToClear
    <2>8. CASE \/ UNCHANGED vars \/ Tick \/ (\E c \in Callers : Serve(c))
               \/ (\E k \in strays : ServeStray(k) \/ LoseStray(k))
               \/ (\E r \in Requests : Arrive(r) \/ Evaluate(r) \/ EvaluationFails(r))
      <3>1. UNCHANGED call
        BY <2>8 DEF vars, Tick, Serve, ServeExists, ServeSetNonce, ServeSet, ServeDel, ServeScan,
                    ServeStray, LoseStray, Arrive, Evaluate, TokenRevokedReply, AgentDeniedReply,
                    ConsumeNonceReply, EvaluationFails, administration
      <3> QED
        BY <2>2, <3>1
    <2> QED
      BY <1>1, <2>3, <2>4, <2>5, <2>6, <2>7, <2>8 DEF Next, Administer
  <1>2. WireInv /\ ScanInv /\ [Next]_vars =>
          [\A a \in Admins :
              (call[a].op = "clear_emergency_deny_list" /\ call'[a] = NoCall
                  /\ failures' = failures) => to_clear[a] \cap denied' = {}]_vars
    BY <1>1
  <1> QED
    BY <1>2, WireInductive, ScanInductive, PTL DEF Spec, ClearIsComplete

-------------------------------------------------------------------------------
(***************************************************************************)
(* GrantInv is inductive relative to WireInv                                *)
(***************************************************************************)

\* A nonce whose grant has not expired is present.
LEMMA KeptPresent ==
    ASSUME WireInv, GrantsKept, NEW g \in spent, clock <= Timestamp(g.valid_until)
    PROVE  \E e \in nonces : e.nonce = g.nonce /\ Live(e) /\ e.exat >= Timestamp(g.valid_until)
  <1>1. PICK e \in nonces : e.nonce = g.nonce /\ e.exat >= Timestamp(g.valid_until)
    BY DEF GrantsKept
  <1>2. g.valid_until \in Nat /\ Timestamp(g.valid_until) \in Int
    BY TimestampType DEF WireInv, HistoryTypes, Grants
  <1>3. e.exat \in Int
    BY DEF WireInv, ServerTypes
  <1>4. clock \in Int
    <2>1. Horizon[crew] \in Nat /\ clock \in 0..Horizon[crew]
      BY RedisAssumption DEF WireInv, ServerTypes
    <2> QED
      BY <2>1
  <1>5. clock <= e.exat
    BY <1>1, <1>2, <1>3, <1>4
  <1> QED
    BY <1>1, <1>5 DEF Live

\* SET NX EXAT forgets no grant.
LEMMA SetNonceKeeps ==
    ASSUME WireInv, GrantsKept, NEW k, SetNonce(k), UNCHANGED clock
    PROVE  \A g \in spent :
               clock' <= Timestamp(g.valid_until) =>
                   \E e \in nonces' : e.nonce = g.nonce /\ e.exat >= Timestamp(g.valid_until)
  <1> SUFFICES ASSUME NEW g \in spent, clock <= Timestamp(g.valid_until)
               PROVE  \E e \in nonces' : e.nonce = g.nonce /\ e.exat >= Timestamp(g.valid_until)
    OBVIOUS
  <1>1. PICK e \in nonces : e.nonce = g.nonce /\ Live(e) /\ e.exat >= Timestamp(g.valid_until)
    BY KeptPresent
  <1>2. Present(e.nonce)
    BY <1>1 DEF Present
  <1>3. e \in nonces'
    BY <1>2 DEF SetNonce
  <1> QED
    BY <1>1, <1>3

LEMMA GrantFrame ==
    ASSUME NEW r \in Requests, GrantOK(r), Granted(r)' <=> Granted(r),
           pc'[r] = pc[r], reply'[r] = reply[r]
    PROVE  GrantOK(r)'
  BY DEF GrantOK, Reply

LEMMA BarredFrame ==
    ASSUME NEW r \in Requests, BarredOK(r),
           presents'[r] = presents[r], pc'[r] = pc[r], reply'[r] = reply[r],
           r \in revoked_before' => r \in revoked_before /\ presents[r] \in revoked',
           r \in denied_before' => r \in denied_before /\ tok(r).agent_id \in denied'
    PROVE  BarredOK(r)'
  BY DEF BarredOK, tok, Reply

\* What SET and DEL do to the requests barred on arrival.
LEMMA SetBarred ==
    ASSUME GrantInv, NEW kind, NEW id, Set(kind, id), UNCHANGED <<revoked_before, denied_before>>,
           NEW r \in Requests
    PROVE  /\ r \in revoked_before' => r \in revoked_before /\ presents[r] \in revoked'
           /\ r \in denied_before' => r \in denied_before /\ tok(r).agent_id \in denied'
  BY DEF GrantInv, BarredOK, Set

LEMMA DelBarred ==
    ASSUME NEW k, Del(k), NEW r \in Requests
    PROVE  /\ r \in revoked_before' => r \in revoked_before /\ presents[r] \in revoked'
           /\ r \in denied_before' => r \in denied_before /\ tok(r).agent_id \in denied'
  BY DEF Del

\* A step that leaves the evaluations and the grants.
LEMMA GrantIdle ==
    ASSUME WireInv, GrantInv, UNCHANGED <<spent, presents, pc>>,
           GrantsKept',
           \A r \in Requests :
               /\ reply'[r] = reply[r]
               /\ r \in revoked_before' => r \in revoked_before /\ presents[r] \in revoked'
               /\ r \in denied_before' => r \in denied_before /\ tok(r).agent_id \in denied'
    PROVE  GrantInv'
  <1>1. ASSUME NEW r \in Requests PROVE GrantOK(r)' /\ BarredOK(r)'
    BY GrantFrame, BarredFrame DEF GrantInv, Granted
  <1> QED
    BY <1>1 DEF GrantInv

\* What was barred stays so while the sets do not change.
LEMMA SameBarred ==
    ASSUME GrantInv, UNCHANGED <<revoked, denied, revoked_before, denied_before>>, NEW r \in Requests
    PROVE  /\ r \in revoked_before' => r \in revoked_before /\ presents[r] \in revoked'
           /\ r \in denied_before' => r \in denied_before /\ tok(r).agent_id \in denied'
  BY DEF GrantInv, BarredOK

LEMMA SameKept ==
    ASSUME GrantInv, UNCHANGED <<clock, nonces, spent>>
    PROVE  GrantsKept'
  BY DEF GrantInv, GrantsKept, Timestamp

LEMMA TickGrant ==
    ASSUME WireInv, GrantInv, Tick
    PROVE  GrantInv'
  <1>1. /\ clock' = clock + 1 /\ clock \in Int
        /\ UNCHANGED <<nonces, spent, presents, pc, reply, revoked, denied, revoked_before, denied_before>>
    <2>1. Horizon[crew] \in Nat /\ clock \in 0..Horizon[crew]
      BY RedisAssumption DEF WireInv, ServerTypes
    <2> QED
      BY <2>1 DEF Tick, server, network, evaluation, history
  <1>2. GrantsKept'
    <2>1. ASSUME NEW g \in spent, clock' <= Timestamp(g.valid_until)
          PROVE  clock <= Timestamp(g.valid_until)
      <3>1. Timestamp(g.valid_until) \in Int
        BY TimestampType DEF WireInv, HistoryTypes, Grants
      <3> QED
        BY <1>1, <2>1, <3>1
    <2> QED
      BY <1>1, <2>1 DEF GrantInv, GrantsKept, Timestamp
  <1> QED
    BY <1>1, <1>2, SameBarred, GrantIdle

LEMMA StrayGrant ==
    ASSUME WireInv, GrantInv, NEW k \in strays, ServeStray(k) \/ LoseStray(k)
    PROVE  GrantInv'
  <1>1. UNCHANGED <<clock, spent, presents, pc, reply>>
    BY DEF ServeStray, LoseStray, evaluation, history
  <1>2. GrantsKept'
    <2>1. CASE SetNonce(k)
      BY <1>1, <2>1, SetNonceKeeps DEF GrantInv, GrantsKept, Timestamp
    <2>2. CASE UNCHANGED nonces
      BY <1>1, <2>2, SameKept
    <2> QED
      BY <2>1, <2>2 DEF ServeStray, LoseStray, server
  <1>3. ASSUME NEW r \in Requests
        PROVE  /\ r \in revoked_before' => r \in revoked_before /\ presents[r] \in revoked'
               /\ r \in denied_before' => r \in denied_before /\ tok(r).agent_id \in denied'
    <2>1. CASE UNCHANGED <<revoked, denied, revoked_before, denied_before>>
      BY <2>1, SameBarred
    <2>2. CASE (\E id : Set(k.kind, id)) /\ UNCHANGED <<revoked_before, denied_before>>
      BY <2>2, SetBarred
    <2>3. CASE Del(k)
      BY <2>3, DelBarred
    <2> QED
      BY <2>1, <2>2, <2>3 DEF ServeStray, LoseStray, server, history
  <1> QED
    BY <1>1, <1>2, <1>3, GrantIdle

LEMMA AdministrationGrant ==
    ASSUME WireInv, GrantInv, NEW a \in Admins,
           (\E c \in AdminCalls : Begin(a, c)) \/ Administer(a) \/ CallFails(a)
    PROVE  GrantInv'
  <1>1. /\ UNCHANGED <<clock, nonces, spent, presents, pc, revoked, denied,
                       revoked_before, denied_before>>
        /\ \E k : Send(a, k)
    BY DEF Begin, Administer, Acknowledged, Scanned, Deleted, ScanFrom, Return, CallFails,
           server, evaluation, history
  <1>2. \A r \in Requests : reply'[r] = reply[r]
    BY <1>1, SendFacts, RedisAssumption DEF Callers
  <1> QED
    BY <1>1, <1>2, SameKept, SameBarred, GrantIdle

\* The ids an EXISTS asks for.
LEMMA ExistsFacts ==
    ASSUME NEW kind, NEW id, NEW k, k = Command("EXISTS", kind, {id}, 0)
    PROVE  k.ids = {id}
  BY DEF Command

LEMMA ServeExistsGrant ==
    ASSUME WireInv, GrantInv, NEW c \in Callers, ServeExists(c)
    PROVE  GrantInv'
  <1>1. /\ sent[c].cmd = "EXISTS"
        /\ reply' = [reply EXCEPT ![c] =
              Reply(IF sent[c].ids \cap (revoked \cup denied) # {} THEN "yes" ELSE "no")]
        /\ UNCHANGED <<clock, nonces, spent, presents, pc, revoked, denied,
                       revoked_before, denied_before>>
    BY DEF ServeExists, Waiting, Answer, server, evaluation, history
  <1>2. c \in Requests /\ pc[c] \in {"is_token_revoked", "is_agent_emergency_denied"}
    BY <1>1, SenderFacts
  <1>3. \A r \in Requests \ {c} : reply'[r] = reply[r]
    BY <1>1 DEF WireInv, NetworkTypes, Callers
  <1>4. \A r \in Requests : Granted(r)' <=> Granted(r)
    BY <1>1 DEF Granted
  <1>5. ASSUME NEW r \in Requests \ {c} PROVE GrantOK(r)' /\ BarredOK(r)'
    BY <1>1, <1>3, <1>4, GrantFrame, BarredFrame, SameBarred DEF GrantInv
  <1>6. GrantOK(c)'
    BY <1>1, <1>2, <1>4 DEF GrantInv, GrantOK
  <1>7. BarredOK(c)'
    <2>1. sent[c].ids \cap (revoked \cup denied) # {} => reply'[c] # Reply("no")
      <3>1. Reply("yes") # Reply("no")
        BY DEF Reply
      <3> QED
        BY <1>1, <3>1 DEF WireInv, NetworkTypes
    <2>2. CASE pc[c] = "is_token_revoked"
      <3>1. sent[c].ids = {presents[c]}
        <4>1. sent[c] = Command("EXISTS", "revoked", {presents[c]}, 0)
          BY <1>2, <2>2 DEF WireInv, RequestOK
        <4> QED
          BY <4>1, ExistsFacts
      <3>2. presents[c] \in revoked => reply'[c] # Reply("no")
        BY <2>1, <3>1
      <3> QED
        BY <1>1, <1>2, <2>2, <3>2 DEF GrantInv, BarredOK, tok, Reply
    <2>3. CASE pc[c] = "is_agent_emergency_denied"
      <3>1. sent[c].ids = {tok(c).agent_id}
        <4>1. sent[c] = Command("EXISTS", "denied", {tok(c).agent_id}, 0)
          BY <1>2, <2>3 DEF WireInv, RequestOK
        <4> QED
          BY <4>1, ExistsFacts
      <3>2. tok(c).agent_id \in denied => reply'[c] # Reply("no")
        BY <2>1, <3>1
      <3> QED
        BY <1>1, <1>2, <2>3, <3>2 DEF GrantInv, BarredOK, tok, Reply
    <2> QED
      BY <1>2, <2>2, <2>3
  <1>8. GrantsKept'
    BY <1>1, SameKept
  <1> QED
    BY <1>5, <1>6, <1>7, <1>8 DEF GrantInv

\* SET NX EXAT by a request that waits: what it sends, and that it has no grant yet.
LEMMA ServeSetNonceFacts ==
    ASSUME WireInv, GrantInv, NEW c \in Callers, ServeSetNonce(c)
    PROVE  /\ c \in Requests /\ pc[c] = "consume_nonce" /\ ~Granted(c)
           /\ tok(c).nonce \in Nonces /\ tok(c).expires_at \in Nat
           /\ sent[c].ids = {tok(c).nonce} /\ sent[c].exat = Timestamp(tok(c).expires_at)
           /\ SetNonce(sent[c])
           /\ \/ /\ Present(tok(c).nonce) /\ UNCHANGED spent
                 /\ reply' = [reply EXCEPT ![c] = Reply("nil")]
              \/ /\ ~Present(tok(c).nonce)
                 /\ reply' = [reply EXCEPT ![c] = Reply("OK")]
                 /\ spent' = spent \cup
                       {[nonce |-> tok(c).nonce, valid_until |-> tok(c).expires_at, by |-> c]}
           /\ UNCHANGED <<clock, presents, pc, now, decision, revoked, denied,
                          revoked_before, denied_before>>
  <1>1. sent[c].cmd = "SET NX EXAT" /\ reply[c] = NoReply
    BY DEF ServeSetNonce, Waiting
  <1>2. c \in Requests /\ pc[c] = "consume_nonce"
    BY <1>1, SenderFacts
  <1>3. ~Granted(c)
    <2>1. NoReply # Reply("OK")
      BY DEF NoReply, Reply
    <2> QED
      BY <1>1, <1>2, <2>1 DEF GrantInv, GrantOK
  <1>4. /\ tok(c).nonce \in Nonces /\ tok(c).expires_at \in Nat
        /\ Timestamp(tok(c).expires_at) \in Int
    BY <1>2, TokenFacts DEF WireInv
  <1>5. sent[c].ids = {tok(c).nonce} /\ sent[c].exat = Timestamp(tok(c).expires_at)
    BY <1>2, NonceSent
  <1>6. (\E n \in sent[c].ids : Present(n)) <=> Present(tok(c).nonce)
    BY <1>5
  <1>7. \/ /\ Present(tok(c).nonce) /\ UNCHANGED spent
           /\ reply' = [reply EXCEPT ![c] = Reply("nil")]
        \/ /\ ~Present(tok(c).nonce)
           /\ reply' = [reply EXCEPT ![c] = Reply("OK")]
           /\ spent' = spent \cup
                 {[nonce |-> tok(c).nonce, valid_until |-> tok(c).expires_at, by |-> c]}
    BY <1>6, Zenon DEF ServeSetNonce, Answer
  <1>8. /\ SetNonce(sent[c])
        /\ UNCHANGED <<clock, presents, pc, now, decision, revoked, denied,
                       revoked_before, denied_before>>
    BY DEF ServeSetNonce, evaluation
  <1> QED
    BY <1>2, <1>3, <1>4, <1>5, <1>7, <1>8

LEMMA ServeSetNonceGrant ==
    ASSUME WireInv, GrantInv, NEW c \in Callers, ServeSetNonce(c)
    PROVE  GrantInv'
  <1> DEFINE grant == [nonce |-> tok(c).nonce, valid_until |-> tok(c).expires_at, by |-> c]
  <1>1. /\ c \in Requests /\ pc[c] = "consume_nonce" /\ ~Granted(c)
        /\ UNCHANGED <<clock, presents, pc, revoked, denied, revoked_before, denied_before>>
        /\ SetNonce(sent[c])
    BY ServeSetNonceFacts
  <1>2. \A r \in Requests \ {c} : reply'[r] = reply[r]
    BY ServeSetNonceFacts DEF WireInv, NetworkTypes, Callers
  <1>3. \A r \in Requests \ {c} : Granted(r)' <=> Granted(r)
    BY ServeSetNonceFacts DEF Granted
  <1>4. ASSUME NEW r \in Requests \ {c} PROVE GrantOK(r)' /\ BarredOK(r)'
    BY <1>1, <1>2, <1>3, GrantFrame, BarredFrame, SameBarred DEF GrantInv
  <1>5. BarredOK(c)'
    BY <1>1 DEF GrantInv, BarredOK, tok
  <1>6. CASE Present(tok(c).nonce) /\ UNCHANGED spent /\ reply' = [reply EXCEPT ![c] = Reply("nil")]
    <2>1. GrantsKept'
      BY <1>1, <1>6, SetNonceKeeps DEF GrantInv, GrantsKept, Timestamp
    <2>2. GrantOK(c)'
      <3>1. reply'[c] # Reply("OK")
        BY <1>6 DEF WireInv, NetworkTypes, Reply
      <3>2. ~Granted(c)'
        BY <1>1, <1>6 DEF Granted
      <3> QED
        BY <3>1, <3>2 DEF GrantOK, Reply
    <2> QED
      BY <1>4, <1>5, <2>1, <2>2 DEF GrantInv
  <1>7. CASE /\ ~Present(tok(c).nonce) /\ reply' = [reply EXCEPT ![c] = Reply("OK")]
             /\ spent' = spent \cup {grant}
    <2>1. /\ grant.nonce = tok(c).nonce /\ grant.valid_until = tok(c).expires_at
          /\ grant.by = c
      OBVIOUS
    <2> HIDE DEF grant
    <2>2. \E e \in nonces' : e.nonce = grant.nonce /\ e.exat >= Timestamp(grant.valid_until)
      <3> DEFINE key == [nonce |-> tok(c).nonce, exat |-> Timestamp(tok(c).expires_at)]
      <3>1. key \in nonces'
        BY <1>1, <1>7, ServeSetNonceFacts DEF SetNonce
      <3>2. Timestamp(tok(c).expires_at) \in Int
        BY ServeSetNonceFacts, TimestampType
      <3>3. key.nonce = grant.nonce /\ key.exat >= Timestamp(grant.valid_until)
        BY <2>1, <3>2
      <3> QED
        BY <3>1, <3>3
    <2>3. GrantsKept'
      BY <1>1, <1>7, <2>2, SetNonceKeeps DEF GrantInv, GrantsKept, Timestamp
    <2>4. GrantOK(c)'
      <3>1. reply'[c] = Reply("OK") /\ pc'[c] = "consume_nonce"
        BY <1>1, <1>7 DEF WireInv, NetworkTypes
      <3>2. Granted(c)'
        BY <1>7, <2>1 DEF Granted
      <3> QED
        BY <3>1, <3>2 DEF GrantOK, Reply
    <2> QED
      BY <1>4, <1>5, <2>3, <2>4 DEF GrantInv
  <1> QED
    BY <1>6, <1>7, ServeSetNonceFacts

LEMMA ServeAdminGrant ==
    ASSUME WireInv, GrantInv, NEW c \in Callers, ServeSet(c) \/ ServeDel(c) \/ ServeScan(c)
    PROVE  GrantInv'
  <1>1. c \notin Requests
    BY SenderFacts, RedisAssumption DEF ServeSet, ServeDel, ServeScan, Waiting
  <1>2. UNCHANGED <<clock, nonces, spent, presents, pc>>
    BY DEF ServeSet, ServeDel, ServeScan, server, evaluation, history
  <1>3. \A r \in Requests : reply'[r] = reply[r]
    <2>1. reply' = reply \/ \E v : reply' = [reply EXCEPT ![c] = v]
      BY DEF ServeSet, ServeDel, ServeScan, Answer
    <2> QED
      BY <1>1, <2>1 DEF WireInv, NetworkTypes, Callers
  <1>4. ASSUME NEW r \in Requests
        PROVE  /\ r \in revoked_before' => r \in revoked_before /\ presents[r] \in revoked'
               /\ r \in denied_before' => r \in denied_before /\ tok(r).agent_id \in denied'
    <2>1. CASE ServeSet(c)
      BY <2>1, SetBarred DEF ServeSet
    <2>2. CASE ServeDel(c)
      BY <2>2, DelBarred DEF ServeDel
    <2>3. CASE ServeScan(c)
      BY <2>3, SameBarred DEF ServeScan, server, history
    <2> QED
      BY <2>1, <2>2, <2>3
  <1> QED
    BY <1>2, <1>3, <1>4, SameKept, GrantIdle

\* A step of an evaluation leaves the others.
LEMMA EvaluationGrant ==
    ASSUME WireInv, GrantInv, NEW r \in Requests, NEW k, Send(r, k),
           NEW stage, pc' = [pc EXCEPT ![r] = stage],
           UNCHANGED <<clock, nonces, spent, presents, revoked, denied>>,
           \A q \in Requests \ {r} :
               /\ q \in revoked_before' => q \in revoked_before
               /\ q \in denied_before' => q \in denied_before,
           stage \in {"is_token_revoked", "is_agent_emergency_denied", "consume_nonce"} => ~Granted(r),
           stage \in {"is_token_revoked", "is_agent_emergency_denied", "consume_nonce", "decided"},
           r \in revoked_before' =>
               presents[r] \in revoked /\ stage \in {"is_token_revoked", "decided"},
           r \in denied_before' =>
               tok(r).agent_id \in denied /\ stage # "consume_nonce"
    PROVE  GrantInv'
  <1>1. r \in Callers /\ \A q \in Requests : q \in Callers
    BY DEF Callers
  <1>2. /\ pc'[r] = stage /\ reply'[r] = NoReply
        /\ \A q \in Requests \ {r} : pc'[q] = pc[q] /\ reply'[q] = reply[q]
    BY <1>1, SendFacts DEF WireInv, TaskTypes
  <1>3. \A q \in Requests : Granted(q)' <=> Granted(q)
    BY DEF Granted
  <1>4. NoReply # Reply("OK") /\ NoReply # Reply("no")
    BY DEF NoReply, Reply
  <1>5. ASSUME NEW q \in Requests \ {r} PROVE GrantOK(q)' /\ BarredOK(q)'
    <2>1. /\ q \in revoked_before' => q \in revoked_before /\ presents[q] \in revoked'
          /\ q \in denied_before' => q \in denied_before /\ tok(q).agent_id \in denied'
      BY DEF GrantInv, BarredOK
    <2> QED
      BY <1>2, <1>3, <2>1, GrantFrame, BarredFrame DEF GrantInv
  <1>6. GrantOK(r)'
    BY <1>2, <1>3, <1>4 DEF GrantOK, Reply
  <1>7. BarredOK(r)'
    BY <1>2, <1>4 DEF BarredOK, tok, Reply
  <1> QED
    BY <1>5, <1>6, <1>7, SameKept DEF GrantInv

LEMMA ArriveGrant ==
    ASSUME WireInv, GrantInv, NEW r \in Requests, Arrive(r)
    PROVE  GrantInv'
  <1>1. /\ pc[r] = "idle" /\ pc' = [pc EXCEPT ![r] = "is_token_revoked"]
        /\ Send(r, Command("EXISTS", "revoked", {presents[r]}, 0))
        /\ revoked_before' = revoked_before \cup {q \in {r} : presents[q] \in revoked}
        /\ denied_before' = denied_before \cup {q \in {r} : tok(q).agent_id \in denied}
        /\ UNCHANGED <<clock, nonces, spent, presents, revoked, denied>>
    BY DEF Arrive, Ask, server
  <1>2. ~Granted(r) /\ r \notin revoked_before /\ r \notin denied_before
    BY <1>1 DEF GrantInv, GrantOK, BarredOK
  <1>3. /\ r \in revoked_before' => presents[r] \in revoked
        /\ r \in denied_before' => tok(r).agent_id \in denied
    BY <1>1, <1>2
  <1>4. \A q \in Requests \ {r} :
               /\ q \in revoked_before' => q \in revoked_before
               /\ q \in denied_before' => q \in denied_before
    BY <1>1
  <1> QED
    BY <1>1, <1>2, <1>3, <1>4, EvaluationGrant

\* A request that was told "no" was not barred by what it asked for.
LEMMA ToldNo ==
    ASSUME WireInv, GrantInv, NEW r \in Requests, reply[r].value = "no"
    PROVE  /\ pc[r] = "is_token_revoked" => r \notin revoked_before
           /\ pc[r] = "is_agent_emergency_denied" => r \notin denied_before
  <1>1. ASSUME reply[r] \in {NoReply, Reply("yes"), Reply("no")}
        PROVE  reply[r] = Reply("no")
    BY <1>1 DEF NoReply, Reply
  <1> QED
    BY <1>1 DEF WireInv, RequestOK, GrantInv, BarredOK

LEMMA EvaluateGrant ==
    ASSUME WireInv, GrantInv, NEW r \in Requests, Evaluate(r) \/ EvaluationFails(r)
    PROVE  GrantInv'
  <1>1. /\ UNCHANGED <<clock, nonces, spent, presents, revoked, denied, revoked_before, denied_before>>
        /\ pc[r] # "idle"
    <2>1. CASE Evaluate(r)
      BY <2>1 DEF Evaluate, TokenRevokedReply, AgentDeniedReply, ConsumeNonceReply, server, history
    <2>2. CASE EvaluationFails(r)
      BY <2>2 DEF EvaluationFails, ConnectionBreaks, WireInv, RequestOK, server, history
    <2> QED
      BY <2>1, <2>2
  <1>2. /\ r \in revoked_before => presents[r] \in revoked
        /\ r \in denied_before => tok(r).agent_id \in denied
    BY DEF GrantInv, BarredOK
  <1>3. CASE \E verdict : Decide(r, verdict)
    BY <1>1, <1>2, <1>3, EvaluationGrant DEF Decide
  <1>4. CASE /\ pc[r] = "is_token_revoked" /\ reply[r].value = "no"
             /\ \E k : Ask(r, "is_agent_emergency_denied", k)
    <2>1. ~Granted(r) /\ r \notin revoked_before
      BY <1>4, ToldNo DEF GrantInv, GrantOK
    <2> QED
      BY <1>1, <1>2, <1>4, <2>1, EvaluationGrant DEF Ask
  <1>5. CASE /\ pc[r] = "is_agent_emergency_denied" /\ reply[r].value = "no"
             /\ \E k : Ask(r, "consume_nonce", k)
    <2>1. ~Granted(r) /\ r \notin revoked_before /\ r \notin denied_before
      BY <1>5, ToldNo DEF GrantInv, GrantOK, BarredOK
    <2> QED
      BY <1>1, <1>2, <1>5, <2>1, EvaluationGrant DEF Ask
  <1> QED
    BY <1>3, <1>4, <1>5
       DEF Evaluate, TokenRevokedReply, AgentDeniedReply, ConsumeNonceReply, EvaluationFails

LEMMA StepGrant == WireInv /\ GrantInv /\ [Next]_vars => GrantInv'
  <1> SUFFICES ASSUME WireInv, GrantInv, [Next]_vars PROVE GrantInv'
    OBVIOUS
  <1>1. CASE UNCHANGED vars
    BY <1>1, SameKept, SameBarred, GrantIdle DEF vars, server, network, evaluation, history
  <1>2. CASE \E c \in Callers : Serve(c)
    BY <1>2, ServeExistsGrant, ServeSetNonceGrant, ServeAdminGrant DEF Serve
  <1>3. CASE \E r \in Requests : Arrive(r) \/ Evaluate(r) \/ EvaluationFails(r)
    BY <1>3, ArriveGrant, EvaluateGrant
  <1> QED
    BY <1>1, <1>2, <1>3, TickGrant, StrayGrant, AdministrationGrant DEF Next

LEMMA InitGrant == Init => GrantInv
  BY DEF Init, GrantInv, GrantsKept, GrantOK, BarredOK, Granted

\* Over Redis a granted nonce has a key until the whole second its token expires
\* in, a grant is known to its request alone, and a request barred on arrival does
\* not get past the check that bars it.
THEOREM GrantInductive == Spec => []GrantInv
  BY InitGrant, StepGrant, WireInductive, PTL DEF Spec

-------------------------------------------------------------------------------
(***************************************************************************)
(* Evaluations over Redis implement the gate.  The gate does not see the      *)
(* network: a SET or a DEL takes effect when the server executes it, whoever   *)
(* waits for it or not, and a nonce is spent when SET NX EXAT is answered OK   *)
(* to a request that still waits.  WireInv and GrantInv give the gate's guards. *)
(***************************************************************************)

\* Tokens expire on whole seconds, so that EXAT cuts nothing off.
WholeSeconds == \A t \in TokenIds : Timestamp(Token[t].expires_at) = Token[t].expires_at

GatePhase == [r \in Requests |-> Phase(r)]
GateSpent == {[nonce |-> e.nonce, valid_until |-> e.valid_until] : e \in spent}

\* A grant remembers the expiry of the token it was made for.
GrantsTimed == \A g \in spent : g.by \in Requests /\ g.valid_until = tok(g.by).expires_at

LEMMA InitGate == Init => Gate!Init
  <1> SUFFICES ASSUME Init PROVE Gate!Init
    OBVIOUS
  <1>1. [r \in Requests |-> Phase(r)] = [r \in Requests |-> "idle"]
    BY DEF Init, Phase
  <1>2. {[nonce |-> e.nonce, valid_until |-> e.valid_until] : e \in spent} = {}
    BY DEF Init
  <1> QED
    BY <1>1, <1>2 DEF Init, Gate!Init

\* No step changes what a request presents, and only SET NX EXAT grants.
LEMMA GrantingSteps ==
    ASSUME WireInv, GrantInv, [Next]_vars
    PROVE  /\ UNCHANGED presents
           /\ UNCHANGED spent \/ \E c \in Callers : ServeSetNonce(c)
  <1>1. CASE Tick \/ UNCHANGED vars
    BY <1>1 DEF Tick, vars, evaluation, history
  <1>2. CASE \E c \in Callers : Serve(c)
    BY <1>2 DEF Serve, ServeExists, ServeSetNonce, ServeSet, ServeDel, ServeScan, evaluation, history
  <1>3. CASE \E k \in strays : ServeStray(k) \/ LoseStray(k)
    BY <1>3 DEF ServeStray, LoseStray, evaluation, history
  <1>4. CASE \E r \in Requests : Arrive(r) \/ Evaluate(r) \/ EvaluationFails(r)
    BY <1>4 DEF Arrive, Evaluate, TokenRevokedReply, AgentDeniedReply, ConsumeNonceReply,
                EvaluationFails, history
  <1>5. CASE \E a \in Admins :
                \/ \E c \in AdminCalls : Begin(a, c)
                \/ Administer(a) \/ CallFails(a)
    BY <1>5 DEF Begin, Administer, Acknowledged, Scanned, Deleted, ScanFrom, Return, CallFails,
                evaluation, history
  <1> QED
    BY <1>1, <1>2, <1>3, <1>4, <1>5 DEF Next

LEMMA StepTimed == WireInv /\ GrantInv /\ GrantsTimed /\ [Next]_vars => GrantsTimed'
  <1> SUFFICES ASSUME WireInv, GrantInv, GrantsTimed, [Next]_vars PROVE GrantsTimed'
    OBVIOUS
  <1>1. CASE UNCHANGED <<spent, presents>>
    BY <1>1 DEF GrantsTimed, tok
  <1>2. ASSUME NEW c \in Callers, ServeSetNonce(c) PROVE GrantsTimed'
    <2>1. /\ c \in Requests /\ UNCHANGED presents
          /\ spent' \subseteq spent \cup
                {[nonce |-> tok(c).nonce, valid_until |-> tok(c).expires_at, by |-> c]}
      BY <1>2, ServeSetNonceFacts
    <2> QED
      BY <2>1 DEF GrantsTimed, tok
  <1> QED
    BY <1>1, <1>2, GrantingSteps

\* A grant carries its token's expiry.
THEOREM TimedInductive == Spec => []GrantsTimed
  <1>1. Init => GrantsTimed
    BY DEF Init, GrantsTimed
  <1> QED
    BY <1>1, StepTimed, WireInductive, GrantInductive, PTL DEF Spec

\* One request's phase follows from its own pc, decision and grant.
LEMMA PhaseStep ==
    ASSUME NEW r \in Requests,
           \A q \in Requests \ {r} :
               /\ pc'[q] = pc[q]
               /\ decision'[q] = decision[q]
               /\ Granted(q)' <=> Granted(q)
    PROVE  GatePhase' = [GatePhase EXCEPT ![r] = Phase(r)']
  <1>1. \A q \in Requests \ {r} : Phase(q)' = Phase(q)
    BY DEF Phase, Granted
  <1>2. /\ GatePhase' = [q \in Requests |-> Phase(q)']
        /\ GatePhase = [q \in Requests |-> Phase(q)]
    BY DEF GatePhase
  <1> QED
    BY <1>1, <1>2

\* The gate does not see a step that leaves the evaluations and the sets.
LEMMA StutterGate ==
    ASSUME UNCHANGED <<clock, revoked, denied, presents, pc, now, decision, spent,
                       revoked_before, denied_before>>
    PROVE  UNCHANGED Gate!gateVars
  BY DEF Gate!gateVars, Phase

LEMMA TickGate ==
    ASSUME WireInv, Tick
    PROVE  Gate!Tick
  <1>1. /\ clock' = clock + 1
        /\ UNCHANGED <<revoked, denied, presents, pc, now, decision, spent, revoked_before, denied_before>>
    BY DEF Tick, server, evaluation, history
  <1>2. clock < MaxTime
    <2>1. Horizon[crew] \in 0..MaxTime /\ MaxTime \in Nat /\ crew \in Crews
      BY RedisAssumption DEF WireInv, ServerTypes
    <2>2. Horizon[crew] \in Nat /\ Horizon[crew] <= MaxTime /\ clock \in 0..Horizon[crew]
      BY <2>1 DEF WireInv, ServerTypes
    <2> QED
      BY <2>1, <2>2 DEF Tick
  <1> QED
    BY <1>1, <1>2 DEF Gate!Tick, Phase

\* A SET is Revoke or Deny, whether its caller waits or not.
LEMMA SetGate ==
    ASSUME NEW k \in SetCommands, NEW id \in k.ids, Set(k.kind, id),
           UNCHANGED <<clock, presents, pc, now, decision, spent, revoked_before, denied_before>>
    PROVE  Gate!Next
  <1>1. CASE k.kind = "revoked" /\ k.ids \subseteq TokenIds
    <2>1. id \in TokenIds /\ revoked' = revoked \cup {id} /\ UNCHANGED denied
      BY <1>1 DEF Set
    <2>2. Gate!Revoke(id)
      BY <2>1 DEF Gate!Revoke, Phase
    <2> QED
      BY <2>1, <2>2 DEF Gate!Next
  <1>2. CASE k.kind = "denied" /\ k.ids \subseteq Agents
    <2>1. id \in Agents /\ denied' = denied \cup {id} /\ UNCHANGED revoked
      BY <1>2 DEF Set
    <2>2. Gate!Deny(id)
      BY <2>1 DEF Gate!Deny, Phase
    <2> QED
      BY <2>1, <2>2 DEF Gate!Next
  <1> QED
    BY <1>1, <1>2, KindFacts

\* A DEL is Unrevoke or Undeny; a request it frees is not barred any more.
LEMMA DelGate ==
    ASSUME WireInv, GrantInv, NEW k \in DelCommands, Del(k),
           UNCHANGED <<clock, presents, pc, now, decision, spent>>
    PROVE  Gate!Next
  <1>1. /\ \A r \in revoked_before : presents[r] \in revoked
        /\ \A r \in denied_before : tok(r).agent_id \in denied
    BY DEF WireInv, HistoryTypes, GrantInv, BarredOK
  <1>2. ASSUME NEW t \in TokenIds, k.kind = "revoked", k.ids = {t} PROVE Gate!Next
    <2>1. revoked' = revoked \ {t} /\ UNCHANGED denied
      BY <1>2 DEF Del
    <2>2. /\ revoked_before' = {r \in revoked_before : presents[r] # t}
          /\ denied_before' = denied_before
      BY <1>1, <2>1 DEF Del
    <2>3. Gate!Unrevoke(t)
      BY <2>1, <2>2 DEF Gate!Unrevoke, Phase
    <2> QED
      BY <2>3 DEF Gate!Next
  <1>3. ASSUME k.kind = "denied", k.ids \subseteq Agents PROVE Gate!Next
    <2>1. denied' = denied \ k.ids /\ UNCHANGED revoked
      BY <1>3 DEF Del
    <2>2. /\ denied_before' = {r \in denied_before : Token[presents[r]].agent_id \notin k.ids}
          /\ revoked_before' = revoked_before
      BY <1>1, <2>1 DEF Del, tok
    <2>3. [byToken |-> revoked_before', byAgent |-> denied_before']
            = [[byToken |-> revoked_before, byAgent |-> denied_before] EXCEPT
                  !.byAgent = {r \in @ : Token[presents[r]].agent_id \notin k.ids}]
      <3> DEFINE bar == [byToken |-> revoked_before, byAgent |-> denied_before]
                 left == {r \in bar.byAgent : Token[presents[r]].agent_id \notin k.ids}
      <3>1. bar.byAgent = denied_before
        OBVIOUS
      <3>2. left = denied_before'
        BY <2>2, <3>1
      <3> HIDE DEF left
      <3>3. [byToken |-> revoked_before', byAgent |-> denied_before']
              = [byToken |-> revoked_before, byAgent |-> left]
        BY <2>2, <3>2
      <3>4. [byToken |-> revoked_before, byAgent |-> left] = [bar EXCEPT !.byAgent = left]
        OBVIOUS
      <3> QED
        BY <3>3, <3>4, Zenon DEF left
    <2>4. Gate!Undeny(k.ids)
      BY <2>1, <2>3 DEF Gate!Undeny, Phase
    <2> QED
      BY <1>3, <2>4 DEF Gate!Next
  <1> QED
    BY <1>2, <1>3, KindFacts

\* SET NX EXAT answered OK is Admit, answered nil it is invisible.
LEMMA ServeSetNonceGate ==
    ASSUME WireInv, GrantInv, GrantsTimed, WholeSeconds, NEW c \in Callers, ServeSetNonce(c)
    PROVE  Gate!Next \/ UNCHANGED Gate!gateVars
  <1>1. /\ c \in Requests /\ pc[c] = "consume_nonce" /\ ~Granted(c)
        /\ UNCHANGED <<clock, presents, pc, now, decision, revoked, denied,
                       revoked_before, denied_before>>
    BY ServeSetNonceFacts
  <1>2. CASE UNCHANGED spent
    BY <1>1, <1>2, StutterGate
  <1>3. CASE /\ ~Present(tok(c).nonce)
             /\ spent' = spent \cup
                   {[nonce |-> tok(c).nonce, valid_until |-> tok(c).expires_at, by |-> c]}
    <2> DEFINE grant == [nonce |-> tok(c).nonce, valid_until |-> tok(c).expires_at, by |-> c]
    <2>0. /\ spent' = spent \cup {grant}
          /\ grant.by = c /\ grant.nonce = tok(c).nonce /\ grant.valid_until = tok(c).expires_at
      BY <1>3
    <2> HIDE DEF grant
    <2>1. \A e \in GateSpent : e.nonce = tok(c).nonce => e.valid_until < clock
      <3> SUFFICES ASSUME NEW g \in spent, g.nonce = tok(c).nonce
                   PROVE  g.valid_until < clock
        BY DEF GateSpent
      <3>1. g.valid_until \in Nat
        BY DEF WireInv, HistoryTypes, Grants
      <3>2. clock \in Nat
        <4>1. Horizon[crew] \in Nat /\ clock \in 0..Horizon[crew]
          BY RedisAssumption DEF WireInv, ServerTypes
        <4> QED
          BY <4>1
      <3>3. Timestamp(g.valid_until) = g.valid_until
        <4>1. g.by \in Requests /\ g.valid_until = Token[presents[g.by]].expires_at
          BY DEF GrantsTimed, tok
        <4>2. presents[g.by] \in TokenIds
          BY <4>1 DEF WireInv, TaskTypes
        <4> QED
          BY <4>1, <4>2 DEF WholeSeconds
      <3>4. ~(clock <= Timestamp(g.valid_until))
        BY <1>3, KeptPresent DEF GrantInv, Present
      <3> QED
        BY <3>1, <3>2, <3>3, <3>4
    <2>2. /\ Granted(c)'
          /\ \A q \in Requests \ {c} : Granted(q)' <=> Granted(q)
      BY <2>0 DEF Granted
    <2>3. decision[c] = "pending"
      BY <1>1 DEF WireInv, RequestOK
    <2>4. Phase(c) = "pending" /\ Phase(c)' = "admitted"
      BY <1>1, <2>2, <2>3 DEF Phase, Granted
    <2>5. GatePhase' = [GatePhase EXCEPT ![c] = "admitted"]
      BY <1>1, <2>2, <2>4, PhaseStep
    <2>6. GatePhase[c] = "pending"
      BY <1>1, <2>4 DEF GatePhase
    <2>7. GateSpent' = GateSpent \cup {[nonce |-> tok(c).nonce, valid_until |-> tok(c).expires_at]}
      BY <2>0 DEF GateSpent
    <2>8. Gate!Admit(c)
      BY <1>1, <2>1, <2>5, <2>6, <2>7 DEF Gate!Admit, GatePhase, GateSpent, tok
    <2> QED
      BY <1>1, <2>8 DEF Gate!Next
  <1> QED
    BY <1>2, <1>3, ServeSetNonceFacts

LEMMA ServeGate ==
    ASSUME WireInv, GrantInv, GrantsTimed, WholeSeconds, NEW c \in Callers, Serve(c)
    PROVE  Gate!Next \/ UNCHANGED Gate!gateVars
  <1>1. CASE ServeExists(c) \/ ServeScan(c)
    <2>1. UNCHANGED <<clock, revoked, denied, presents, pc, now, decision, spent,
                      revoked_before, denied_before>>
      BY <1>1 DEF ServeExists, ServeScan, server, evaluation, history
    <2> QED
      BY <2>1, StutterGate
  <1>2. CASE ServeSet(c)
    <2>1. sent[c] \in SetCommands
      BY <1>2, SenderFacts DEF ServeSet, Waiting, Adding
    <2>2. PICK id \in sent[c].ids : Set(sent[c].kind, id)
      BY <1>2 DEF ServeSet
    <2>3. UNCHANGED <<clock, presents, pc, now, decision, spent, revoked_before, denied_before>>
      BY <1>2 DEF ServeSet, evaluation
    <2> QED
      BY <2>1, <2>2, <2>3, SetGate
  <1>3. CASE ServeDel(c)
    <2>1. sent[c] \in DelCommands
      BY <1>3, SenderFacts DEF ServeDel, Waiting, Dropping, Sweeping
    <2>2. Del(sent[c]) /\ UNCHANGED <<clock, presents, pc, now, decision, spent>>
      BY <1>3 DEF ServeDel, evaluation
    <2> QED
      BY <2>1, <2>2, DelGate
  <1> QED
    BY <1>1, <1>2, <1>3, ServeSetNonceGate DEF Serve

\* A command whose caller was told of an error takes effect like any other, but
\* a stray SET NX EXAT grants nothing to anybody.
LEMMA StrayGate ==
    ASSUME WireInv, GrantInv, NEW k \in strays, ServeStray(k) \/ LoseStray(k)
    PROVE  Gate!Next \/ UNCHANGED Gate!gateVars
  <1>1. UNCHANGED <<clock, presents, pc, now, decision, spent>>
    BY DEF ServeStray, LoseStray, evaluation, history
  <1>2. CASE UNCHANGED <<revoked, denied, revoked_before, denied_before>>
    BY <1>1, <1>2, StutterGate
  <1>3. ASSUME k.cmd = "SET", NEW id \in k.ids, Set(k.kind, id),
               UNCHANGED <<revoked_before, denied_before>>
        PROVE  Gate!Next
    <2>1. k \in SetCommands
      BY <1>3 DEF WireInv, NetworkTypes, NonceCommands, DelCommands
    <2> QED
      BY <1>1, <1>3, <2>1, SetGate
  <1>4. ASSUME k.cmd = "DEL", Del(k) PROVE Gate!Next
    <2>1. k \in DelCommands
      BY <1>4 DEF WireInv, NetworkTypes, NonceCommands, SetCommands
    <2> QED
      BY <1>1, <1>4, <2>1, DelGate
  <1> QED
    BY <1>2, <1>3, <1>4 DEF ServeStray, LoseStray, server, history

LEMMA ArriveGate ==
    ASSUME WireInv, GrantInv, NEW r \in Requests, Arrive(r)
    PROVE  Gate!Submit(r)
  <1>1. /\ pc[r] = "idle" /\ pc' = [pc EXCEPT ![r] = "is_token_revoked"]
        /\ now' = [now EXCEPT ![r] = clock]
        /\ revoked_before' = revoked_before \cup {q \in {r} : presents[q] \in revoked}
        /\ denied_before' = denied_before \cup {q \in {r} : tok(q).agent_id \in denied}
        /\ UNCHANGED <<clock, spent, presents, revoked, denied, decision>>
    BY DEF Arrive, Ask, server
  <1>2. ~Granted(r) /\ ~Granted(r)' /\ decision[r] = "pending"
    BY <1>1 DEF GrantInv, GrantOK, Granted, WireInv, RequestOK
  <1>3. /\ pc'[r] = "is_token_revoked"
        /\ \A q \in Requests \ {r} : pc'[q] = pc[q] /\ (Granted(q)' <=> Granted(q))
    BY <1>1 DEF WireInv, TaskTypes, Granted
  <1>4. Phase(r) = "idle" /\ Phase(r)' = "pending"
    BY <1>1, <1>2, <1>3 DEF Phase, Granted
  <1>5. GatePhase[r] = "idle" /\ GatePhase' = [GatePhase EXCEPT ![r] = "pending"]
    <2>1. GatePhase[r] = "idle"
      BY <1>4 DEF GatePhase
    <2> QED
      BY <1>1, <1>3, <1>4, <2>1, PhaseStep
  <1>6. UNCHANGED GateSpent
    BY <1>1 DEF GateSpent
  <1> QED
    BY <1>1, <1>5, <1>6 DEF Gate!Submit, GatePhase, GateSpent, tok

\* An evaluation that goes on to its next question is invisible.
LEMMA AskGate ==
    ASSUME WireInv, GrantInv, NEW r \in Requests, NEW k,
           pc[r] \in {"is_token_revoked", "is_agent_emergency_denied"},
           NEW stage \in {"is_agent_emergency_denied", "consume_nonce"}, Ask(r, stage, k),
           UNCHANGED <<clock, revoked, denied, presents, now, spent, revoked_before, denied_before>>
    PROVE  UNCHANGED Gate!gateVars
  <1>1. /\ pc'[r] = stage /\ UNCHANGED decision
        /\ \A q \in Requests \ {r} : pc'[q] = pc[q]
    BY DEF Ask, WireInv, TaskTypes
  <1>2. \A q \in Requests : Granted(q)' <=> Granted(q)
    BY DEF Granted
  <1>3. Phase(r)' = Phase(r)
    BY <1>1, <1>2 DEF Phase, Granted
  <1>4. GatePhase' = GatePhase
    BY <1>1, <1>2, <1>3, PhaseStep DEF GatePhase
  <1> QED
    BY <1>4 DEF Gate!gateVars, GatePhase

\* A decision is Allow or Refuse.
LEMMA DecideGate ==
    ASSUME WireInv, GrantInv, NEW r \in Requests, pc[r] \notin {"idle", "decided"},
           NEW verdict \in {"allow", "deny"}, Decide(r, verdict),
           verdict = "allow" => pc[r] = "consume_nonce" /\ reply[r] = Reply("OK") /\ TokenLive(r),
           UNCHANGED <<clock, revoked, denied, presents, now, spent, revoked_before, denied_before>>
    PROVE  Gate!Next
  <1>1. /\ decision'[r] = verdict
        /\ \A q \in Requests \ {r} : pc'[q] = pc[q] /\ decision'[q] = decision[q]
    BY DEF Decide, WireInv, TaskTypes
  <1>2. \A q \in Requests : Granted(q)' <=> Granted(q)
    BY DEF Granted
  <1>3. decision[r] = "pending"
    BY DEF WireInv, RequestOK
  <1>4. /\ Phase(r) = IF Granted(r) THEN "admitted" ELSE "pending"
        /\ Phase(r)' = IF verdict = "allow" THEN "allowed" ELSE "refused"
    <2>1. Phase(r)' = IF verdict = "allow" THEN "allowed" ELSE "refused"
      BY <1>1 DEF Phase
    <2>2. Phase(r) = IF Granted(r) THEN "admitted" ELSE "pending"
      BY <1>3 DEF Phase, Granted
    <2> QED
      BY <2>1, <2>2
  <1>5. GatePhase[r] = Phase(r) /\ GatePhase' = [GatePhase EXCEPT ![r] = Phase(r)']
    <2>1. GatePhase[r] = Phase(r)
      BY DEF GatePhase
    <2> QED
      BY <1>1, <1>2, <2>1, PhaseStep
  <1>6. UNCHANGED GateSpent
    BY DEF GateSpent
  <1>7. CASE verdict = "allow"
    <2>1. Granted(r) /\ r \notin revoked_before \cup denied_before
      BY <1>7 DEF GrantInv, GrantOK, BarredOK
    <2>2. Gate!Live(Token[presents[r]], now[r])
      BY <1>7 DEF TokenLive, tok, Gate!Live
    <2>3. GatePhase[r] = "admitted" /\ GatePhase' = [GatePhase EXCEPT ![r] = "allowed"]
      BY <1>4, <1>5, <1>7, <2>1
    <2>4. Gate!Allow(r)
      BY <1>6, <2>1, <2>2, <2>3 DEF Gate!Allow, GatePhase, GateSpent
    <2> QED
      BY <2>4 DEF Gate!Next
  <1>8. CASE verdict = "deny"
    <2>1. GatePhase[r] \in {"pending", "admitted"} /\ GatePhase' = [GatePhase EXCEPT ![r] = "refused"]
      BY <1>4, <1>5, <1>8
    <2>2. Gate!Refuse(r)
      BY <1>6, <2>1 DEF Gate!Refuse, GatePhase, GateSpent
    <2> QED
      BY <2>2 DEF Gate!Next
  <1> QED
    BY <1>7, <1>8

LEMMA EvaluateGate ==
    ASSUME WireInv, GrantInv, NEW r \in Requests, Evaluate(r) \/ EvaluationFails(r)
    PROVE  Gate!Next \/ UNCHANGED Gate!gateVars
  <1>1. /\ UNCHANGED <<clock, revoked, denied, presents, now, spent, revoked_before, denied_before>>
        /\ pc[r] \notin {"idle", "decided"}
    <2>1. CASE Evaluate(r)
      BY <2>1 DEF Evaluate, TokenRevokedReply, AgentDeniedReply, ConsumeNonceReply, server, history
    <2>2. CASE EvaluationFails(r)
      BY <2>2 DEF EvaluationFails, ConnectionBreaks, WireInv, RequestOK, server, history
    <2> QED
      BY <2>1, <2>2
  <1>2. CASE Decide(r, "deny")
    BY <1>1, <1>2, DecideGate
  <1>3. CASE ConsumeNonceReply(r)
    <2>1. PICK verdict \in {"allow", "deny"} :
            /\ Decide(r, verdict)
            /\ verdict = "allow" => reply[r].value = "OK" /\ TokenLive(r)
      BY <1>3 DEF ConsumeNonceReply
    <2>2. pc[r] = "consume_nonce"
      BY <1>3 DEF ConsumeNonceReply
    <2>3. reply[r].value = "OK" => reply[r] = Reply("OK")
      <3>1. reply[r] \in {NoReply, Reply("nil"), Reply("OK")}
        BY <2>2 DEF WireInv, RequestOK
      <3> QED
        BY <3>1 DEF NoReply, Reply
    <2> QED
      BY <1>1, <2>1, <2>2, <2>3, DecideGate
  <1>4. CASE /\ pc[r] = "is_token_revoked"
             /\ \E k : Ask(r, "is_agent_emergency_denied", k)
    BY <1>1, <1>4, AskGate
  <1>5. CASE /\ pc[r] = "is_agent_emergency_denied"
             /\ \E k : Ask(r, "consume_nonce", k)
    BY <1>1, <1>5, AskGate
  <1> QED
    BY <1>2, <1>3, <1>4, <1>5 DEF Evaluate, TokenRevokedReply, AgentDeniedReply, EvaluationFails

\* The gate sees a removal or an addition when the server executes it, not the call.
LEMMA AdministrationGate ==
    ASSUME NEW a \in Admins,
           (\E c \in AdminCalls : Begin(a, c)) \/ Administer(a) \/ CallFails(a)
    PROVE  UNCHANGED Gate!gateVars
  <1>1. UNCHANGED <<clock, revoked, denied, presents, pc, now, decision, spent,
                    revoked_before, denied_before>>
    BY DEF Begin, Administer, Acknowledged, Scanned, Deleted, ScanFrom, Return, CallFails,
           server, evaluation, history
  <1> QED
    BY <1>1, StutterGate

\* Where tokens expire on whole seconds, every behaviour of evaluations over
\* Redis, with connections that break at any point and commands that arrive
\* after their callers have given up, is a behaviour of the gate.
THEOREM RedisImplementsGate ==
    ASSUME WholeSeconds
    PROVE  Spec => ImplementsGate
  <1>1. WireInv /\ GrantInv /\ GrantsTimed /\ [Next]_vars => [Gate!Next]_(Gate!gateVars)
    <2> SUFFICES ASSUME WireInv, GrantInv, GrantsTimed, [Next]_vars
                 PROVE  [Gate!Next]_(Gate!gateVars)
      OBVIOUS
    <2>1. CASE UNCHANGED vars
      <3>1. UNCHANGED <<clock, revoked, denied, presents, pc, now, decision, spent,
                        revoked_before, denied_before>>
        BY <2>1 DEF vars, server, evaluation, history
      <3> QED
        BY <3>1, StutterGate
    <2>2. CASE Tick
      BY <2>2, TickGate DEF Gate!Next
    <2>3. ASSUME NEW r \in Requests, Arrive(r) PROVE Gate!Next
      BY <2>3, ArriveGate DEF Gate!Next
    <2>4. ASSUME NEW r \in Requests, Evaluate(r) \/ EvaluationFails(r)
          PROVE  [Gate!Next]_(Gate!gateVars)
      BY <2>4, EvaluateGate
    <2>5. ASSUME NEW c \in Callers, Serve(c) PROVE [Gate!Next]_(Gate!gateVars)
      BY <2>5, ServeGate
    <2>6. ASSUME NEW k \in strays, ServeStray(k) \/ LoseStray(k)
          PROVE  [Gate!Next]_(Gate!gateVars)
      BY <2>6, StrayGate
    <2>7. ASSUME NEW a \in Admins,
                 (\E c \in AdminCalls : Begin(a, c)) \/ Administer(a) \/ CallFails(a)
          PROVE  [Gate!Next]_(Gate!gateVars)
      BY <2>7, AdministrationGate
    <2> QED
      BY <2>1, <2>2, <2>3, <2>4, <2>5, <2>6, <2>7 DEF Next
  <1> QED
    BY InitGate, <1>1, WireInductive, GrantInductive, TimedInductive, PTL
       DEF Spec, ImplementsGate, Gate!Spec
===============================================================================
