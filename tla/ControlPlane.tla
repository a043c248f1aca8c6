----------------------------- MODULE ControlPlane -----------------------------
(***************************************************************************)
(* The operator's side: the signet command line (src/src/bin/signet.rs), the  *)
(* control plane it calls (control_plane.rs) and the receipts of              *)
(* delegation_ux.rs, over the file-backed trust state.                        *)
(*                                                                          *)
(* Each client of FileTrustState is a process that runs one command at a     *)
(* time.  A command makes its store calls in order, stops at the first that   *)
(* goes against it, and reports: it prints a decision or writes a receipt.    *)
(***************************************************************************)
EXTENDS FileTrustState, Sequences

CONSTANTS
    Commands,      \* what operators run
    Proposals,     \* contents of the proposal file, by request_id
    MaxCommands    \* bound on the commands that are run

CommandNames == {"verify_request", "revoke_token", "emergency_deny_agent",
                 "approve_grant", "approve_grant_interactive", "sign"}

\* Each command reads the arguments it needs.  worth is what the pipeline makes
\* of the request of verify_request: refused before it asks the store, after it,
\* or allowed.  decision is an argument, or what is typed at the prompt.
Command ==
    [name : CommandNames, request_id : STRING, token_id : TokenIds, agent_id : Agents,
     nonce : Nonces, valid_until : Nat, worth : {"forged", "unauthorized", "authorized"},
     decision : {"approve", "deny", "other"}]

NoCommand == [name |-> "none"]

ASSUME CommandAssumption ==
    /\ Commands \subseteq Command
    /\ Proposals # {} /\ MaxCommands \in Nat

VARIABLES
    proposal_file,  \* what the proposal file holds
    command,        \* what each process runs
    todo,           \* the store calls it has still to make
    issued_at,      \* Utc::now() as it was taken for the receipt
    shown,          \* the proposals an interactive command has shown, an Option
    reports,        \* the receipts written and the allows printed
    started,        \* how many commands were started
    known           \* history: tokens whose revocation was acknowledged when
                    \* the command started

controlVars == <<command, todo, issued_at, shown, reports, started, known>>
allVars == <<vars, proposal_file, controlVars>>

ControlInit ==
    /\ Init
    /\ proposal_file \in Proposals
    /\ command = [c \in Clients |-> NoCommand]
    /\ todo = [c \in Clients |-> <<>>]
    /\ issued_at = [c \in Clients |-> 0]
    /\ shown = [c \in Clients |-> {}]
    /\ reports = {}
    /\ started = 0
    /\ known = [c \in Clients |-> {}]

-------------------------------------------------------------------------------
(***************************************************************************)
(* Commands.                                                                *)
(***************************************************************************)

\* Mutant: the command asks for the nonce only.
StoreCallsNonceOnly(cmd) ==
    CASE cmd.name = "verify_request" -> <<"consume_nonce">>
      [] cmd.name \in {"revoke_token", "emergency_deny_agent"} -> <<cmd.name>>
      [] OTHER -> <<>>

\* What enforce_revocation_and_redelegation asks, and the admin operations.
StoreCalls(cmd) ==
    CASE cmd.name = "verify_request" /\ cmd.worth # "forged" ->
            <<"is_token_revoked", "is_agent_emergency_denied", "consume_nonce">>
      [] cmd.name \in {"revoke_token", "emergency_deny_agent"} -> <<cmd.name>>
      [] OTHER -> <<>>

\* The clock is read for the receipt before the token is revoked.
Start(c, cmd) ==
    /\ command[c] = NoCommand
    /\ started < MaxCommands
    /\ started' = started + 1
    /\ command' = [command EXCEPT ![c] = cmd]
    /\ todo' = [todo EXCEPT ![c] = StoreCalls(cmd)]
    /\ issued_at' = [issued_at EXCEPT ![c] = clock]
    /\ known' = [known EXCEPT ![c] = revoked_ok]
    /\ UNCHANGED <<vars, proposal_file, shown, reports>>

\* Mutant: the arguments are forgotten, the store calls are not.
EndKeepsCalls(c) ==
    /\ command' = [command EXCEPT ![c] = NoCommand]
    /\ todo' = [todo EXCEPT ![c] = IF @ = <<>> THEN @ ELSE Tail(@)]
    /\ issued_at' = [issued_at EXCEPT ![c] = 0]
    /\ shown' = [shown EXCEPT ![c] = {}]
    /\ known' = [known EXCEPT ![c] = {}]

\* The process exits, with whatever code.
End(c) ==
    /\ command' = [command EXCEPT ![c] = NoCommand]
    /\ todo' = [todo EXCEPT ![c] = <<>>]
    /\ issued_at' = [issued_at EXCEPT ![c] = 0]
    /\ shown' = [shown EXCEPT ![c] = {}]
    /\ known' = [known EXCEPT ![c] = {}]

CallStore(c) ==
    /\ todo[c] # <<>>
    /\ Begin(c, [op |-> Head(todo[c]), token_id |-> command[c].token_id,
                 agent_id |-> command[c].agent_id, nonce |-> command[c].nonce,
                 valid_until |-> command[c].valid_until])
    /\ UNCHANGED <<proposal_file, controlVars>>

\* Mutant: the error of the store is not looked at.
FavourableOrError(op, value) ==
    \/ op \in Reads /\ value = "false"
    \/ op = "consume_nonce" /\ value = "true"
    \/ op \in {"revoke_token", "emergency_deny_agent"}

\* Not revoked, not denied, fresh, done.  An error is never favourable: the
\* pipeline fails closed and the control plane returns its Violation.
Favourable(op, value) ==
    \/ op \in Reads /\ value = "false"
    \/ op = "consume_nonce" /\ value = "true"
    \/ op \in {"revoke_token", "emergency_deny_agent"} /\ value = "ok"

\* A store call returns a value ...
StoreReturns(c) ==
    /\ Unlock(c)
    /\ \/ /\ Favourable(call[c].op, result[c])
          /\ todo' = [todo EXCEPT ![c] = Tail(@)]
          /\ UNCHANGED <<command, issued_at, shown, known>>
       \/ ~Favourable(call[c].op, result[c]) /\ End(c)
    /\ UNCHANGED <<proposal_file, reports, started>>

\* ... or an error without having had the lock.
StoreFails(c) ==
    /\ GiveUp(c) \/ LockFails(c)
    /\ End(c)
    /\ UNCHANGED <<proposal_file, reports, started>>

\* The steps and faults of a store call that the command does not see.
StoreWorks(c) ==
    /\ \/ CreateLock(c) \/ RetryLock(c) \/ Load(c) \/ ParseFails(c)
       \/ Truncate(c) \/ Write(c)
    /\ UNCHANGED <<proposal_file, controlVars>>

StoreFaults(c) ==
    /\ ReadFails(c) \/ SaveFails(c)
    /\ UNCHANGED <<proposal_file, controlVars>>

-------------------------------------------------------------------------------
(***************************************************************************)
(* Receipts and reports.                                                    *)
(***************************************************************************)

\* issue_consent_receipt and issue_revocation_receipt; the id is made of the
\* request and the second.
Receipt(request_id, status, at, token_id) ==
    [receipt_id |-> <<request_id, at>>, request_id |-> request_id,
     status |-> status, issued_at |-> at, token_id |-> token_id]

ApprovalStatus(decision) == IF decision = "approve" THEN "Approved" ELSE "Denied"

Approval(c) == command[c].name \in {"approve_grant", "approve_grant_interactive"}
Prompted(c) == command[c].name = "approve_grant_interactive" => shown[c] # {}

\* What is signed, refused or denied is reported too, but nothing follows from it.
ReportOf(c) ==
    LET cmd == command[c] IN
    CASE cmd.name = "revoke_token" ->
            {Receipt(cmd.request_id, "Revoked", issued_at[c], cmd.token_id)}
      [] Approval(c) ->
            {Receipt(proposal_file, ApprovalStatus(cmd.decision), clock, "none")}
      [] cmd.name = "verify_request" /\ cmd.worth = "authorized" ->
            {[status |-> "allowed", token_id |-> cmd.token_id, nonce |-> cmd.nonce,
              known |-> known[c]]}
      [] OTHER -> {}

Finished(c) ==
    /\ command[c] # NoCommand /\ pc[c] = "idle" /\ todo[c] = <<>>

\* approve_grant_interactive_command reads the proposal and prints it; the
\* answer is typed some time later, and approve_grant_command reads it again.
ShowProposal(c) ==
    /\ Finished(c)
    /\ command[c].name = "approve_grant_interactive" /\ shown[c] = {}
    /\ shown' = [shown EXCEPT ![c] = {proposal_file}]
    /\ UNCHANGED <<vars, proposal_file, command, todo, issued_at, reports, started, known>>

\* parse_approval_decision: neither approve nor deny.
RefuseDecision(c) ==
    /\ Finished(c) /\ Prompted(c)
    /\ Approval(c) /\ command[c].decision = "other"
    /\ End(c)
    /\ UNCHANGED <<vars, proposal_file, reports, started>>

Report(c) ==
    /\ Finished(c) /\ Prompted(c)
    /\ Approval(c) => command[c].decision # "other"
    /\ reports' = reports \cup ReportOf(c)
    /\ End(c)
    /\ UNCHANGED <<vars, proposal_file, started>>

\* An input that cannot be read or parsed, or an output that cannot be written.
ReportFails(c) ==
    /\ Finished(c)
    /\ End(c)
    /\ UNCHANGED <<vars, proposal_file, reports, started>>

EditProposal(p) ==
    /\ proposal_file # p
    /\ proposal_file' = p
    /\ UNCHANGED <<vars, controlVars>>

Kill(c) ==
    /\ command[c] # NoCommand
    /\ Crash(c) \/ (pc[c] = "idle" /\ UNCHANGED vars)
    /\ End(c)
    /\ UNCHANGED <<proposal_file, reports, started>>

Around == (RemoveStaleLock \/ Tick) /\ UNCHANGED <<proposal_file, controlVars>>

\* What a process does by itself.
Run(c) ==
    \/ CallStore(c) \/ StoreWorks(c) \/ StoreReturns(c)
    \/ GiveUp(c) /\ StoreFails(c)
    \/ ShowProposal(c)
    \/ shown[c] = {} /\ (Report(c) \/ RefuseDecision(c))

ControlNext ==
    \/ \E c \in Clients :
          \/ \E cmd \in Commands : Start(c, cmd)
          \/ CallStore(c) \/ StoreWorks(c) \/ StoreFaults(c)
          \/ StoreReturns(c) \/ StoreFails(c)
          \/ ShowProposal(c) \/ RefuseDecision(c) \/ Report(c) \/ ReportFails(c) \/ Kill(c)
    \/ \E p \in Proposals : EditProposal(p)
    \/ Around

ControlSpec == ControlInit /\ [][ControlNext]_allVars

(***************************************************************************)
(* A process runs on; nobody needs to answer a prompt, start a command or     *)
(* remove a lock file, and no fault ever helps a command along.               *)
(***************************************************************************)
FairControlSpec == ControlSpec /\ \A c \in Clients : WF_allVars(Run(c))

-------------------------------------------------------------------------------
(***************************************************************************)
(* Properties                                                               *)
(***************************************************************************)

\* Every variable has its type; a process without a command calls nothing, and
\* the call in progress is the next one of its command.
ControlTypeOK ==
    /\ proposal_file \in Proposals
    /\ \A c \in Clients :
          /\ command[c] \in Commands \cup {NoCommand}
          /\ issued_at[c] \in 0 .. clock
          /\ shown[c] \subseteq Proposals
          /\ known[c] \subseteq revoked_ok
          /\ command[c] = NoCommand => (todo[c] = <<>> /\ pc[c] = "idle")
          /\ pc[c] # "idle" => (todo[c] # <<>> /\ call[c].op = Head(todo[c]))
    /\ started \in 0 .. MaxCommands

Reported(status) == {r \in reports : r.status = status}

\* A revocation receipt is never issued for a token that is not revoked: not
\* after an error, a timeout on the lock or a write that failed half way, and
\* no process that works on an older copy of the file takes it back.  Once the
\* file is damaged nothing is allowed any more.
ReceiptsAreTrue ==
    \A r \in Reported("Revoked") :
        /\ r.token_id \in revoked_ok
        /\ file_status # "damaged" => r.token_id \in file_content.revoked_token_ids

\* verify_request says "allowed" only of a request whose nonce it has consumed
\* and whose token was not known to be revoked when it started: a receipt, once
\* written, holds for every command that starts after it.
AllowedAfterAsking ==
    \A r \in Reported("allowed") :
        /\ \E g \in granted : g.nonce = r.nonce
        /\ r.token_id \notin r.known

\* Every command ends, also behind a lock file that nobody removes, unless it
\* waits for its operator to type.
EveryCommandEnds ==
    \A c \in Clients :
        command[c] # NoCommand ~> (command[c] = NoCommand \/ shown[c] # {})
===============================================================================
