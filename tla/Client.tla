-------------------------------- MODULE Client --------------------------------
(***************************************************************************)
(* TrustClient (src/src/client.rs) in front of the entry points of Adapters.  *)
(*                                                                          *)
(* The client posts one envelope, over HTTP, MCP or A2A, and reads an answer.  *)
(* Requests and answers may be lost; the reqwest client a host passes in may  *)
(* then post the same envelope again.  Each attempt is a call of Adapters.    *)
(* Calls that are not the client's come from others and are never read.      *)
(***************************************************************************)
EXTENDS Adapters

CONSTANT LibraryMessages    \* the Messages that TrustClient sends

VARIABLE conclusion         \* what each attempt has come to, for its client

clientVars == <<vars, conclusion>>

\* Ok with is_allowed() or without, or the kind of a ClientError.
Conclusions == {"allowed", "not_allowed", "network", "serialization", "invalid_response"}

\* The claims are typed, so a body of the client has no defect; the method of
\* evaluate_mcp is its caller's choice.
ASSUME LibraryAssumption ==
    /\ LibraryMessages \subseteq Messages
    /\ \A m \in LibraryMessages :
          m.defects = {} \/ (m.defects = {"not_tool_call"} /\ m.door \in {"mcp", "mcp_async", "proxy"})

Posted(c) == conclusion[c] \notin {"unsent", "serialization"}

Protocol(c) ==
    CASE message[c].door \in {"http", "http_async", "axum"} -> "http"
      [] message[c].door \in {"mcp", "mcp_async", "proxy"} -> "mcp"
      [] message[c].door \in {"a2a", "a2a_async"} -> "a2a"

ClientInit ==
    /\ Init
    /\ \/ conclusion = [c \in Calls |-> "foreign"]
       \/ /\ \E m \in LibraryMessages : message = [c \in Calls |-> m]
          /\ conclusion = [c \in Calls |-> "unsent"]

-------------------------------------------------------------------------------
(***************************************************************************)
(* Bodies, by the fields that are there with the type the client expects,     *)
(* the value of `allowed` (in the result, for MCP) and the A2A status.        *)
(***************************************************************************)
Body(fields, allowed, status) == [fields |-> fields, allowed |-> allowed, status |-> status]

NotJson == Body({}, FALSE, "none")
HttpBody(allowed) == Body({"allowed", "stage", "reason"}, allowed, "none")
RpcResult(allowed) == Body({"jsonrpc", "result", "allowed"}, allowed, "none")
RpcError == Body({"jsonrpc", "error"}, FALSE, "none")
A2aBody(status) == Body({"message_id", "status"}, FALSE, status)

\* What an inner service, an upstream or the host behind a PassThrough answers:
\* anything, and a service may well have a verdict of its own, in the very form
\* of signet's.
ForeignBodies ==
    {NotJson, RpcError} \cup
        UNION {{HttpBody(a), RpcResult(a), Body({"allowed"}, a, "none")} : a \in BOOLEAN}

\* The plain text of the proxy's own refusals is no JSON.
Bodies(c) ==
    CASE Answer(c) \in {"served", "PassThrough"} -> ForeignBodies
      [] message[c].door = "proxy" /\ Answer(c) \in {"413", "502"} -> {NotJson}
      [] Answer(c) \in {"200", "400", "403", "413", "429", "500"} /\ Protocol(c) = "http" ->
            {HttpBody(Answer(c) = "200")}
      [] Answer(c) = "result" -> {RpcResult(TRUE)}
      [] Protocol(c) = "a2a" -> {A2aBody(Answer(c))}
      [] OTHER -> {RpcError}

Told(allowed) == IF allowed THEN "allowed" ELSE "not_allowed"

\* The status code is handed on and not looked at.
parse_http_trust_response(b) ==
    IF {"allowed", "stage", "reason"} \subseteq b.fields
    THEN Told(b.allowed)
    ELSE "invalid_response"

ReadMcp(b) ==
    IF "jsonrpc" \in b.fields
    THEN Told("error" \notin b.fields /\ {"result", "allowed"} \subseteq b.fields /\ b.allowed)
    ELSE "invalid_response"

\* Mutant: a status that is not an error.
ReadA2aNoError(b) ==
    IF {"message_id", "status"} \subseteq b.fields
    THEN Told(b.status # "error")
    ELSE "invalid_response"

ReadA2a(b) ==
    IF {"message_id", "status"} \subseteq b.fields
    THEN Told(b.status = "ok")
    ELSE "invalid_response"

Read(protocol, b) ==
    CASE protocol = "http" -> parse_http_trust_response(b)
      [] protocol = "mcp" -> ReadMcp(b)
      [] protocol = "a2a" -> ReadA2a(b)

-------------------------------------------------------------------------------
(***************************************************************************)
(* evaluate_http, evaluate_mcp, evaluate_a2a.                                *)
(***************************************************************************)
Conclude(c, what) ==
    /\ conclusion' = [conclusion EXCEPT ![c] = what]
    /\ UNCHANGED vars

\* The envelope is posted, again only after an attempt came to nothing.
Post(c) ==
    /\ conclusion[c] = "unsent"
    /\ \A d \in Calls \ {c} : conclusion[d] \in {"unsent", "network"}
    /\ Conclude(c, "waiting")

\* extra_params is no object: nothing is sent.
RefuseExtraParams(c) ==
    /\ conclusion[c] = "unsent"
    /\ Protocol(c) = "mcp"
    /\ Conclude(c, "serialization")

\* A body that is cut off on its way is no JSON either.
ReadAnswer(c) ==
    /\ conclusion[c] = "waiting"
    /\ Answered(c)
    /\ \E b \in Bodies(c) \cup {NotJson} : Conclude(c, Read(Protocol(c), b))

\* The request or the answer is lost, or the client's time is up.
NetworkFails(c) ==
    /\ conclusion[c] = "waiting"
    /\ Conclude(c, "network")

\* The server dropped the call, and with it the connection.
ConnectionClosed(c) == pc[c] = "ended" /\ NetworkFails(c)

\* A request that was posted may arrive although its client has given up.
Arrived(c) == Posted(c) /\ UNCHANGED conclusion

ClientHandle(c) == Arrived(c) /\ Handle(c)

ClientNext ==
    \E c \in Calls :
        \/ Post(c) \/ RefuseExtraParams(c) \/ ReadAnswer(c) \/ NetworkFails(c)
        \/ Arrived(c) /\ Proceed(c)

ClientSpec == ClientInit /\ [][ClientNext]_clientVars

(***************************************************************************)
(* A request whose client waits arrives, and a handler that has it runs on as *)
(* long as the store answers.  Nothing is assumed of the upstream, which      *)
(* forward_to_upstream awaits without a timeout, nor of clients, who need not *)
(* post again or give up.                                                    *)
(***************************************************************************)
FairClientSpec ==
    /\ ClientSpec
    /\ \A c \in Calls :
          /\ WF_clientVars((pc[c] # "sent" \/ conclusion[c] = "waiting")
                              /\ ClientHandle(c))
          /\ WF_clientVars(ReadAnswer(c) \/ ConnectionClosed(c))

-------------------------------------------------------------------------------
(***************************************************************************)
(* Properties                                                               *)
(***************************************************************************)

\* Every variable has its type, and only a call that was answered is read.
ClientTypeOK ==
    /\ TypeOK
    /\ conclusion \in [Calls -> Conclusions \cup {"foreign", "unsent", "waiting"}]
    /\ \A c \in Calls :
          /\ conclusion[c] \in {"allowed", "not_allowed", "invalid_response"} => Answered(c)
          /\ ~Posted(c) => pc[c] = "sent"

\* The method was not a tool call: the answer is not signet's.
NotGated(c) == "not_tool_call" \in message[c].defects

\* A client believes what the audit log says: is_allowed() of a gated call
\* means that this attempt, not one before it, spent the nonce and has its allow
\* event, and a refusal means that it has none, unless the inner service of
\* TrustLayer refused in signet's form, or the sink failed behind the event.  An
\* allow that cannot be read or never arrives is an error, not a refusal.  With
\* OneAllowPerNonce: of the attempts with one envelope at most one is told that
\* it is allowed, and none is once the answer to an allowed one was lost.
ConclusionsAgreeWithAudit ==
    /\ ClientTypeOK
    /\ \A c \in Calls :
          /\ (conclusion[c] = "allowed" /\ ~NotGated(c)) => (HasSpent(c) /\ Audited(c, "allow"))
          /\ (conclusion[c] = "not_allowed" /\ ~NotGated(c) /\ Audited(c, "allow")) =>
                 outcome[c] \in {"served", "audit_sink"}

\* Every client that waits comes to a conclusion, although an attempt it has
\* given up still holds its lease, unless the call is with the upstream or the
\* inner service: the guard refuses and never makes anyone wait.
EveryPostConcludes ==
    \A c \in Calls :
        conclusion[c] = "waiting" ~>
            (conclusion[c] \in Conclusions \/ pc[c] \in {"forwarding", "delivered"})
===============================================================================
