------------------------------ MODULE Discovery ------------------------------
(***************************************************************************)
(* The discovery service (src/src/discovery.rs): issuer metadata by issuer,   *)
(* identity documents by agent, and the lookups it answers over HTTP.        *)
(*                                                                          *)
(* A lookup names its path and its query parameters, each an Option.  An     *)
(* answer is the status with what it found, if anything.                     *)
(***************************************************************************)
EXTENDS RequestChecks

Insert(map, key, value) ==
    [k \in DOMAIN map \cup {key} |-> IF k = key THEN value ELSE map[k]]

EmptyMap == [k \in {} |-> None]
NewService == [issuer_metadata |-> EmptyMap, registry |-> EmptyMap]

register_issuer_metadata(service, metadata) ==
    [service EXCEPT !.issuer_metadata = Insert(@, metadata.issuer, metadata)]

register_identity_document(service, d) ==
    [service EXCEPT !.registry = Insert(@, d.agent_id, d)]

Found(map, key) == {map[k] : k \in DOMAIN map \cap {key}}

\* Mutant: only the signing key of the document is published.
build_jwks_document_primary(d) ==
    Some([i \in {1} |-> [kid |-> d.public_keys[1].kid, x |-> d.public_keys[1].x]])

\* None where some key cannot be converted.
build_jwks_document(d) ==
    LET keys == d.public_keys IN
    IF \A i \in DOMAIN keys : keys[i].kty = "OKP" /\ keys[i].crv = Some("Ed25519") /\ keys[i].x # None
    THEN Some([i \in DOMAIN keys |-> [kid |-> keys[i].kid, x |-> keys[i].x]])
    ELSE None

\* The url of the first endpoint that speaks the protocol.
resolve_agent_endpoint(d, protocol) ==
    {d.endpoints[i].url : i \in
        {j \in DOMAIN d.endpoints :
            /\ d.endpoints[j].protocol = protocol
            /\ \A k \in 1 .. j - 1 : d.endpoints[k].protocol # protocol}}

-------------------------------------------------------------------------------
Answer(status, found) == [status_code |-> status, found |-> found]
Bad(status) == Answer(status, None)
OkOr(status, found) == IF found = None THEN Bad(status) ELSE Answer(200, found)

\* Without a parameter the only issuer is meant, if there is just one.
serve_issuer_metadata(service, lookup) ==
    LET known == DOMAIN service.issuer_metadata
        asked == IF lookup.issuer = None /\ Cardinality(known) = 1 THEN known ELSE lookup.issuer
    IN  IF asked = None \/ lookup.issuer = Some(Blank)
        THEN Bad(400)
        ELSE OkOr(404, UNION {Found(service.issuer_metadata, i) : i \in asked})

serve_jwks(service, lookup) ==
    IF lookup.agent_id = None \/ lookup.agent_id = Some(Blank) THEN Bad(400)
    ELSE LET documents == UNION {Found(service.registry, a) : a \in lookup.agent_id}
         IN  IF documents = None THEN Bad(404)
             ELSE OkOr(422, UNION {build_jwks_document(d) : d \in documents})

serve_registry_lookup(service, lookup) ==
    IF lookup.agent_id = Some(Blank) THEN Bad(400)
    ELSE OkOr(404, UNION {Found(service.registry, a) : a \in lookup.agent_id})

serve_resolution_lookup(service, lookup) ==
    IF lookup.agent_id = Some(Blank) \/ lookup.protocol = None \/ lookup.protocol = Some(Blank)
    THEN Bad(400)
    ELSE OkOr(404,
            UNION {resolve_agent_endpoint(d, p) :
                      d \in UNION {Found(service.registry, a) : a \in lookup.agent_id},
                      p \in lookup.protocol})

handle_discovery_http_request(service, lookup) ==
    CASE lookup.method # "GET" -> Bad(405)
      [] lookup.method = "GET" /\ lookup.path = "issuer" -> serve_issuer_metadata(service, lookup)
      [] lookup.method = "GET" /\ lookup.path = "jwks" -> serve_jwks(service, lookup)
      [] lookup.method = "GET" /\ lookup.path = "registry" -> serve_registry_lookup(service, lookup)
      [] lookup.method = "GET" /\ lookup.path = "resolve" -> serve_resolution_lookup(service, lookup)
      [] OTHER -> Bad(404)
===============================================================================
