--------------------------- MODULE TrustStateProofs ---------------------------
(***************************************************************************)
(* What pruning and consuming do to a map of nonces, for the proofs about    *)
(* the stores that are built from TrustState.                                *)
(***************************************************************************)
EXTENDS TrustState, TLAPS

\* retain keeps every entry that expires at the reference or after it, and
\* nothing that was not there.
LEMMA RetainFacts ==
    ASSUME NEW E \in SUBSET NonceEntry, NEW reference \in Nat
    PROVE  /\ Retain(E, reference) \subseteq E
           /\ \A e \in E : e.valid_until >= reference => e \in Retain(E, reference)
  BY DEF Retain

\* Pruning keeps every entry that has not expired: the reference consume_nonce
\* prunes against is never later than the clock.
LEMMA PrunedKeeps ==
    ASSUME NEW E, NEW utcNow \in Nat, NEW until \in Nat, NEW e \in E,
           e.valid_until \in Nat, e.valid_until >= utcNow
    PROVE  e \in Pruned(E, utcNow, until)
  BY DEF Pruned, Retain, PruneBefore

\* consume_nonce leaves a map of nonces.
LEMMA ConsumeType ==
    ASSUME NEW E \in SUBSET NonceEntry, NEW n \in Nonces,
           NEW utcNow \in Nat, NEW until \in Nat
    PROVE  Consume(E, n, utcNow, until) \in SUBSET NonceEntry
  BY DEF Consume, Pruned, Retain, NonceEntry

\* consume_nonce adds at most the presented entry, keeps what has not expired,
\* and, when it finds the nonce fresh, records it.
LEMMA ConsumeFacts ==
    ASSUME NEW E \in SUBSET NonceEntry, NEW n \in Nonces,
           NEW utcNow \in Nat, NEW until \in Nat
    PROVE  /\ Consume(E, n, utcNow, until) \in SUBSET NonceEntry
           /\ \A e \in E : e.valid_until >= utcNow => e \in Consume(E, n, utcNow, until)
           /\ IsFresh(E, n, utcNow, until) =>
                /\ [nonce |-> n, valid_until |-> until] \in Consume(E, n, utcNow, until)
                /\ \A e \in E : e.nonce = n => e.valid_until < utcNow
  <1>1. Pruned(E, utcNow, until) \subseteq NonceEntry
    BY DEF Pruned, Retain, NonceEntry
  <1>2. \A e \in E : e.valid_until >= utcNow => e \in Pruned(E, utcNow, until)
    BY PrunedKeeps DEF NonceEntry
  <1>3. [nonce |-> n, valid_until |-> until] \in NonceEntry
    BY DEF NonceEntry
  <1>4. ASSUME IsFresh(E, n, utcNow, until), NEW e \in E, e.nonce = n
        PROVE  e.valid_until < utcNow
    <2>1. e \notin Pruned(E, utcNow, until)
      BY <1>4 DEF IsFresh, ContainsKey
    <2>2. ~(e.valid_until >= utcNow)
      BY <1>2, <2>1
    <2>3. e.valid_until \in Nat
      BY DEF NonceEntry
    <2> QED
      BY <2>2, <2>3
  <1> QED
    BY <1>1, <1>2, <1>3, <1>4 DEF Consume
===============================================================================
