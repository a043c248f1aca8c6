------------------------------ MODULE TrustState ------------------------------
(***************************************************************************)
(* The trust state of signet and the operations on it that the in-memory    *)
(* and the file-backed store share (src/src/revocation.rs).  Both stores    *)
(* keep a set of revoked token ids, a set of emergency-denied agents and a  *)
(* map from consumed nonces to the expiry of the token that consumed them.  *)
(* The map is a set of entries here; that no nonce has two entries is what  *)
(* makes it a map, and follows from Consumed being tested before Consume.   *)
(***************************************************************************)
EXTENDS Integers

CONSTANTS
    TokenIds,     \* token_id values
    Agents,       \* agent_id values
    Nonces        \* nonce values

NonceEntry == [nonce : Nonces, valid_until : Nat]

\* Mutant: an entry is dropped at its expiry, not after it.
RetainAfter(entries, reference) == {e \in entries : e.valid_until > reference}

(***************************************************************************)
(* retain(|_, expires_at| *expires_at >= reference)                         *)
(***************************************************************************)
Retain(entries, reference) == {e \in entries : e.valid_until >= reference}

\* Mutant: prune against the presented token's expiry, whatever the time.
PruneBeforeExpiry(utcNow, valid_until) == valid_until

(***************************************************************************)
(* std::cmp::min(Utc::now(), valid_until): the reference consume_nonce      *)
(* prunes against, which never lies beyond the presented token's expiry.    *)
(***************************************************************************)
PruneBefore(utcNow, valid_until) ==
    IF utcNow <= valid_until THEN utcNow ELSE valid_until

ContainsKey(entries, nonce) == \E e \in entries : e.nonce = nonce

(***************************************************************************)
(* consume_nonce on the map itself: prune first, then test, then insert.    *)
(***************************************************************************)
Pruned(entries, utcNow, valid_until) ==
    Retain(entries, PruneBefore(utcNow, valid_until))

IsFresh(entries, nonce, utcNow, valid_until) ==
    ~ContainsKey(Pruned(entries, utcNow, valid_until), nonce)

Consume(entries, nonce, utcNow, valid_until) ==
    IF IsFresh(entries, nonce, utcNow, valid_until)
    THEN Pruned(entries, utcNow, valid_until)
             \cup {[nonce |-> nonce, valid_until |-> valid_until]}
    ELSE Pruned(entries, utcNow, valid_until)
===============================================================================
