------------------------------ MODULE MCAuditLog ------------------------------
(* Small instances of AuditLog: events "e1", "e2" and "e3", the last of them
   written with an earlier timestamp than the second.  The first holds a
   character of two bytes. *)
EXTENDS AuditLog, TLC

MCText == [e1 |-> <<"lead", "continuation">>, e2 |-> <<"a", "b">>, e3 |-> <<"a">>]

MCOccurredAt == [e \in Events |-> IF e = "e2" THEN 2 ELSE 1]

\* Chunks that end at every place of a line, limits at and below what is there,
\* all events and the later ones.
MCQueries ==
    [order : {"newest_first"}, limit : {1, 3}, since : {0}, chunk : {1, 2, 3}]
        \cup [order : {"newest_first", "oldest_first"}, limit : {0, 1, 2}, since : {2}, chunk : {2}]
        \cup [order : {"oldest_first"}, limit : {1, 2, 3}, since : {0}, chunk : {1}]

NoQueries == {}

WriterSymmetry == Permutations(Writers)
===============================================================================
