------------------------------- MODULE AuditLog -------------------------------
(***************************************************************************)
(* The JSONL audit log (JsonlFileAuditSink in src/src/audit.rs).            *)
(*                                                                          *)
(* write_event opens the file for appending and runs writeln!, which makes  *)
(* two writes: the encoded event, then the newline.  No lock spans them, so *)
(* writes of other threads and processes fall in between, and a crash or a  *)
(* full disk may leave either half out or cut the event short.              *)
(*                                                                          *)
(* read_events runs while others write.  Its two loops are processes of     *)
(* their own: the backward reader takes the chunk before its position, puts *)
(* it before what is left of the one after it, and walks the segments from   *)
(* the right; the forward scan takes line after line until a read finds      *)
(* nothing more.                                                            *)
(***************************************************************************)
EXTENDS Integers, Sequences, FiniteSets

CONSTANTS
    Writers,       \* threads and processes appending to the file
    Readers,       \* calls of read_events
    Events,        \* the events that are written, each once
    Text,          \* [Events -> the bytes serde_json::to_string makes of them]
    OccurredAt,    \* [Events -> occurred_at]
    Lead,          \* bytes that begin a character of two bytes
    Continuation,  \* bytes that end one
    Faults,        \* whether writes fail or are cut short
    Queries        \* what readers ask for

Newline == "newline"

\* from_utf8: a character that was cut short is not one.
ValidUtf8(line) ==
    \A i \in DOMAIN line :
        /\ line[i] \in Lead => i < Len(line) /\ line[i + 1] \in Continuation
        /\ line[i] \in Continuation => i > 1 /\ line[i - 1] \in Lead

\* An AuditQuery; since is 0 where the code has None.  CHUNK, 65,536 in the
\* code, is a field so that one run takes several sizes.
Query == [order : {"newest_first", "oldest_first"}, limit : Nat, since : Nat, chunk : Nat \ {0}]

Bytes == {Newline} \cup UNION {{Text[e][i] : i \in DOMAIN Text[e]} : e \in Events}

ASSUME EventAssumption ==
    /\ \A e \in Events :
          /\ Text[e] \in Seq(Bytes \ {Newline}) /\ Text[e] # <<>>
          /\ ValidUtf8(Text[e])
    /\ OccurredAt \in [Events -> Nat]
    /\ Faults \in BOOLEAN
    /\ Queries \subseteq Query

VARIABLES
    file,          \* the bytes of the file
    pc,            \* of each writer: "idle", "line" or "newline"
    writing,       \* the event each writer is at
    unwritten,     \* the events nobody has begun to write
    acked,         \* history: the events whose write_event returned Ok
    (* Of each reader. *)
    at,            \* where it is
    query,         \* what it was asked
    file_len,      \* the length of the file when it began
    pos,           \* how far it has read
    working,       \* the bytes it has read and not yet split
    found          \* the events it has collected

sink == <<pc, writing, unwritten, acked>>
reading == <<at, query, file_len, pos, working, found>>
vars == <<file, sink, reading>>

Init ==
    /\ file = <<>>
    /\ pc = [w \in Writers |-> "idle"]
    /\ writing \in [Writers -> Events]
    /\ unwritten = Events
    /\ acked = {}
    /\ at = [r \in Readers |-> "idle"]
    /\ query \in [Readers -> Queries]
    /\ file_len = [r \in Readers |-> 0]
    /\ pos = [r \in Readers |-> 0]
    /\ working = [r \in Readers |-> <<>>]
    /\ found = [r \in Readers |-> <<>>]

-------------------------------------------------------------------------------
(***************************************************************************)
(* write_event                                                              *)
(***************************************************************************)
Open(w, e) ==
    /\ pc[w] = "idle"
    /\ e \in unwritten
    /\ pc' = [pc EXCEPT ![w] = "line"]
    /\ writing' = [writing EXCEPT ![w] = e]
    /\ unwritten' = unwritten \ {e}
    /\ UNCHANGED <<file, acked, reading>>

WriteLine(w) ==
    /\ pc[w] = "line"
    /\ file' = file \o Text[writing[w]]
    /\ pc' = [pc EXCEPT ![w] = "newline"]
    /\ UNCHANGED <<writing, unwritten, acked, reading>>

WriteNewline(w) ==
    /\ pc[w] = "newline"
    /\ file' = Append(file, Newline)
    /\ pc' = [pc EXCEPT ![w] = "idle"]
    /\ acked' = acked \cup {writing[w]}
    /\ UNCHANGED <<writing, unwritten, reading>>

\* The open, one of the writes or the process fails: the caller gets an error
\* or is gone.  Of the event, nothing or its first part has been written.
Fail(w) ==
    /\ Faults
    /\ \/ /\ pc[w] = "line"
          /\ \E n \in 0 .. Len(Text[writing[w]]) - 1 :
                file' = file \o SubSeq(Text[writing[w]], 1, n)
       \/ /\ pc[w] = "newline"
          /\ UNCHANGED file
    /\ pc' = [pc EXCEPT ![w] = "idle"]
    /\ UNCHANGED <<writing, unwritten, acked, reading>>

-------------------------------------------------------------------------------
(***************************************************************************)
(* read_events                                                              *)
(***************************************************************************)

\* serde_json::from_str finds event e, whole and nothing else, in the line, and
\* it is not older than asked.  A line that is not UTF-8 is no event's text.
Matches(line, since, e) == line = Text[e] /\ OccurredAt[e] >= since

\* The event of the line, if there is one, is pushed.
Collect(r, line) ==
    \/ \E e \in Events :
          /\ Matches(line, query[r].since, e)
          /\ found' = [found EXCEPT ![r] = Append(@, e)]
    \/ /\ \A e \in Events : ~Matches(line, query[r].since, e)
       /\ UNCHANGED found

LimitReached(r) == Len(found'[r]) >= query[r].limit

\* A file that is missing or empty has nothing to return, nor has a limit of 0.
ReadEvents(r) ==
    /\ at[r] = "idle"
    /\ file_len' = [file_len EXCEPT ![r] = Len(file)]
    /\ \/ /\ query[r].limit = 0 \/ file = <<>>
          /\ at' = [at EXCEPT ![r] = "ok"]
          /\ UNCHANGED pos
       \/ /\ query[r].limit > 0 /\ query[r].order = "oldest_first"
          /\ at' = [at EXCEPT ![r] = "lines"]
          /\ UNCHANGED pos
       \/ /\ query[r].limit > 0 /\ query[r].order = "newest_first" /\ file # <<>>
          /\ at' = [at EXCEPT ![r] = "chunk"]
          /\ pos' = [pos EXCEPT ![r] = Len(file)]
    /\ UNCHANGED <<file, sink, query, working, found>>

\* read_newest_first reads the chunk before pos.  working holds the left_fragment.
\* Mutant: the fragment is forgotten.
ReadChunkForgetting(r) ==
    /\ at[r] = "chunk"
    /\ LET start == IF pos[r] > query[r].chunk THEN pos[r] - query[r].chunk ELSE 0 IN
       /\ working' = [working EXCEPT ![r] = SubSeq(file, start + 1, pos[r])]
       /\ pos' = [pos EXCEPT ![r] = start]
    /\ at' = [at EXCEPT ![r] = "segments"]
    /\ UNCHANGED <<file, sink, query, file_len, found>>

ReadChunk(r) ==
    /\ at[r] = "chunk"
    /\ LET start == IF pos[r] > query[r].chunk THEN pos[r] - query[r].chunk ELSE 0 IN
       /\ working' = [working EXCEPT ![r] = SubSeq(file, start + 1, pos[r]) \o @]
       /\ pos' = [pos EXCEPT ![r] = start]
    /\ at' = [at EXCEPT ![r] = "segments"]
    /\ UNCHANGED <<file, sink, query, file_len, found>>

\* The rightmost of the segments that are left is walked, which begins after
\* the last newline; the leftmost only where the file begins with it.
WalkSegment(r) ==
    /\ at[r] = "segments"
    /\ \E cut \in 0 .. Len(working[r]) :
          /\ IF cut = 0 THEN pos[r] = 0 ELSE working[r][cut] = Newline
          /\ \A i \in cut + 1 .. Len(working[r]) : working[r][i] # Newline
          /\ Collect(r, SubSeq(working[r], cut + 1, Len(working[r])))
          /\ working' = [working EXCEPT ![r] = SubSeq(@, 1, cut - 1)]
          /\ at' = [at EXCEPT ![r] = IF LimitReached(r) \/ cut = 0 THEN "ok" ELSE "segments"]
    /\ UNCHANGED <<file, sink, query, file_len, pos>>

\* The leftmost segment is the left_fragment of the next round.
KeepFragment(r) ==
    /\ at[r] = "segments"
    /\ pos[r] > 0
    /\ \A i \in DOMAIN working[r] : working[r][i] # Newline
    /\ at' = [at EXCEPT ![r] = "chunk"]
    /\ UNCHANGED <<file, sink, query, file_len, pos, working, found>>

\* The forward scan reads the next line: up to a newline, or to where the file
\* ends by then.  A line that is not UTF-8 ends it with an error.
\* Mutant: a line that is no event ends the scan instead of being skipped.
NextLineStopping(r) ==
    /\ at[r] = "lines"
    /\ pos[r] < Len(file)
    /\ \E end \in pos[r] + 1 .. Len(file) + 1 :
          /\ end <= Len(file) => file[end] = Newline
          /\ \A i \in pos[r] + 1 .. end - 1 : file[i] # Newline
          /\ pos' = [pos EXCEPT ![r] = IF end <= Len(file) THEN end ELSE Len(file)]
          /\ Collect(r, SubSeq(file, pos[r] + 1, end - 1))
          /\ at' = [at EXCEPT ![r] = IF LimitReached(r) \/ found' = found THEN "ok" ELSE "lines"]
    /\ UNCHANGED <<file, sink, query, file_len, working>>

NextLine(r) ==
    /\ at[r] = "lines"
    /\ pos[r] < Len(file)
    /\ \E end \in pos[r] + 1 .. Len(file) + 1 :
          /\ end <= Len(file) => file[end] = Newline
          /\ \A i \in pos[r] + 1 .. end - 1 : file[i] # Newline
          /\ pos' = [pos EXCEPT ![r] = IF end <= Len(file) THEN end ELSE Len(file)]
          /\ LET line == SubSeq(file, pos[r] + 1, end - 1) IN
             \/ /\ ValidUtf8(line)
                /\ Collect(r, line)
                /\ at' = [at EXCEPT ![r] = IF LimitReached(r) THEN "ok" ELSE "lines"]
             \/ /\ ~ValidUtf8(line)
                /\ at' = [at EXCEPT ![r] = "error"]
                /\ UNCHANGED found
    /\ UNCHANGED <<file, sink, query, file_len, working>>

EndOfFile(r) ==
    /\ at[r] = "lines"
    /\ pos[r] = Len(file)
    /\ at' = [at EXCEPT ![r] = "ok"]
    /\ UNCHANGED <<file, sink, query, file_len, pos, working, found>>

Next ==
    \/ \E w \in Writers :
          \/ \E e \in Events : Open(w, e)
          \/ WriteLine(w)
          \/ WriteNewline(w)
          \/ Fail(w)
    \/ \E r \in Readers :
          \/ ReadEvents(r)
          \/ ReadChunk(r)
          \/ WalkSegment(r)
          \/ KeepFragment(r)
          \/ NextLine(r)
          \/ EndOfFile(r)

Spec == Init /\ [][Next]_vars

-------------------------------------------------------------------------------
(***************************************************************************)
(* Properties                                                               *)
(***************************************************************************)

\* Every variable has its type.
TypeOK ==
    /\ file \in Seq(Bytes)
    /\ pc \in [Writers -> {"idle", "line", "newline"}]
    /\ writing \in [Writers -> Events]
    /\ unwritten \subseteq Events
    /\ acked \subseteq Events
    /\ at \in [Readers -> {"idle", "chunk", "segments", "lines", "ok", "error"}]
    /\ query \in [Readers -> Queries]
    /\ file_len \in [Readers -> 0 .. Len(file)]
    /\ pos \in [Readers -> 0 .. Len(file)]
    /\ working \in [Readers -> Seq(Bytes)]
    /\ found \in [Readers -> Seq(Events)]

\* Event e is the line that begins at i.
EventAt(bytes, i, e) ==
    LET end == i + Len(Text[e]) - 1 IN
    /\ end <= Len(bytes)
    /\ SubSeq(bytes, i, end) = Text[e]
    /\ i = 1 \/ bytes[i - 1] = Newline
    /\ end = Len(bytes) \/ bytes[end + 1] = Newline

\* Where the lines begin that hold an event not older than asked.
Recorded(bytes, since) ==
    {i \in DOMAIN bytes : \E e \in Events : OccurredAt[e] >= since /\ EventAt(bytes, i, e)}

\* The n-th event is the one recorded at where[n], for all n.
Holds(bytes, events, where) == \A n \in DOMAIN where : EventAt(bytes, where[n], events[n])

\* events are all that are recorded, or the last limit of them, newest first.
Newest(events, bytes, limit, since) ==
    /\ Len(events) <= limit
    /\ \E where \in [DOMAIN events -> Recorded(bytes, since)] :
          /\ Holds(bytes, events, where)
          /\ \A m, n \in DOMAIN events : m < n => where[n] < where[m]
          /\ \A i \in Recorded(bytes, since) :
                \/ \E n \in DOMAIN events : where[n] = i
                \/ Len(events) = limit /\ \A n \in DOMAIN events : i < where[n]

\* The first k events are all that are recorded, or the first limit of them, oldest
\* first.
OldestAmong(k, events, bytes, limit, since) ==
    /\ k <= limit
    /\ \E where \in [1 .. k -> Recorded(bytes, since)] :
          /\ Holds(bytes, events, where)
          /\ \A m, n \in 1 .. k : m < n => where[m] < where[n]
          /\ \A i \in Recorded(bytes, since) :
                \/ \E n \in 1 .. k : where[n] = i
                \/ k = limit /\ \A n \in 1 .. k : where[n] < i

Answered(r, order) == at[r] = "ok" /\ query[r].order = order

\* read_newest_first, whatever its chunk size cuts through, returns the last
\* `limit` events of the lines that parse, newest first, of the file as it was
\* when it was opened.  No event is lost or returned twice at a chunk boundary,
\* whatever concurrent writers and failed writes have left in the file or add to
\* it meanwhile.
NewestFirstIsExact ==
    /\ TypeOK
    /\ \A r \in Readers :
          Answered(r, "newest_first") =>
              Newest(found[r], SubSeq(file, 1, file_len[r]), query[r].limit, query[r].since)

\* "every allow and deny is written to a structured JSONL audit log": an
\* event whose write_event returned Ok is there for the readers.
AcknowledgedIsReadable ==
    \A e \in acked : \E i \in DOMAIN file : EventAt(file, i, e)

\* A forward scan that answers at all, which it does not at a line that is not
\* UTF-8, begins with exactly the events of the lines that were complete when it
\* was opened, whatever is added meanwhile; and where nothing was added it
\* returns the events the backward reader finds in the same bytes, in the
\* opposite order.
OldestFirstIsExact ==
    \A r \in Readers :
        Answered(r, "oldest_first") =>
            LET limit == query[r].limit
                since == query[r].since
            IN  /\ \A n \in {i \in 1 .. file_len[r] : file[i] = Newline} :
                      \E k \in 0 .. Len(found[r]) :
                          OldestAmong(k, found[r], SubSeq(file, 1, n), limit, since)
                /\ Len(file) = file_len[r] =>
                      OldestAmong(Len(found[r]), found[r], file, limit, since)
===============================================================================
