---------------------------- MODULE AuditLogProofs ----------------------------
(***************************************************************************)
(* Theorems about AuditLog, for every number of writers and readers, every    *)
(* encoding of events that has no newline in it, and every chunk size, limit  *)
(* and query: both readers are exact while others write.  And one writer who  *)
(* never fails loses nothing.                                                *)
(***************************************************************************)
EXTENDS AuditLog, SequenceTheorems, TLAPS

-------------------------------------------------------------------------------
(***************************************************************************)
(* Lines                                                                    *)
(***************************************************************************)

\* A text has a byte, and none of its bytes is a newline.
LEMMA TextFacts ==
    ASSUME NEW e \in Events
    PROVE  /\ Text[e] \in Seq(Bytes)
           /\ Len(Text[e]) \in Nat /\ Len(Text[e]) >= 1
           /\ \A m \in 1 .. Len(Text[e]) : Text[e][m] # Newline
  <1>1. Text[e] \in Seq(Bytes \ {Newline}) /\ Text[e] # <<>>
    BY EventAssumption
  <1>2. Len(Text[e]) \in Nat \ {0}
    BY <1>1, EmptySeq
  <1>3. \A m \in 1 .. Len(Text[e]) : Text[e][m] \in Bytes \ {Newline}
    BY <1>1, ElementOfSeq
  <1>4. Text[e] \in Seq(Bytes)
    BY <1>1, SeqMonotonic
  <1> QED
    BY <1>2, <1>3, <1>4

\* Being a text, byte by byte.
LEMMA SliceIsText ==
    ASSUME NEW bytes \in Seq(Bytes), NEW e \in Events,
           NEW i \in Int, NEW j \in Int, 1 <= i, j <= Len(bytes)
    PROVE  SubSeq(bytes, i, j) = Text[e] <=>
               /\ Len(Text[e]) = j - i + 1
               /\ \A m \in 1 .. Len(Text[e]) : bytes[i + m - 1] = Text[e][m]
  <1> DEFINE slice == SubSeq(bytes, i, j)
  <1>1. \A k \in i .. j : bytes[k] \in Bytes
    BY ElementOfSeq
  <1>2. /\ slice \in Seq(Bytes)
        /\ Len(slice) = IF i <= j THEN j - i + 1 ELSE 0
        /\ \A k \in 1 .. j - i + 1 : slice[k] = bytes[i + k - 1]
    BY <1>1, SubSeqProperties
  <1>3. Text[e] \in Seq(Bytes) /\ Len(Text[e]) \in Nat /\ Len(Text[e]) >= 1
    BY TextFacts
  <1> HIDE DEF slice
  <1>4. ASSUME slice = Text[e]
        PROVE  /\ Len(Text[e]) = j - i + 1
               /\ \A m \in 1 .. Len(Text[e]) : bytes[i + m - 1] = Text[e][m]
    <2>1. i <= j /\ Len(Text[e]) = j - i + 1
      BY <1>2, <1>3, <1>4
    <2> QED
      BY <1>2, <1>4, <2>1
  <1>5. ASSUME Len(Text[e]) = j - i + 1,
               \A m \in 1 .. Len(Text[e]) : bytes[i + m - 1] = Text[e][m]
        PROVE  slice = Text[e]
    <2>1. Len(slice) = Len(Text[e])
      BY <1>2, <1>3, <1>5
    <2>2. \A k \in 1 .. Len(slice) : slice[k] = Text[e][k]
      BY <1>2, <1>5, <2>1
    <2> QED
      BY <1>2, <1>3, <2>1, <2>2, SeqEqual
  <1> QED
    BY <1>4, <1>5 DEF slice

\* bytes[i .. j] is a line: it has no newline in it, and one or an end of the file
\* on each side.
IsLine(bytes, i, j) ==
    /\ i \in Int /\ j \in Int /\ 1 <= i /\ i - 1 <= j /\ j <= Len(bytes)
    /\ i = 1 \/ bytes[i - 1] = Newline
    /\ j = Len(bytes) \/ bytes[j + 1] = Newline
    /\ \A m \in i .. j : bytes[m] # Newline

\* The event of a line is the one whose text it is.
LEMMA LineEvent ==
    ASSUME NEW bytes \in Seq(Bytes), NEW i, NEW j, IsLine(bytes, i, j), NEW e \in Events
    PROVE  (i <= Len(bytes) /\ EventAt(bytes, i, e)) <=> SubSeq(bytes, i, j) = Text[e]
  <1>1. i \in Int /\ j \in Int /\ Len(bytes) \in Nat /\ Len(Text[e]) \in Nat /\ Len(Text[e]) >= 1
    BY TextFacts, LenProperties DEF IsLine
  <1> DEFINE end == i + Len(Text[e]) - 1
  <1>2. ASSUME i <= Len(bytes), EventAt(bytes, i, e)
        PROVE  SubSeq(bytes, i, j) = Text[e]
    <2>1. /\ end \in Int /\ end <= Len(bytes) /\ SubSeq(bytes, i, end) = Text[e]
          /\ end = Len(bytes) \/ bytes[end + 1] = Newline
      BY <1>1, <1>2 DEF EventAt
    <2>2. \A m \in 1 .. Len(Text[e]) : bytes[i + m - 1] = Text[e][m]
      BY <1>1, <2>1, SliceIsText DEF IsLine
    <2>3. \A m \in i .. end : bytes[m] # Newline
      <3> SUFFICES ASSUME NEW m \in i .. end PROVE bytes[m] # Newline
        OBVIOUS
      <3>1. m - i + 1 \in 1 .. Len(Text[e]) /\ i + (m - i + 1) - 1 = m
        BY <1>1
      <3> QED
        BY <2>2, <3>1, TextFacts
    <2>4. end <= j
      <3> SUFFICES ASSUME j < end PROVE FALSE
        BY <1>1, <2>1
      <3>1. j + 1 \in i .. end /\ bytes[j + 1] = Newline
        BY <1>1, <2>1 DEF IsLine
      <3> QED
        BY <2>3, <3>1
    <2>5. j <= end
      <3> SUFFICES ASSUME end < j PROVE FALSE
        BY <1>1, <2>1
      <3>1. end + 1 \in i .. j /\ bytes[end + 1] = Newline
        BY <1>1, <2>1 DEF IsLine
      <3> QED
        BY <3>1 DEF IsLine
    <2> QED
      BY <1>1, <2>1, <2>4, <2>5
  <1>3. ASSUME SubSeq(bytes, i, j) = Text[e]
        PROVE  i <= Len(bytes) /\ EventAt(bytes, i, e)
    <2>1. Len(Text[e]) = j - i + 1
      BY <1>1, <1>3, SliceIsText DEF IsLine
    <2>2. end = j /\ i <= Len(bytes)
      BY <1>1, <2>1 DEF IsLine
    <2> QED
      BY <1>3, <2>2 DEF EventAt, IsLine
  <1> QED
    BY <1>2, <1>3

\* No event begins at a newline.
LEMMA NotAtNewline ==
    ASSUME NEW bytes \in Seq(Bytes), NEW since, NEW h \in Recorded(bytes, since)
    PROVE  h \in 1 .. Len(bytes) /\ bytes[h] # Newline
  <1>1. h \in DOMAIN bytes /\ \E e \in Events : EventAt(bytes, h, e)
    BY DEF Recorded
  <1>2. PICK e \in Events : EventAt(bytes, h, e)
    BY <1>1
  <1>3. h \in 1 .. Len(bytes) /\ Len(bytes) \in Nat
    BY <1>1, LenProperties
  <1>4. Len(Text[e]) \in Nat /\ Len(Text[e]) >= 1 /\ Text[e][1] # Newline
    BY TextFacts
  <1>5. SubSeq(bytes, h, h + Len(Text[e]) - 1) = Text[e] /\ h + Len(Text[e]) - 1 <= Len(bytes)
    BY <1>2 DEF EventAt
  <1> DEFINE end == h + Len(Text[e]) - 1
  <1>6. h \in Int /\ end \in Int /\ 1 <= h /\ end <= Len(bytes) /\ SubSeq(bytes, h, end) = Text[e]
    BY <1>3, <1>4, <1>5
  <1> HIDE DEF end
  <1>7. \A m \in 1 .. Len(Text[e]) : bytes[h + m - 1] = Text[e][m]
    BY <1>6, SliceIsText
  <1>8. 1 \in 1 .. Len(Text[e]) /\ h + 1 - 1 = h
    BY <1>3, <1>4
  <1>9. bytes[h] = Text[e][1]
    BY <1>7, <1>8
  <1> QED
    BY <1>3, <1>4, <1>9

\* No event begins elsewhere in a line, nor at the newline after it.
LEMMA NothingWithin ==
    ASSUME NEW bytes \in Seq(Bytes), NEW i, NEW j, IsLine(bytes, i, j), NEW since,
           NEW h \in Recorded(bytes, since), i <= h, h <= j + 1
    PROVE  h = i
  <1>1. h \in 1 .. Len(bytes) /\ bytes[h] # Newline /\ Len(bytes) \in Nat
    BY NotAtNewline, LenProperties
  <1>2. h = 1 \/ bytes[h - 1] = Newline
    BY DEF Recorded, EventAt
  <1> QED
    BY <1>1, <1>2 DEF IsLine

\* Where a line holds an event that is asked for, it is recorded there.
LEMMA LineRecorded ==
    ASSUME NEW bytes \in Seq(Bytes), NEW i, NEW j, IsLine(bytes, i, j), NEW since
    PROVE  /\ \A e \in Events : Matches(SubSeq(bytes, i, j), since, e) =>
                  i \in Recorded(bytes, since) /\ EventAt(bytes, i, e)
           /\ i \in Recorded(bytes, since) =>
                  \E e \in Events : Matches(SubSeq(bytes, i, j), since, e)
  <1>1. ASSUME NEW e \in Events, Matches(SubSeq(bytes, i, j), since, e)
        PROVE  i \in Recorded(bytes, since) /\ EventAt(bytes, i, e)
    <2>1. i <= Len(bytes) /\ EventAt(bytes, i, e) /\ OccurredAt[e] >= since
      BY <1>1, LineEvent DEF Matches
    <2>2. i \in DOMAIN bytes
      BY <2>1, LenProperties DEF IsLine
    <2> QED
      BY <2>1, <2>2 DEF Recorded
  <1>2. ASSUME i \in Recorded(bytes, since)
        PROVE  \E e \in Events : Matches(SubSeq(bytes, i, j), since, e)
    <2>1. PICK e \in Events : OccurredAt[e] >= since /\ EventAt(bytes, i, e)
      BY <1>2 DEF Recorded
    <2>2. i <= Len(bytes)
      BY <1>2, NotAtNewline
    <2> QED
      BY <2>1, <2>2, LineEvent DEF Matches
  <1> QED
    BY <1>1, <1>2

-------------------------------------------------------------------------------
(***************************************************************************)
(* Walking backward                                                         *)
(***************************************************************************)

\* events are those recorded beyond q, newest first.
NewestBeyond(q, events, bytes, since) ==
    \E where \in [DOMAIN events -> Recorded(bytes, since)] :
        /\ Holds(bytes, events, where)
        /\ \A m, n \in DOMAIN events : m < n => where[n] < where[m]
        /\ \A n \in DOMAIN events : q < where[n]
        /\ \A i \in Recorded(bytes, since) : q < i => \E n \in DOMAIN events : where[n] = i

\* Nothing is recorded beyond the end.
LEMMA NothingBeyond ==
    ASSUME NEW bytes \in Seq(Bytes), NEW since
    PROVE  NewestBeyond(Len(bytes), <<>>, bytes, since)
  <1> DEFINE where == [n \in {} |-> 1]
  <1>1. DOMAIN <<>> = {}
    OBVIOUS
  <1>2. where \in [DOMAIN <<>> -> Recorded(bytes, since)]
    BY <1>1
  <1>3. \A i \in Recorded(bytes, since) : ~(Len(bytes) < i)
    BY NotAtNewline, LenProperties
  <1> QED
    BY <1>1, <1>2, <1>3 DEF NewestBeyond, Holds

\* The walk takes the line that ends at j.
LEMMA WalkLine ==
    ASSUME NEW bytes \in Seq(Bytes), NEW since, NEW i, NEW j, IsLine(bytes, i, j),
           NEW events \in Seq(Events), NewestBeyond(j, events, bytes, since)
    PROVE  /\ \A e \in Events : Matches(SubSeq(bytes, i, j), since, e) =>
                  NewestBeyond(i - 1, Append(events, e), bytes, since)
           /\ (\A e \in Events : ~Matches(SubSeq(bytes, i, j), since, e)) =>
                  NewestBeyond(i - 1, events, bytes, since)
  <1> DEFINE R == Recorded(bytes, since)
  <1>1. PICK where \in [DOMAIN events -> R] :
            /\ Holds(bytes, events, where)
            /\ \A m, n \in DOMAIN events : m < n => where[n] < where[m]
            /\ \A n \in DOMAIN events : j < where[n]
            /\ \A h \in R : j < h => \E n \in DOMAIN events : where[n] = h
    BY DEF NewestBeyond
  <1>2. i \in Int /\ j \in Int /\ i - 1 <= j
    BY DEF IsLine
  <1>3. \A h \in R : h \in Int /\ (i <= h /\ h <= j => h = i)
    BY <1>2, NothingWithin, NotAtNewline
  <1>4. DOMAIN events = 1 .. Len(events) /\ Len(events) \in Nat
    BY LenProperties
  <1>5. ASSUME NEW e \in Events, Matches(SubSeq(bytes, i, j), since, e)
        PROVE  NewestBeyond(i - 1, Append(events, e), bytes, since)
    <2> DEFINE more == Append(events, e)
               L == Len(events)
               there == [n \in 1 .. L + 1 |-> IF n <= L THEN where[n] ELSE i]
    <2>1. i \in R /\ EventAt(bytes, i, e)
      BY <1>5, LineRecorded
    <2>2. /\ DOMAIN more = 1 .. L + 1
          /\ \A n \in 1 .. L : more[n] = events[n]
          /\ more[L + 1] = e
      BY <1>4, AppendProperties, LenProperties
    <2>3. there \in [DOMAIN more -> R]
      BY <1>4, <2>1, <2>2
    <2>4. /\ \A n \in 1 .. L : there[n] = where[n] /\ where[n] \in R /\ where[n] \in Int
          /\ there[L + 1] = i
      <3>1. \A n \in 1 .. L : where[n] \in R /\ where[n] \in Int
        BY <1>3, <1>4
      <3>2. \A n \in 1 .. L : there[n] = where[n]
        BY <1>4
      <3>3. there[L + 1] = i
        BY <1>4
      <3> QED
        BY <3>1, <3>2, <3>3
    <2>5. i <= j
      <3>1. i <= Len(bytes) /\ bytes[i] # Newline
        BY <2>1, NotAtNewline
      <3> QED
        BY <1>2, <3>1, LenProperties DEF IsLine
    <2> HIDE DEF more, there, R
    <2>6. Holds(bytes, more, there)
      <3> SUFFICES ASSUME NEW n \in 1 .. L + 1 PROVE EventAt(bytes, there[n], more[n])
        BY <2>2, <2>3 DEF Holds
      <3>1. CASE n \in 1 .. L
        <4>1. EventAt(bytes, where[n], events[n])
          BY <1>1, <1>4, <3>1 DEF Holds
        <4> QED
          BY <2>2, <2>4, <3>1, <4>1
      <3>2. CASE n = L + 1
        BY <2>1, <2>2, <2>4, <3>2
      <3> QED
        BY <1>4, <3>1, <3>2
    <2>7. \A m, n \in DOMAIN more : m < n => there[n] < there[m]
      <3> SUFFICES ASSUME NEW m \in 1 .. L + 1, NEW n \in 1 .. L + 1, m < n
                   PROVE  there[n] < there[m]
        BY <2>2
      <3>1. m \in 1 .. L
        BY <1>4
      <3>2. CASE n \in 1 .. L
        BY <1>1, <1>4, <2>4, <3>1, <3>2
      <3>3. CASE n = L + 1
        BY <1>1, <1>2, <1>4, <2>4, <2>5, <3>1, <3>3
      <3> QED
        BY <1>4, <3>2, <3>3
    <2>8. \A n \in DOMAIN more : i - 1 < there[n]
      <3> SUFFICES ASSUME NEW n \in 1 .. L + 1 PROVE i - 1 < there[n]
        BY <2>2
      <3>1. CASE n \in 1 .. L
        <4>1. there[n] = where[n] /\ where[n] \in Int /\ j < where[n]
          BY <1>1, <1>4, <2>4, <3>1
        <4> QED
          BY <1>2, <4>1
      <3>2. CASE n = L + 1
        BY <1>2, <2>4, <3>2
      <3> QED
        BY <1>4, <3>1, <3>2
    <2>9. ASSUME NEW h \in R, i - 1 < h
          PROVE  \E n \in DOMAIN more : there[n] = h
      <3>1. CASE j < h
        <4>1. PICK n \in 1 .. L : where[n] = h
          BY <1>1, <1>4, <3>1
        <4> QED
          BY <1>4, <2>2, <2>4, <4>1
      <3>2. CASE h <= j
        <4>1. h = i
          BY <1>2, <1>3, <2>9, <3>2
        <4>2. L + 1 \in DOMAIN more
          BY <1>4, <2>2
        <4> QED
          BY <2>4, <4>1, <4>2
      <3> QED
        BY <1>2, <1>3, <3>1, <3>2
    <2> QED
      BY <2>3, <2>6, <2>7, <2>8, <2>9 DEF NewestBeyond, R, more
  <1>6. ASSUME \A e \in Events : ~Matches(SubSeq(bytes, i, j), since, e)
        PROVE  NewestBeyond(i - 1, events, bytes, since)
    <2>1. i \notin R
      BY <1>6, LineRecorded
    <2>2. \A h \in R : i - 1 < h => j < h
      BY <1>2, <1>3, <2>1
    <2>3. \A n \in DOMAIN events : i - 1 < where[n]
      <3> SUFFICES ASSUME NEW n \in DOMAIN events PROVE i - 1 < where[n]
        OBVIOUS
      <3>1. where[n] \in R /\ where[n] \in Int /\ j < where[n]
        BY <1>1, <1>3
      <3> QED
        BY <1>2, <3>1
    <2> QED
      BY <1>1, <2>2, <2>3 DEF NewestBeyond
  <1> QED
    BY <1>5, <1>6

\* Nothing is recorded at the newline before a line.
LEMMA SkipNewline ==
    ASSUME NEW bytes \in Seq(Bytes), NEW since, NEW events, NEW i \in Int,
           NewestBeyond(i - 1, events, bytes, since), bytes[i - 1] = Newline
    PROVE  NewestBeyond(i - 2, events, bytes, since)
  <1>1. \A h \in Recorded(bytes, since) : h \in Int /\ h # i - 1
    BY NotAtNewline
  <1>2. PICK where \in [DOMAIN events -> Recorded(bytes, since)] :
            /\ Holds(bytes, events, where)
            /\ \A m, n \in DOMAIN events : m < n => where[n] < where[m]
            /\ \A n \in DOMAIN events : i - 1 < where[n]
            /\ \A h \in Recorded(bytes, since) : i - 1 < h => \E n \in DOMAIN events : where[n] = h
    BY DEF NewestBeyond
  <1>3. \A h \in Recorded(bytes, since) : i - 2 < h => i - 1 < h
    BY <1>1
  <1>4. \A n \in DOMAIN events : i - 2 < where[n]
    <2> SUFFICES ASSUME NEW n \in DOMAIN events PROVE i - 2 < where[n]
      OBVIOUS
    <2>1. where[n] \in Int /\ i - 1 < where[n]
      BY <1>1, <1>2
    <2> QED
      BY <2>1
  <1> QED
    BY <1>2, <1>3, <1>4 DEF NewestBeyond

\* The walk is over at the limit or at the beginning of the file.
LEMMA WalkOver ==
    ASSUME NEW bytes \in Seq(Bytes), NEW since, NEW events \in Seq(Events), NEW q \in Int,
           NEW limit \in Nat, Len(events) <= limit, q <= 0 \/ Len(events) = limit,
           NewestBeyond(q, events, bytes, since)
    PROVE  Newest(events, bytes, limit, since)
  <1>1. \A h \in Recorded(bytes, since) : h \in Int /\ 1 <= h
    BY NotAtNewline, LenProperties
  <1>2. PICK where \in [DOMAIN events -> Recorded(bytes, since)] :
            /\ Holds(bytes, events, where)
            /\ \A m, n \in DOMAIN events : m < n => where[n] < where[m]
            /\ \A n \in DOMAIN events : q < where[n]
            /\ \A h \in Recorded(bytes, since) : q < h => \E n \in DOMAIN events : where[n] = h
    BY DEF NewestBeyond
  <1>3. ASSUME NEW h \in Recorded(bytes, since)
        PROVE  \/ \E n \in DOMAIN events : where[n] = h
               \/ Len(events) = limit /\ \A n \in DOMAIN events : h < where[n]
    <2>1. CASE q < h
      BY <1>2, <2>1
    <2>2. CASE ~(q < h)
      <3>1. Len(events) = limit
        BY <1>1, <2>2
      <3>2. \A n \in DOMAIN events : h < where[n]
        <4> SUFFICES ASSUME NEW n \in DOMAIN events PROVE h < where[n]
          OBVIOUS
        <4>1. where[n] \in Int /\ q < where[n] /\ h \in Int
          BY <1>1, <1>2
        <4> QED
          BY <2>2, <4>1
      <3> QED
        BY <3>1, <3>2
    <2> QED
      BY <2>1, <2>2
  <1> QED
    BY <1>2, <1>3 DEF Newest

-------------------------------------------------------------------------------
(***************************************************************************)
(* Scanning forward                                                         *)
(***************************************************************************)

\* The first k events are those recorded up to p, oldest first.
OldestUpTo(p, k, events, bytes, since) ==
    \E where \in [1 .. k -> Recorded(bytes, since)] :
        /\ Holds(bytes, events, where)
        /\ \A m, n \in 1 .. k : m < n => where[m] < where[n]
        /\ \A n \in 1 .. k : where[n] <= p
        /\ \A i \in Recorded(bytes, since) : i <= p => \E n \in 1 .. k : where[n] = i

\* Nothing is recorded before the beginning.
LEMMA NothingBefore ==
    ASSUME NEW bytes \in Seq(Bytes), NEW since, NEW events
    PROVE  OldestUpTo(0, 0, events, bytes, since)
  <1> DEFINE where == [n \in {} |-> 1]
  <1>1. 1 .. 0 = {}
    OBVIOUS
  <1>2. where \in [1 .. 0 -> Recorded(bytes, since)] /\ DOMAIN where = {}
    BY <1>1
  <1>3. \A i \in Recorded(bytes, since) : ~(i <= 0)
    BY NotAtNewline, LenProperties
  <1> QED
    BY <1>1, <1>2, <1>3 DEF OldestUpTo, Holds

\* The scan takes the line after p, with its newline if it has one.
LEMMA ScanLine ==
    ASSUME NEW bytes \in Seq(Bytes), NEW since, NEW p \in Int, NEW j, IsLine(bytes, p + 1, j),
           NEW q \in j .. j + 1,
           NEW events \in Seq(Events), OldestUpTo(p, Len(events), events, bytes, since)
    PROVE  /\ \A e \in Events : Matches(SubSeq(bytes, p + 1, j), since, e) =>
                  OldestUpTo(q, Len(events) + 1, Append(events, e), bytes, since)
           /\ (\A e \in Events : ~Matches(SubSeq(bytes, p + 1, j), since, e)) =>
                  OldestUpTo(q, Len(events), events, bytes, since)
  <1> DEFINE R == Recorded(bytes, since)
             L == Len(events)
  <1>1. PICK where \in [1 .. L -> R] :
            /\ Holds(bytes, events, where)
            /\ \A m, n \in 1 .. L : m < n => where[m] < where[n]
            /\ \A n \in 1 .. L : where[n] <= p
            /\ \A h \in R : h <= p => \E n \in 1 .. L : where[n] = h
    BY DEF OldestUpTo
  <1>2. j \in Int /\ p <= j /\ q \in Int /\ j <= q /\ q <= j + 1
    BY DEF IsLine
  <1>3. \A h \in R : h \in Int /\ (p + 1 <= h /\ h <= j + 1 => h = p + 1)
    BY <1>2, NothingWithin, NotAtNewline
  <1>4. L \in Nat
    BY LenProperties
  <1>5. ASSUME NEW e \in Events, Matches(SubSeq(bytes, p + 1, j), since, e)
        PROVE  OldestUpTo(q, L + 1, Append(events, e), bytes, since)
    <2> DEFINE more == Append(events, e)
               there == [n \in 1 .. L + 1 |-> IF n <= L THEN where[n] ELSE p + 1]
    <2>1. p + 1 \in R /\ EventAt(bytes, p + 1, e)
      BY <1>5, LineRecorded
    <2>2. /\ \A n \in 1 .. L : more[n] = events[n]
          /\ more[L + 1] = e
      BY <1>4, AppendProperties
    <2>3. there \in [1 .. L + 1 -> R]
      BY <1>4, <2>1
    <2>4. /\ \A n \in 1 .. L : there[n] = where[n] /\ where[n] \in R /\ where[n] \in Int
          /\ there[L + 1] = p + 1
      <3>1. \A n \in 1 .. L : where[n] \in R /\ where[n] \in Int
        BY <1>3, <1>4
      <3>2. \A n \in 1 .. L : there[n] = where[n]
        BY <1>4
      <3>3. there[L + 1] = p + 1
        BY <1>4
      <3> QED
        BY <3>1, <3>2, <3>3
    <2>5. p + 1 <= j
      <3>1. p + 1 <= Len(bytes) /\ bytes[p + 1] # Newline
        BY <2>1, NotAtNewline
      <3> QED
        BY <1>2, <3>1, LenProperties DEF IsLine
    <2> HIDE DEF more, there, R
    <2>6. Holds(bytes, more, there)
      <3> SUFFICES ASSUME NEW n \in 1 .. L + 1 PROVE EventAt(bytes, there[n], more[n])
        BY <2>3 DEF Holds
      <3>1. CASE n \in 1 .. L
        <4>1. EventAt(bytes, where[n], events[n])
          BY <1>1, <3>1 DEF Holds
        <4> QED
          BY <2>2, <2>4, <3>1, <4>1
      <3>2. CASE n = L + 1
        BY <2>1, <2>2, <2>4, <3>2
      <3> QED
        BY <1>4, <3>1, <3>2
    <2>7. \A m, n \in 1 .. L + 1 : m < n => there[m] < there[n]
      <3> SUFFICES ASSUME NEW m \in 1 .. L + 1, NEW n \in 1 .. L + 1, m < n
                   PROVE  there[m] < there[n]
        OBVIOUS
      <3>1. m \in 1 .. L /\ there[m] = where[m] /\ where[m] \in Int /\ where[m] <= p
        BY <1>1, <1>4, <2>4
      <3>2. CASE n \in 1 .. L
        BY <1>1, <2>4, <3>1, <3>2
      <3>3. CASE n = L + 1
        BY <2>4, <3>1, <3>3
      <3> QED
        BY <1>4, <3>2, <3>3
    <2>8. ASSUME NEW n \in 1 .. L + 1 PROVE there[n] <= q
      <3>1. CASE n \in 1 .. L
        <4>1. there[n] = where[n] /\ where[n] \in Int /\ where[n] <= p
          BY <1>1, <2>4, <3>1
        <4> QED
          BY <1>2, <4>1
      <3>2. CASE n = L + 1
        BY <1>2, <2>4, <2>5, <3>2
      <3> QED
        BY <1>4, <3>1, <3>2
    <2>9. ASSUME NEW h \in R, h <= q
          PROVE  \E n \in 1 .. L + 1 : there[n] = h
      <3>1. CASE h <= p
        <4>1. PICK n \in 1 .. L : where[n] = h
          BY <1>1, <3>1
        <4> QED
          BY <1>4, <2>4, <4>1
      <3>2. CASE p < h
        <4>1. h \in Int /\ h <= j + 1 /\ p + 1 <= h
          BY <1>2, <1>3, <2>9, <3>2
        <4>2. h = p + 1
          BY <1>3, <4>1
        <4> QED
          BY <1>4, <2>4, <4>2
      <3> QED
        BY <1>3, <3>1, <3>2
    <2> QED
      BY <2>3, <2>6, <2>7, <2>8, <2>9 DEF OldestUpTo, R, more
  <1>6. ASSUME \A e \in Events : ~Matches(SubSeq(bytes, p + 1, j), since, e)
        PROVE  OldestUpTo(q, L, events, bytes, since)
    <2>1. p + 1 \notin R
      BY <1>6, LineRecorded
    <2>2. ASSUME NEW h \in R, h <= q PROVE h <= p
      <3>1. h \in Int /\ h <= j + 1
        BY <1>2, <1>3, <2>2
      <3> QED
        BY <1>3, <2>1, <3>1
    <2>3. ASSUME NEW n \in 1 .. L PROVE where[n] <= q
      <3>1. where[n] \in R /\ where[n] \in Int /\ where[n] <= p
        BY <1>1, <1>3
      <3> QED
        BY <1>2, <3>1
    <2> QED
      BY <1>1, <2>2, <2>3 DEF OldestUpTo
  <1> QED
    BY <1>5, <1>6

\* What is read after the end of bytes, and appended to events, changes nothing.
LEMMA ScanBeyond ==
    ASSUME NEW bytes \in Seq(Bytes), NEW since, NEW p \in Int, NEW q \in Int, p <= q,
           Len(bytes) <= p, NEW events \in Seq(Events), NEW k \in 0 .. Len(events),
           OldestUpTo(p, k, events, bytes, since)
    PROVE  /\ OldestUpTo(q, k, events, bytes, since)
           /\ \A e \in Events : OldestUpTo(q, k, Append(events, e), bytes, since)
  <1> DEFINE R == Recorded(bytes, since)
  <1>1. PICK where \in [1 .. k -> R] :
            /\ Holds(bytes, events, where)
            /\ \A m, n \in 1 .. k : m < n => where[m] < where[n]
            /\ \A n \in 1 .. k : where[n] <= p
            /\ \A h \in R : h <= p => \E n \in 1 .. k : where[n] = h
    BY DEF OldestUpTo
  <1>2. \A h \in R : h \in Int /\ h <= p
    BY NotAtNewline, LenProperties
  <1>3. ASSUME NEW n \in 1 .. k PROVE where[n] <= q
    <2>1. where[n] \in R /\ where[n] \in Int /\ where[n] <= p
      BY <1>1, <1>2
    <2> QED
      BY <2>1
  <1>4. ASSUME NEW e \in Events PROVE Holds(bytes, Append(events, e), where)
    <2> SUFFICES ASSUME NEW n \in 1 .. k PROVE EventAt(bytes, where[n], Append(events, e)[n])
      BY DEF Holds
    <2>1. n \in 1 .. Len(events)
      BY LenProperties
    <2>2. Append(events, e)[n] = events[n]
      BY <2>1, AppendProperties
    <2> QED
      BY <1>1, <2>2 DEF Holds
  <1> QED
    BY <1>1, <1>2, <1>3, <1>4 DEF OldestUpTo

\* The scan is over at the limit or at the end of bytes.
LEMMA ScanOver ==
    ASSUME NEW bytes \in Seq(Bytes), NEW since, NEW events, NEW p \in Int, NEW k \in Nat,
           NEW limit \in Nat, k <= limit, Len(bytes) <= p \/ k = limit,
           OldestUpTo(p, k, events, bytes, since)
    PROVE  OldestAmong(k, events, bytes, limit, since)
  <1> DEFINE R == Recorded(bytes, since)
  <1>1. PICK where \in [1 .. k -> R] :
            /\ Holds(bytes, events, where)
            /\ \A m, n \in 1 .. k : m < n => where[m] < where[n]
            /\ \A n \in 1 .. k : where[n] <= p
            /\ \A h \in R : h <= p => \E n \in 1 .. k : where[n] = h
    BY DEF OldestUpTo
  <1>2. \A h \in R : h \in Int /\ h <= Len(bytes)
    BY NotAtNewline, LenProperties
  <1>3. ASSUME NEW h \in R
        PROVE  \/ \E n \in 1 .. k : where[n] = h
               \/ k = limit /\ \A n \in 1 .. k : where[n] < h
    <2>1. CASE h <= p
      BY <1>1, <2>1
    <2>2. CASE ~(h <= p)
      <3>1. k = limit
        BY <1>2, <2>2, LenProperties
      <3>2. ASSUME NEW n \in 1 .. k PROVE where[n] < h
        <4>1. where[n] \in R /\ where[n] \in Int /\ where[n] <= p /\ h \in Int
          BY <1>1, <1>2
        <4> QED
          BY <2>2, <4>1
      <3> QED
        BY <3>1, <3>2
    <2> QED
      BY <2>1, <2>2
  <1> QED
    BY <1>1, <1>3 DEF OldestAmong

-------------------------------------------------------------------------------
(***************************************************************************)
(* The inductive invariant.  The file only grows, so what a reader has read   *)
(* stays as it is.                                                          *)
(***************************************************************************)
Before(n) == SubSeq(file, 1, n)

\* The backward reader has walked what lies beyond this.
Walked(r) == pos[r] + Len(working[r])

\* working is the part of the file between pos and what was walked, which begins
\* with a newline, and what was found is all that is recorded there.
Backward(r) ==
    at[r] \in {"chunk", "segments"} =>
        /\ query[r].order = "newest_first"
        /\ Len(found[r]) < query[r].limit
        /\ Walked(r) <= file_len[r]
        /\ Walked(r) = file_len[r] \/ file[Walked(r) + 1] = Newline
        /\ \A i \in 1 .. Len(working[r]) : working[r][i] = file[pos[r] + i]
        /\ NewestBeyond(Walked(r), found[r], Before(file_len[r]), query[r].since)

\* A prefix of what was there at the beginning that ends with a newline, or the
\* whole if it is still all there is.
Stable(r, n) == n = 0 \/ file[n] = Newline \/ n = Len(file)

\* The forward scan is at the beginning of a line, or past what was there when it
\* began, and for every stable prefix it has begun with what is recorded there.
Forward(r) ==
    at[r] = "lines" =>
        /\ query[r].order = "oldest_first"
        /\ Len(found[r]) < query[r].limit
        /\ pos[r] = 0 \/ file[pos[r]] = Newline \/ file_len[r] <= pos[r]
        /\ \A n \in 0 .. file_len[r] :
              Stable(r, n) =>
                  \E k \in 0 .. Len(found[r]) :
                      /\ OldestUpTo(pos[r], k, found[r], Before(n), query[r].since)
                      /\ k < Len(found[r]) => n < pos[r]

\* What the readers answer.
NewestAnswer(r) ==
    Answered(r, "newest_first") =>
        Newest(found[r], Before(file_len[r]), query[r].limit, query[r].since)

OldestAnswer(r) ==
    Answered(r, "oldest_first") =>
        \A n \in 0 .. file_len[r] :
            Stable(r, n) =>
                \E k \in 0 .. Len(found[r]) :
                    /\ OldestAmong(k, found[r], Before(n), query[r].limit, query[r].since)
                    /\ n = Len(file) => k = Len(found[r])

ReaderOK(r) ==
    /\ at[r] = "idle" => found[r] = <<>> /\ working[r] = <<>> /\ pos[r] = 0
    /\ Backward(r) /\ Forward(r) /\ NewestAnswer(r) /\ OldestAnswer(r)

AuditInv == TypeOK /\ \A r \in Readers : ReaderOK(r)

-------------------------------------------------------------------------------
(***************************************************************************)
(* Steps that do not concern a reader                                       *)
(***************************************************************************)

LEMMA QueryFacts ==
    ASSUME TypeOK, NEW r \in Readers
    PROVE  /\ query[r].limit \in Nat /\ query[r].since \in Nat
           /\ query[r].chunk \in Nat /\ query[r].chunk >= 1
  BY EventAssumption DEF TypeOK, Query

LEMMA BeforeFacts ==
    ASSUME file \in Seq(Bytes), NEW n \in 0 .. Len(file)
    PROVE  /\ Before(n) \in Seq(Bytes)
           /\ Len(Before(n)) = n
           /\ \A i \in 1 .. n : Before(n)[i] = file[i]
  <1>1. \A i \in 1 .. n : file[i] \in Bytes
    BY ElementOfSeq, LenProperties
  <1> QED
    BY <1>1, SubSeqProperties, LenProperties DEF Before

LEMMA InitAudit == Init => AuditInv
  BY DEF Init, AuditInv, TypeOK, ReaderOK, Backward, Forward, NewestAnswer, OldestAnswer, Answered

\* A reader that does nothing, while the file stays as it is.
LEMMA ReaderRests ==
    ASSUME NEW r \in Readers, ReaderOK(r), file' = file, at'[r] = at[r], query'[r] = query[r],
           file_len'[r] = file_len[r], pos'[r] = pos[r], working'[r] = working[r],
           found'[r] = found[r]
    PROVE  ReaderOK(r)'
  BY DEF ReaderOK, Backward, Forward, NewestAnswer, OldestAnswer, Answered, Walked, Stable, Before

\* Something is appended.
Grows ==
    /\ file' \in Seq(Bytes)
    /\ Len(file) <= Len(file')
    /\ \A i \in 1 .. Len(file) : file'[i] = file[i]

LEMMA PrefixStays ==
    ASSUME file \in Seq(Bytes), Grows, NEW n \in 0 .. Len(file)
    PROVE  Before(n)' = Before(n)
  <1>1. Len(file) \in Nat /\ Len(file') \in Nat
    BY LenProperties DEF Grows
  <1>2. /\ Before(n) \in Seq(Bytes) /\ Len(Before(n)) = n
        /\ \A i \in 1 .. n : Before(n)[i] = file[i]
    BY BeforeFacts
  <1>3. \A i \in 1 .. n : file'[i] \in Bytes
    BY <1>1, ElementOfSeq DEF Grows
  <1>4. /\ SubSeq(file', 1, n) \in Seq(Bytes) /\ Len(SubSeq(file', 1, n)) = n
        /\ \A i \in 1 .. n : SubSeq(file', 1, n)[i] = file'[i]
    BY <1>1, <1>3, SubSeqProperties
  <1>5. \A i \in 1 .. n : SubSeq(file', 1, n)[i] = Before(n)[i]
    BY <1>1, <1>2, <1>4 DEF Grows
  <1>6. SubSeq(file', 1, n) = Before(n)
    BY <1>2, <1>4, <1>5, SeqEqual
  <1> QED
    BY <1>6 DEF Before

\* A reader does not mind what is appended.
LEMMA ReaderGrown ==
    ASSUME TypeOK, NEW r \in Readers, ReaderOK(r), Grows, UNCHANGED reading
    PROVE  ReaderOK(r)'
  <1>1. /\ file \in Seq(Bytes) /\ Len(file) \in Nat /\ Len(file') \in Nat
        /\ Len(file) <= Len(file')
        /\ file_len[r] \in 0 .. Len(file) /\ pos[r] \in 0 .. Len(file)
        /\ \A i \in 1 .. Len(file) : file'[i] = file[i]
    BY LenProperties DEF TypeOK, Grows
  <1>2. \A n \in 0 .. file_len[r] : Before(n)' = Before(n)
    BY <1>1, PrefixStays
  <1>3. /\ at' = at /\ query' = query /\ file_len' = file_len /\ pos' = pos
        /\ working' = working /\ found' = found
    BY DEF reading
  <1>4. Backward(r)'
    <2> SUFFICES ASSUME at[r] \in {"chunk", "segments"}
                 PROVE  /\ query[r].order = "newest_first"
                        /\ Len(found[r]) < query[r].limit
                        /\ Walked(r) <= file_len[r]
                        /\ Walked(r) = file_len[r] \/ file'[Walked(r) + 1] = Newline
                        /\ \A i \in 1 .. Len(working[r]) : working[r][i] = file'[pos[r] + i]
                        /\ NewestBeyond(Walked(r), found[r], Before(file_len[r])', query[r].since)
      BY <1>3 DEF Backward, Walked
    <2>1. Len(working[r]) \in Nat /\ Walked(r) = pos[r] + Len(working[r])
      BY LenProperties DEF TypeOK, Walked
    <2>2. /\ query[r].order = "newest_first"
          /\ Len(found[r]) < query[r].limit
          /\ Walked(r) <= file_len[r]
          /\ Walked(r) = file_len[r] \/ file[Walked(r) + 1] = Newline
          /\ \A i \in 1 .. Len(working[r]) : working[r][i] = file[pos[r] + i]
          /\ NewestBeyond(Walked(r), found[r], Before(file_len[r]), query[r].since)
      BY DEF ReaderOK, Backward
    <2>3. Walked(r) = file_len[r] \/ file'[Walked(r) + 1] = Newline
      <3> SUFFICES ASSUME Walked(r) # file_len[r] PROVE file'[Walked(r) + 1] = Newline
        OBVIOUS
      <3>1. Walked(r) \in Int /\ Walked(r) >= 0 /\ Walked(r) <= file_len[r]
        BY <1>1, <2>1, <2>2
      <3>2. Walked(r) + 1 \in 1 .. Len(file)
        BY <1>1, <3>1
      <3>3. file'[Walked(r) + 1] = file[Walked(r) + 1]
        BY <1>1, <3>2
      <3> QED
        BY <2>2, <3>3
    <2>4. ASSUME NEW i \in 1 .. Len(working[r]) PROVE working[r][i] = file'[pos[r] + i]
      <3>1. Walked(r) \in Int /\ Walked(r) <= Len(file)
        BY <1>1, <2>1, <2>2
      <3>2. pos[r] + i \in 1 .. Len(file)
        BY <1>1, <2>1, <3>1
      <3> QED
        BY <1>1, <2>2, <3>2
    <2>5. NewestBeyond(Walked(r), found[r], Before(file_len[r])', query[r].since)
      <3>1. file_len[r] \in 0 .. file_len[r]
        BY <1>1
      <3>2. Before(file_len[r])' = SubSeq(file', 1, file_len[r])
        BY <1>3 DEF Before
      <3>3. SubSeq(file', 1, file_len[r]) = Before(file_len[r])
        BY <1>2, <3>1 DEF Before
      <3> QED
        BY <2>2, <3>2, <3>3
    <2> QED
      BY <2>2, <2>3, <2>4, <2>5
  <1>5. \A n \in 0 .. file_len[r] : Stable(r, n)' => Stable(r, n) /\ (n = Len(file') => n = Len(file))
    BY <1>1 DEF Stable
  <1>6. Forward(r)'
    <2> SUFFICES ASSUME at[r] = "lines"
                 PROVE  /\ query[r].order = "oldest_first"
                        /\ Len(found[r]) < query[r].limit
                        /\ pos[r] = 0 \/ file'[pos[r]] = Newline \/ file_len[r] <= pos[r]
                        /\ \A n \in 0 .. file_len[r] :
                              Stable(r, n)' =>
                                  \E k \in 0 .. Len(found[r]) :
                                      /\ OldestUpTo(pos[r], k, found[r], Before(n)', query[r].since)
                                      /\ k < Len(found[r]) => n < pos[r]
      BY <1>3 DEF Forward
    <2>1. /\ query[r].order = "oldest_first"
          /\ Len(found[r]) < query[r].limit
          /\ pos[r] = 0 \/ file'[pos[r]] = Newline \/ file_len[r] <= pos[r]
      BY <1>1 DEF ReaderOK, Forward
    <2>2. ASSUME NEW n \in 0 .. file_len[r], Stable(r, n)'
          PROVE  \E k \in 0 .. Len(found[r]) :
                    /\ OldestUpTo(pos[r], k, found[r], Before(n)', query[r].since)
                    /\ k < Len(found[r]) => n < pos[r]
      BY <1>2, <1>5, <2>2 DEF ReaderOK, Forward
    <2> QED
      BY <2>1, <2>2
  <1>7. NewestAnswer(r)'
    BY <1>1, <1>2, <1>3 DEF ReaderOK, NewestAnswer, Answered
  <1>8. OldestAnswer(r)'
    <2> SUFFICES ASSUME Answered(r, "oldest_first"), NEW n \in 0 .. file_len[r], Stable(r, n)'
                 PROVE  \E k \in 0 .. Len(found[r]) :
                            /\ OldestAmong(k, found[r], Before(n)', query[r].limit, query[r].since)
                            /\ n = Len(file') => k = Len(found[r])
      BY <1>3 DEF OldestAnswer, Answered
    <2> QED
      BY <1>2, <1>5 DEF ReaderOK, OldestAnswer
  <1> QED
    BY <1>3, <1>4, <1>6, <1>7, <1>8 DEF ReaderOK

-------------------------------------------------------------------------------
(***************************************************************************)
(* Steps of the writers                                                     *)
(***************************************************************************)

\* Appending bytes to the file.
LEMMA AppendGrows ==
    ASSUME file \in Seq(Bytes), NEW more \in Seq(Bytes), file' = file \o more
    PROVE  Grows
  <1>1. /\ file \o more \in Seq(Bytes) /\ Len(file) \in Nat /\ Len(more) \in Nat
        /\ Len(file \o more) = Len(file) + Len(more)
        /\ \A i \in 1 .. Len(file) + Len(more) :
              (file \o more)[i] = IF i <= Len(file) THEN file[i] ELSE more[i - Len(file)]
    BY ConcatProperties, LenProperties
  <1>2. Len(file') = Len(file) + Len(more)
    BY <1>1
  <1>3. ASSUME NEW i \in 1 .. Len(file) PROVE file'[i] = file[i]
    <2>1. i \in 1 .. Len(file) + Len(more) /\ i <= Len(file)
      BY <1>1
    <2> QED
      BY <1>1, <2>1
  <1> QED
    BY <1>1, <1>2, <1>3 DEF Grows

\* Every step of a writer leaves the readers alone and appends.
LEMMA WriterGrows ==
    ASSUME TypeOK, NEW w \in Writers,
           (\E e \in Events : Open(w, e)) \/ WriteLine(w) \/ WriteNewline(w) \/ Fail(w)
    PROVE  /\ Grows /\ UNCHANGED reading
           /\ pc' \in [Writers -> {"idle", "line", "newline"}]
           /\ writing' \in [Writers -> Events]
           /\ unwritten' \subseteq Events
           /\ acked' \subseteq Events
  <1>1. file \in Seq(Bytes) /\ writing[w] \in Events
    BY DEF TypeOK
  <1>2. ASSUME UNCHANGED file PROVE Grows
    BY <1>1, <1>2, LenProperties DEF Grows
  <1>3. CASE \E e \in Events : Open(w, e)
    BY <1>2, <1>3 DEF TypeOK, Open
  <1>4. CASE WriteLine(w)
    <2>1. Text[writing[w]] \in Seq(Bytes) /\ file' = file \o Text[writing[w]]
      BY <1>1, <1>4, TextFacts DEF WriteLine
    <2>2. Grows
      BY <1>1, <2>1, AppendGrows
    <2> QED
      BY <1>4, <2>2 DEF TypeOK, WriteLine
  <1>5. CASE WriteNewline(w)
    <2>1. Newline \in Bytes /\ file' = Append(file, Newline)
      BY <1>5 DEF WriteNewline, Bytes
    <2>2. Grows
      BY <1>1, <2>1, AppendProperties, LenProperties DEF Grows
    <2> QED
      BY <1>1, <1>5, <2>2 DEF TypeOK, WriteNewline
  <1>6. CASE Fail(w)
    <2>1. CASE UNCHANGED file
      BY <1>2, <1>6, <2>1 DEF TypeOK, Fail
    <2>2. CASE \E n \in 0 .. Len(Text[writing[w]]) - 1 :
                  file' = file \o SubSeq(Text[writing[w]], 1, n)
      <3>1. PICK n \in 0 .. Len(Text[writing[w]]) - 1 :
                file' = file \o SubSeq(Text[writing[w]], 1, n)
        BY <2>2
      <3>2. /\ Text[writing[w]] \in Seq(Bytes) /\ Len(Text[writing[w]]) \in Nat
            /\ \A i \in 1 .. n : i \in 1 .. Len(Text[writing[w]])
        BY <1>1, TextFacts
      <3>3. \A i \in 1 .. n : Text[writing[w]][i] \in Bytes
        BY <3>2, ElementOfSeq
      <3>4. SubSeq(Text[writing[w]], 1, n) \in Seq(Bytes)
        BY <3>2, <3>3, SubSeqProperties
      <3>5. Grows
        BY <1>1, <3>1, <3>4, AppendGrows
      <3> QED
        BY <1>6, <3>5 DEF TypeOK, Fail
    <2> QED
      BY <1>6, <2>1, <2>2 DEF Fail
  <1> QED
    BY <1>3, <1>4, <1>5, <1>6

LEMMA WriterStep ==
    ASSUME AuditInv, NEW w \in Writers,
           (\E e \in Events : Open(w, e)) \/ WriteLine(w) \/ WriteNewline(w) \/ Fail(w)
    PROVE  AuditInv'
  <1>1. TypeOK /\ \A r \in Readers : ReaderOK(r)
    BY DEF AuditInv
  <1>2. /\ Grows /\ UNCHANGED reading
        /\ pc' \in [Writers -> {"idle", "line", "newline"}]
        /\ writing' \in [Writers -> Events]
        /\ unwritten' \subseteq Events
        /\ acked' \subseteq Events
    BY <1>1, WriterGrows
  <1>3. Len(file) \in Nat /\ Len(file') \in Nat /\ Len(file) <= Len(file')
    BY <1>1, <1>2, LenProperties DEF TypeOK, Grows
  <1>4. file_len \in [Readers -> 0 .. Len(file')] /\ pos \in [Readers -> 0 .. Len(file')]
    BY <1>1, <1>3 DEF TypeOK
  <1>5. TypeOK'
    BY <1>1, <1>2, <1>4 DEF TypeOK, Grows, reading
  <1>6. \A r \in Readers : ReaderOK(r)'
    BY <1>1, <1>2, ReaderGrown
  <1> QED
    BY <1>5, <1>6 DEF AuditInv

-------------------------------------------------------------------------------
(***************************************************************************)
(* Steps of a reader                                                        *)
(***************************************************************************)

\* Only the reader that steps has to be looked at.
LEMMA OthersRest ==
    ASSUME AuditInv, NEW r \in Readers, TypeOK', ReaderOK(r)', file' = file, query' = query,
           \A s \in Readers \ {r} :
               /\ at'[s] = at[s] /\ file_len'[s] = file_len[s] /\ pos'[s] = pos[s]
               /\ working'[s] = working[s] /\ found'[s] = found[s]
    PROVE  AuditInv'
  <1>1. ASSUME NEW s \in Readers \ {r} PROVE ReaderOK(s)'
    BY <1>1, ReaderRests DEF AuditInv
  <1> QED
    BY <1>1 DEF AuditInv

\* The types of what a reader may change.
Places == {"idle", "chunk", "segments", "lines", "ok", "error"}

LEMMA ReaderTyped ==
    ASSUME TypeOK, file' = file, query' = query, UNCHANGED sink,
           at' \in [Readers -> Places], file_len' \in [Readers -> 0 .. Len(file)],
           pos' \in [Readers -> 0 .. Len(file)], working' \in [Readers -> Seq(Bytes)],
           found' \in [Readers -> Seq(Events)]
    PROVE  TypeOK'
  BY DEF TypeOK, Places, sink

\* The reader's variables and the bytes it will look at.
LEMMA ReaderFacts ==
    ASSUME TypeOK, NEW r \in Readers
    PROVE  /\ file \in Seq(Bytes) /\ Len(file) \in Nat
           /\ file_len[r] \in 0 .. Len(file) /\ pos[r] \in 0 .. Len(file)
           /\ working[r] \in Seq(Bytes) /\ Len(working[r]) \in Nat
           /\ found[r] \in Seq(Events) /\ Len(found[r]) \in Nat
  BY LenProperties DEF TypeOK

LEMMA ReadEventsStep ==
    ASSUME AuditInv, NEW r \in Readers, ReadEvents(r)
    PROVE  AuditInv'
  <1> DEFINE L == Len(file)
             limit == query[r].limit
             since == query[r].since
  <1>1. TypeOK /\ ReaderOK(r)
    BY DEF AuditInv
  <1>2. file \in Seq(Bytes) /\ L \in Nat /\ limit \in Nat /\ since \in Nat
    BY <1>1, ReaderFacts, QueryFacts
  <1>3. found[r] = <<>> /\ working[r] = <<>> /\ pos[r] = 0
    BY <1>1 DEF ReadEvents, ReaderOK
  <1>4. /\ file' = file /\ query' = query /\ working' = working /\ found' = found
        /\ file_len' = [file_len EXCEPT ![r] = L] /\ file_len'[r] = L
        /\ UNCHANGED sink
    BY <1>1 DEF ReadEvents, TypeOK
  <1>5. TypeOK'
    <2>1. file_len' \in [Readers -> 0 .. L]
      BY <1>1, <1>2, <1>4 DEF TypeOK
    <2>2. at' \in [Readers -> Places]
      <3>1. \E a \in {"ok", "lines", "chunk"} : at' = [at EXCEPT ![r] = a]
        BY DEF ReadEvents
      <3> QED
        BY <1>1, <3>1 DEF TypeOK, Places
    <2>3. pos' = pos \/ pos' = [pos EXCEPT ![r] = L]
      BY DEF ReadEvents
    <2>4. pos' \in [Readers -> 0 .. L]
      <3>1. pos \in [Readers -> 0 .. L] /\ L \in 0 .. L
        BY <1>1, <1>2 DEF TypeOK
      <3> HIDE DEF L
      <3> QED
        BY <2>3, <3>1
    <2> QED
      BY <1>1, <1>4, <2>1, <2>2, <2>4, ReaderTyped DEF TypeOK
  <1>6. \A n \in 0 .. L : Before(n) \in Seq(Bytes) /\ Len(Before(n)) = n
    BY <1>2, BeforeFacts
  <1>7. NewestBeyond(L, <<>>, Before(L), since)
    <2>1. Before(L) \in Seq(Bytes) /\ Len(Before(L)) = L
      BY <1>2, <1>6
    <2> QED
      BY <2>1, NothingBeyond
  <1>8. \A n \in 0 .. L : OldestUpTo(0, 0, <<>>, Before(n), since)
    BY <1>6, NothingBefore
  <1>9. Len(<<>>) = 0 /\ <<>> \in Seq(Events)
    OBVIOUS
  <1> HIDE DEF L, limit, since
  <1>10. CASE at'[r] = "ok" /\ (limit = 0 \/ L = 0)
    <2>1. Newest(<<>>, Before(L), limit, since)
      <3>1. Before(L) \in Seq(Bytes)
        BY <1>2, <1>6
      <3>2. L <= 0 \/ Len(<<>>) = limit
        BY <1>9, <1>10
      <3>3. L \in Int /\ Len(<<>>) <= limit
        BY <1>2, <1>9
      <3> QED
        BY <1>2, <1>7, <1>9, <3>1, <3>2, <3>3, WalkOver
    <2>2. ASSUME NEW n \in 0 .. L PROVE OldestAmong(0, <<>>, Before(n), limit, since)
      <3>1. Len(Before(n)) <= 0 \/ 0 = limit
        BY <1>2, <1>6, <1>10
      <3> QED
        BY <1>2, <1>6, <1>8, <3>1, ScanOver
    <2>3. NewestAnswer(r)'
      BY <1>3, <1>4, <2>1 DEF NewestAnswer, Before, limit, since
    <2>4. OldestAnswer(r)'
      <3> SUFFICES ASSUME NEW n \in 0 .. L
                   PROVE  \E k \in 0 .. 0 : OldestAmong(k, <<>>, Before(n)', limit, since) /\ k = 0
        BY <1>3, <1>4, <1>9 DEF OldestAnswer, limit, since
      <3>1. Before(n)' = Before(n)
        BY <1>4 DEF Before
      <3> QED
        BY <2>2, <3>1
    <2>5. ReaderOK(r)'
      BY <1>10, <2>3, <2>4 DEF ReaderOK, Backward, Forward
    <2> QED
      BY <1>4, <1>5, <2>5, OthersRest DEF ReadEvents, AuditInv, TypeOK
  <1>11. CASE at'[r] = "lines" /\ limit > 0 /\ query[r].order = "oldest_first" /\ pos' = pos
    <2>1. Forward(r)'
      <3> SUFFICES ASSUME NEW n \in 0 .. L
                   PROVE  \E k \in 0 .. 0 : OldestUpTo(0, k, <<>>, Before(n)', since)
        BY <1>2, <1>3, <1>4, <1>9, <1>11 DEF Forward, limit, since
      <3>1. Before(n)' = Before(n)
        BY <1>4 DEF Before
      <3> QED
        BY <1>8, <3>1
    <2>2. ReaderOK(r)'
      BY <1>11, <2>1 DEF ReaderOK, Backward, NewestAnswer, OldestAnswer, Answered
    <2> QED
      BY <1>4, <1>5, <2>2, OthersRest DEF ReadEvents, AuditInv, TypeOK
  <1>12. CASE /\ at'[r] = "chunk" /\ limit > 0 /\ query[r].order = "newest_first"
              /\ pos' = [pos EXCEPT ![r] = L]
    <2>1. pos'[r] = L /\ Walked(r)' = L
      BY <1>1, <1>2, <1>3, <1>4, <1>9, <1>12 DEF TypeOK, Walked
    <2>2. Before(L)' = Before(L) /\ Before(file_len[r])' = Before(L)
      BY <1>4 DEF Before, L
    <2>3. Backward(r)'
      BY <1>2, <1>3, <1>4, <1>7, <1>9, <1>12, <2>1, <2>2 DEF Backward, limit, since
    <2>4. ReaderOK(r)'
      BY <1>12, <2>3 DEF ReaderOK, Forward, NewestAnswer, OldestAnswer, Answered
    <2> QED
      BY <1>4, <1>5, <2>4, OthersRest DEF ReadEvents, AuditInv, TypeOK
  <1>13. file = <<>> => L = 0
    BY DEF L
  <1> QED
    BY <1>1, <1>10, <1>11, <1>12, <1>13 DEF ReadEvents, TypeOK, L, limit

LEMMA ReadChunkStep ==
    ASSUME AuditInv, NEW r \in Readers, ReadChunk(r)
    PROVE  AuditInv'
  <1> DEFINE start == IF pos[r] > query[r].chunk THEN pos[r] - query[r].chunk ELSE 0
             piece == SubSeq(file, start + 1, pos[r])
             W == Len(working[r])
  <1>1. TypeOK /\ ReaderOK(r)
    BY DEF AuditInv
  <1>2. /\ file \in Seq(Bytes) /\ Len(file) \in Nat /\ pos[r] \in 0 .. Len(file)
        /\ working[r] \in Seq(Bytes) /\ W \in Nat
    BY <1>1, ReaderFacts
  <1>3. start \in 0 .. pos[r]
    BY <1>1, <1>2, QueryFacts
  <1>4. /\ file' = file /\ query' = query /\ file_len' = file_len /\ found' = found
        /\ UNCHANGED sink
        /\ working' = [working EXCEPT ![r] = piece \o working[r]]
        /\ pos' = [pos EXCEPT ![r] = start]
        /\ at' = [at EXCEPT ![r] = "segments"]
    BY DEF ReadChunk
  <1> HIDE DEF start, W
  <1>5. /\ piece \in Seq(Bytes) /\ Len(piece) = pos[r] - start
        /\ \A i \in 1 .. pos[r] - start : piece[i] = file[start + i]
    <2>1. \A i \in start + 1 .. pos[r] : file[i] \in Bytes
      BY <1>2, <1>3, ElementOfSeq
    <2>2. /\ piece \in Seq(Bytes)
          /\ Len(piece) = IF start + 1 <= pos[r] THEN pos[r] - (start + 1) + 1 ELSE 0
          /\ \A i \in 1 .. pos[r] - (start + 1) + 1 : piece[i] = file[start + 1 + i - 1]
      BY <1>2, <1>3, <2>1, SubSeqProperties
    <2> HIDE DEF piece
    <2>3. Len(piece) = pos[r] - start
      BY <1>2, <1>3, <2>2
    <2>4. ASSUME NEW i \in 1 .. pos[r] - start PROVE piece[i] = file[start + i]
      <3>1. i \in 1 .. pos[r] - (start + 1) + 1 /\ start + 1 + i - 1 = start + i
        BY <1>2, <1>3
      <3> QED
        BY <2>2, <3>1
    <2> QED
      BY <2>2, <2>3, <2>4
  <1> HIDE DEF piece
  <1>6. /\ piece \o working[r] \in Seq(Bytes)
        /\ Len(piece \o working[r]) = pos[r] - start + W
        /\ \A i \in 1 .. pos[r] - start + W :
              (piece \o working[r])[i] =
                  IF i <= pos[r] - start THEN piece[i] ELSE working[r][i - (pos[r] - start)]
    <2>1. /\ piece \o working[r] \in Seq(Bytes)
          /\ Len(piece \o working[r]) = Len(piece) + W
          /\ \A i \in 1 .. Len(piece) + W :
                (piece \o working[r])[i] =
                    IF i <= Len(piece) THEN piece[i] ELSE working[r][i - Len(piece)]
      BY <1>2, <1>5, ConcatProperties DEF W
    <2> QED
      BY <1>5, <2>1
  <1>7. at'[r] = "segments" /\ pos'[r] = start /\ working'[r] = piece \o working[r]
    BY <1>1, <1>4 DEF TypeOK
  <1>8. TypeOK'
    <2>1. at' \in [Readers -> Places]
      BY <1>1, <1>4 DEF TypeOK, Places
    <2>2. start \in 0 .. Len(file) /\ pos \in [Readers -> 0 .. Len(file)]
      BY <1>1, <1>2, <1>3 DEF TypeOK
    <2>3. pos' \in [Readers -> 0 .. Len(file)]
      BY <1>4, <2>2
    <2>4. working' \in [Readers -> Seq(Bytes)]
      BY <1>1, <1>4, <1>6 DEF TypeOK
    <2> QED
      BY <1>1, <1>4, <2>1, <2>3, <2>4, ReaderTyped DEF TypeOK
  <1>9. /\ query[r].order = "newest_first"
        /\ Len(found[r]) < query[r].limit
        /\ Walked(r) <= file_len[r]
        /\ Walked(r) = file_len[r] \/ file[Walked(r) + 1] = Newline
        /\ \A i \in 1 .. W : working[r][i] = file[pos[r] + i]
        /\ NewestBeyond(Walked(r), found[r], Before(file_len[r]), query[r].since)
    BY <1>1 DEF ReaderOK, Backward, ReadChunk, W
  <1>10. Walked(r)' = Walked(r)
    <2>1. Walked(r)' = start + Len(piece \o working[r])
      BY <1>7 DEF Walked
    <2>2. Walked(r) = pos[r] + W
      BY DEF Walked, W
    <2> QED
      BY <1>2, <1>3, <1>6, <2>1, <2>2
  <1>11. ASSUME NEW i \in 1 .. pos[r] - start + W
         PROVE  (piece \o working[r])[i] = file[start + i]
    <2>1. CASE i <= pos[r] - start
      BY <1>2, <1>3, <1>5, <1>6, <2>1
    <2>2. CASE ~(i <= pos[r] - start)
      <3>1. /\ i - (pos[r] - start) \in 1 .. W
            /\ pos[r] + (i - (pos[r] - start)) = start + i
        BY <1>2, <1>3, <2>2
      <3> QED
        BY <1>6, <1>9, <2>2, <3>1
    <2> QED
      BY <2>1, <2>2
  <1>12. Before(file_len[r])' = Before(file_len[r])
    BY <1>4 DEF Before
  <1>13. Backward(r)'
    BY <1>4, <1>6, <1>7, <1>9, <1>10, <1>11, <1>12 DEF Backward
  <1>14. ReaderOK(r)'
    BY <1>7, <1>13 DEF ReaderOK, Forward, NewestAnswer, OldestAnswer, Answered
  <1> QED
    BY <1>1, <1>4, <1>8, <1>14, OthersRest DEF TypeOK

LEMMA KeepFragmentStep ==
    ASSUME AuditInv, NEW r \in Readers, KeepFragment(r)
    PROVE  AuditInv'
  <1>1. TypeOK /\ ReaderOK(r)
    BY DEF AuditInv
  <1>2. /\ file' = file /\ query' = query /\ file_len' = file_len /\ pos' = pos
        /\ working' = working /\ found' = found /\ UNCHANGED sink
        /\ at' = [at EXCEPT ![r] = "chunk"] /\ at'[r] = "chunk" /\ at[r] = "segments"
    BY <1>1 DEF KeepFragment, TypeOK
  <1>3. TypeOK'
    <2>1. at' \in [Readers -> Places]
      BY <1>1, <1>2 DEF TypeOK, Places
    <2> QED
      BY <1>1, <1>2, <2>1, ReaderTyped DEF TypeOK
  <1>4. Backward(r)'
    BY <1>1, <1>2 DEF ReaderOK, Backward, Walked, Before
  <1>5. ReaderOK(r)'
    BY <1>2, <1>4 DEF ReaderOK, Forward, NewestAnswer, OldestAnswer, Answered
  <1> QED
    BY <1>1, <1>2, <1>3, <1>5, OthersRest DEF TypeOK

\* What Collect does to the events found.
LEMMA CollectFacts ==
    ASSUME TypeOK, NEW r \in Readers, NEW line, Collect(r, line)
    PROVE  /\ found' \in [Readers -> Seq(Events)]
           /\ \A s \in Readers \ {r} : found'[s] = found[s]
           /\ \/ \E e \in Events : /\ Matches(line, query[r].since, e)
                                   /\ found'[r] = Append(found[r], e)
                                   /\ Len(found'[r]) = Len(found[r]) + 1
              \/ /\ \A e \in Events : ~Matches(line, query[r].since, e)
                 /\ found'[r] = found[r]
  <1>1. found \in [Readers -> Seq(Events)]
    BY DEF TypeOK
  <1>2. CASE /\ \A e \in Events : ~Matches(line, query[r].since, e)
             /\ UNCHANGED found
    BY <1>1, <1>2
  <1>3. ASSUME NEW e \in Events, Matches(line, query[r].since, e),
               found' = [found EXCEPT ![r] = Append(found[r], e)]
        PROVE  /\ found' \in [Readers -> Seq(Events)]
               /\ \A s \in Readers \ {r} : found'[s] = found[s]
               /\ found'[r] = Append(found[r], e)
               /\ Len(found'[r]) = Len(found[r]) + 1
    <2>1. Append(found[r], e) \in Seq(Events) /\ Len(Append(found[r], e)) = Len(found[r]) + 1
      BY <1>1, AppendProperties
    <2> QED
      BY <1>1, <1>3, <2>1
  <1> QED
    BY <1>2, <1>3 DEF Collect

LEMMA WalkSegmentStep ==
    ASSUME AuditInv, NEW r \in Readers, WalkSegment(r)
    PROVE  AuditInv'
  <1> DEFINE W == Len(working[r])
             F == file_len[r]
             P == pos[r]
             bytes == Before(F)
             limit == query[r].limit
             since == query[r].since
  <1>1. TypeOK /\ ReaderOK(r)
    BY DEF AuditInv
  <1>2. /\ file \in Seq(Bytes) /\ Len(file) \in Nat /\ P \in Nat /\ F \in 0 .. Len(file)
        /\ working[r] \in Seq(Bytes) /\ W \in Nat
        /\ found[r] \in Seq(Events) /\ Len(found[r]) \in Nat
        /\ limit \in Nat /\ since \in Nat
    BY <1>1, ReaderFacts, QueryFacts
  <1>3. /\ file' = file /\ query' = query /\ file_len' = file_len /\ pos' = pos
        /\ UNCHANGED sink /\ at[r] = "segments"
    BY DEF WalkSegment
  <1>4. PICK cut \in 0 .. W :
            /\ IF cut = 0 THEN P = 0 ELSE working[r][cut] = Newline
            /\ \A i \in cut + 1 .. W : working[r][i] # Newline
            /\ Collect(r, SubSeq(working[r], cut + 1, W))
            /\ working' = [working EXCEPT ![r] = SubSeq(working[r], 1, cut - 1)]
            /\ at' = [at EXCEPT ![r] = IF LimitReached(r) \/ cut = 0 THEN "ok" ELSE "segments"]
    BY DEF WalkSegment
  <1>5. /\ query[r].order = "newest_first"
        /\ Len(found[r]) < limit
        /\ P + W <= F
        /\ P + W = F \/ file[P + W + 1] = Newline
        /\ \A i \in 1 .. W : working[r][i] = file[P + i]
        /\ NewestBeyond(P + W, found[r], bytes, since)
    BY <1>1, <1>3 DEF ReaderOK, Backward, Walked
  <1>6. /\ bytes \in Seq(Bytes) /\ Len(bytes) = F
        /\ \A i \in 1 .. F : bytes[i] = file[i]
    BY <1>2, BeforeFacts
  <1>7. bytes' = bytes
    BY <1>3 DEF Before
  <1> DEFINE i == P + cut + 1
             j == P + W
             line == SubSeq(working[r], cut + 1, W)
             left == SubSeq(working[r], 1, cut - 1)
  <1> HIDE DEF W, F, P, bytes, limit, since
  <1>8. cut > 0 => i - 1 \in 1 .. F /\ bytes[i - 1] = Newline /\ file[i - 1] = Newline
    <2> SUFFICES ASSUME cut > 0
                 PROVE  i - 1 \in 1 .. F /\ bytes[i - 1] = Newline /\ file[i - 1] = Newline
      OBVIOUS
    <2>1. cut \in 1 .. W /\ P + cut \in 1 .. F /\ i - 1 = P + cut
      BY <1>2, <1>5
    <2>2. working[r][cut] = Newline
      BY <1>4
    <2>3. file[P + cut] = Newline
      BY <1>5, <2>1, <2>2
    <2> QED
      BY <1>6, <2>1, <2>3
  <1>9. IsLine(bytes, i, j)
    <2>1. i \in Int /\ j \in Int /\ 1 <= i /\ i - 1 <= j /\ j <= Len(bytes)
      BY <1>2, <1>5, <1>6
    <2>2. i = 1 \/ bytes[i - 1] = Newline
      BY <1>2, <1>4, <1>8
    <2>3. j = Len(bytes) \/ bytes[j + 1] = Newline
      <3> SUFFICES ASSUME j # F PROVE bytes[j + 1] = Newline
        BY <1>6
      <3>1. j + 1 \in 1 .. F
        BY <1>2, <1>5
      <3> QED
        BY <1>5, <1>6, <3>1
    <2>4. ASSUME NEW m \in i .. j PROVE bytes[m] # Newline
      <3>1. /\ m - P \in cut + 1 .. W /\ m - P \in 1 .. W /\ P + (m - P) = m
            /\ m \in 1 .. F
        BY <1>2, <1>5
      <3>2. working[r][m - P] # Newline
        BY <1>4, <3>1
      <3>3. working[r][m - P] = file[m]
        BY <1>5, <3>1
      <3> QED
        BY <1>6, <3>1, <3>2, <3>3
    <2> QED
      BY <2>1, <2>2, <2>3, <2>4 DEF IsLine
  <1>10. line = SubSeq(bytes, i, j)
    <2>1. \A m \in cut + 1 .. W : working[r][m] \in Bytes
      BY <1>2, ElementOfSeq DEF W
    <2>2. \A m \in i .. j : bytes[m] \in Bytes
      BY <1>2, <1>5, <1>6, ElementOfSeq
    <2>3. /\ line \in Seq(Bytes)
          /\ Len(line) = IF cut + 1 <= W THEN W - (cut + 1) + 1 ELSE 0
          /\ \A m \in 1 .. W - (cut + 1) + 1 : line[m] = working[r][cut + 1 + m - 1]
      BY <1>2, <2>1, SubSeqProperties
    <2>4. /\ SubSeq(bytes, i, j) \in Seq(Bytes)
          /\ Len(SubSeq(bytes, i, j)) = IF i <= j THEN j - i + 1 ELSE 0
          /\ \A m \in 1 .. j - i + 1 : SubSeq(bytes, i, j)[m] = bytes[i + m - 1]
      BY <1>2, <1>6, <2>2, SubSeqProperties
    <2> DEFINE other == SubSeq(bytes, i, j)
    <2> HIDE DEF line, other
    <2>5. Len(line) = W - cut /\ Len(other) = W - cut
      BY <1>2, <2>3, <2>4 DEF other
    <2>6. ASSUME NEW m \in 1 .. W - cut PROVE line[m] = other[m]
      <3>1. /\ m \in 1 .. W - (cut + 1) + 1 /\ m \in 1 .. j - i + 1
            /\ cut + 1 + m - 1 = cut + m /\ i + m - 1 = P + (cut + m)
            /\ cut + m \in 1 .. W /\ P + (cut + m) \in 1 .. F
        BY <1>2, <1>5
      <3>2. line[m] = working[r][cut + m]
        BY <2>3, <3>1
      <3>3. other[m] = bytes[P + (cut + m)]
        BY <2>4, <3>1 DEF other
      <3>4. bytes[P + (cut + m)] = file[P + (cut + m)]
        BY <1>6, <3>1
      <3>5. working[r][cut + m] = file[P + (cut + m)]
        BY <1>5, <3>1
      <3> QED
        BY <3>2, <3>3, <3>4, <3>5
    <2>7. line = other
      BY <2>3, <2>4, <2>5, <2>6, SeqEqual DEF other
    <2> QED
      BY <2>7 DEF other
  <1>11. /\ found' \in [Readers -> Seq(Events)]
         /\ \A s \in Readers \ {r} : found'[s] = found[s]
         /\ \/ \E e \in Events : /\ Matches(line, since, e)
                                 /\ found'[r] = Append(found[r], e)
                                 /\ Len(found'[r]) = Len(found[r]) + 1
            \/ /\ \A e \in Events : ~Matches(line, since, e)
               /\ found'[r] = found[r]
    BY <1>1, <1>4, CollectFacts DEF since
  <1>12. NewestBeyond(i - 1, found'[r], bytes, since)
    <2>1. /\ \A e \in Events : Matches(SubSeq(bytes, i, j), since, e) =>
                 NewestBeyond(i - 1, Append(found[r], e), bytes, since)
          /\ (\A e \in Events : ~Matches(SubSeq(bytes, i, j), since, e)) =>
                 NewestBeyond(i - 1, found[r], bytes, since)
      <3> HIDE DEF i, j
      <3>1. NewestBeyond(j, found[r], bytes, since)
        BY <1>5 DEF j
      <3> QED
        BY <1>2, <1>6, <1>9, <3>1, WalkLine
    <2> HIDE DEF line, i, j
    <2> QED
      BY <1>10, <1>11, <2>1
  <1>13. found'[r] \in Seq(Events) /\ Len(found'[r]) \in Nat /\ Len(found'[r]) <= limit
    <2>1. found'[r] \in Seq(Events) /\ Len(found'[r]) \in Nat
      BY <1>11, LenProperties
    <2> QED
      BY <1>2, <1>5, <1>11, <2>1
  <1>14. /\ left \in Seq(Bytes)
         /\ cut > 0 => Len(left) = cut - 1 /\ \A m \in 1 .. cut - 1 : left[m] = working[r][m]
    <2>1. \A m \in 1 .. cut - 1 : working[r][m] \in Bytes
      BY <1>2, ElementOfSeq DEF W
    <2>2. /\ left \in Seq(Bytes)
          /\ Len(left) = IF 1 <= cut - 1 THEN cut - 1 - 1 + 1 ELSE 0
          /\ \A m \in 1 .. cut - 1 - 1 + 1 : left[m] = working[r][1 + m - 1]
      BY <1>2, <2>1, SubSeqProperties
    <2> HIDE DEF left
    <2>3. cut > 0 => Len(left) = cut - 1
      BY <1>2, <2>2
    <2>4. ASSUME NEW m \in 1 .. cut - 1 PROVE left[m] = working[r][m]
      <3>1. m \in 1 .. cut - 1 - 1 + 1 /\ 1 + m - 1 = m
        BY <1>2
      <3> QED
        BY <2>2, <3>1
    <2> QED
      BY <2>2, <2>3, <2>4
  <1> HIDE DEF line, left
  <1>15. /\ working'[r] = left
         /\ at'[r] = IF LimitReached(r) \/ cut = 0 THEN "ok" ELSE "segments"
         /\ \A s \in Readers \ {r} : working'[s] = working[s] /\ at'[s] = at[s]
    BY <1>1, <1>4 DEF TypeOK, left
  <1>16. TypeOK'
    <2>1. at' \in [Readers -> Places]
      BY <1>1, <1>4 DEF TypeOK, Places
    <2>2. working' \in [Readers -> Seq(Bytes)]
      BY <1>1, <1>4, <1>14 DEF TypeOK, left
    <2> QED
      BY <1>1, <1>3, <1>11, <2>1, <2>2, ReaderTyped DEF TypeOK
  <1>17. CASE at'[r] = "ok"
    <2>1. LimitReached(r) \/ cut = 0
      BY <1>15, <1>17
    <2>2. i - 1 <= 0 \/ Len(found'[r]) = limit
      BY <1>2, <1>4, <1>13, <2>1 DEF LimitReached, limit
    <2>3. i - 1 \in Int
      BY <1>2
    <2>4. Newest(found'[r], bytes, limit, since)
      <3> HIDE DEF i
      <3> QED
        BY <1>2, <1>6, <1>12, <1>13, <2>2, <2>3, WalkOver
    <2>5. NewestAnswer(r)'
      BY <1>3, <1>7, <2>4 DEF NewestAnswer, bytes, F, limit, since
    <2>6. ReaderOK(r)'
      BY <1>3, <1>5, <1>17, <2>5 DEF ReaderOK, Backward, Forward, OldestAnswer, Answered
    <2> QED
      BY <1>3, <1>11, <1>15, <1>16, <2>6, OthersRest
  <1>18. CASE at'[r] = "segments"
    <2>1. ~LimitReached(r) /\ cut > 0
      BY <1>15, <1>18
    <2>2. Len(found'[r]) < limit
      BY <1>2, <1>13, <2>1 DEF LimitReached, limit
    <2>3. Walked(r)' = i - 2
      <3>1. Walked(r)' = P + Len(left)
        BY <1>3, <1>15 DEF Walked, P
      <3>2. Len(left) = cut - 1 /\ cut \in Int /\ P \in Int
        BY <1>2, <1>14, <2>1
      <3>3. P + (cut - 1) = i - 2
        BY <3>2
      <3> QED
        BY <3>1, <3>2, <3>3
    <2>4. i - 2 <= F /\ file[(i - 2) + 1] = Newline
      <3>1. (i - 2) + 1 = i - 1 /\ i - 1 \in 1 .. F /\ i \in Int
        BY <1>2, <1>8, <2>1
      <3> QED
        BY <1>2, <1>8, <2>1, <3>1
    <2>5. ASSUME NEW m \in 1 .. Len(left) PROVE left[m] = file[P + m]
      <3>1. m \in 1 .. cut - 1 /\ m \in 1 .. W
        BY <1>2, <1>14, <2>1
      <3> QED
        BY <1>5, <1>14, <2>1, <3>1
    <2>6. NewestBeyond(i - 2, found'[r], bytes, since)
      <3>1. i \in Int /\ bytes[i - 1] = Newline
        BY <1>2, <1>8, <2>1
      <3> HIDE DEF i
      <3> QED
        BY <1>6, <1>12, <3>1, SkipNewline
    <2>7. Backward(r)'
      <3> SUFFICES /\ query[r].order = "newest_first" /\ Len(found'[r]) < limit
                   /\ Walked(r)' <= F
                   /\ Walked(r)' = F \/ file[Walked(r)' + 1] = Newline
                   /\ \A m \in 1 .. Len(left) : left[m] = file[P + m]
                   /\ NewestBeyond(Walked(r)', found'[r], bytes, since)
        BY <1>3, <1>7, <1>15 DEF Backward, bytes, F, P, limit, since
      <3> HIDE DEF i
      <3> QED
        BY <1>5, <2>2, <2>3, <2>4, <2>5, <2>6
    <2>8. ReaderOK(r)'
      BY <1>18, <2>7 DEF ReaderOK, Forward, NewestAnswer, OldestAnswer, Answered
    <2> QED
      BY <1>3, <1>11, <1>15, <1>16, <2>8, OthersRest
  <1> QED
    BY <1>15, <1>17, <1>18

\* A slice of a prefix is the slice of the file.
LEMMA PrefixSlice ==
    ASSUME file \in Seq(Bytes), NEW n \in 0 .. Len(file), NEW i \in Int, NEW j \in Int,
           1 <= i, i - 1 <= j, j <= n
    PROVE  SubSeq(Before(n), i, j) = SubSeq(file, i, j)
  <1> DEFINE one == SubSeq(Before(n), i, j)
             two == SubSeq(file, i, j)
  <1>1. /\ Before(n) \in Seq(Bytes) /\ Len(Before(n)) = n /\ Len(file) \in Nat
        /\ \A m \in 1 .. n : Before(n)[m] = file[m]
    BY BeforeFacts, LenProperties
  <1>2. \A m \in i .. j : Before(n)[m] \in Bytes /\ file[m] \in Bytes /\ Before(n)[m] = file[m]
    BY <1>1, ElementOfSeq
  <1>3. /\ one \in Seq(Bytes) /\ Len(one) = IF i <= j THEN j - i + 1 ELSE 0
        /\ \A m \in 1 .. j - i + 1 : one[m] = Before(n)[i + m - 1]
    BY <1>1, <1>2, SubSeqProperties
  <1>4. /\ two \in Seq(Bytes) /\ Len(two) = IF i <= j THEN j - i + 1 ELSE 0
        /\ \A m \in 1 .. j - i + 1 : two[m] = file[i + m - 1]
    BY <1>1, <1>2, SubSeqProperties
  <1> HIDE DEF one, two
  <1>5. ASSUME NEW m \in 1 .. Len(one) PROVE one[m] = two[m]
    <2>1. m \in 1 .. j - i + 1 /\ i + m - 1 \in i .. j
      BY <1>3
    <2> QED
      BY <1>2, <1>3, <1>4, <2>1
  <1>6. one = two
    BY <1>3, <1>4, <1>5, SeqEqual
  <1> QED
    BY <1>6 DEF one, two

\* The forward scan takes a line: for every stable prefix it still has what is
\* recorded there.
LEMMA ScanStep ==
    ASSUME TypeOK, NEW r \in Readers, ReaderOK(r), at[r] = "lines", pos[r] < Len(file),
           NEW end \in pos[r] + 1 .. Len(file) + 1,
           end <= Len(file) => file[end] = Newline,
           \A i \in pos[r] + 1 .. end - 1 : file[i] # Newline,
           Collect(r, SubSeq(file, pos[r] + 1, end - 1)),
           NEW Q, Q = IF end <= Len(file) THEN end ELSE Len(file),
           NEW n \in 0 .. file_len[r], Stable(r, n)
    PROVE  \E k \in 0 .. Len(found'[r]) :
               /\ OldestUpTo(Q, k, found'[r], Before(n), query[r].since)
               /\ k < Len(found'[r]) => n < Q
  <1> DEFINE P == pos[r]
             L == Len(file)
             since == query[r].since
             bytes == Before(n)
             line == SubSeq(file, P + 1, end - 1)
             events == found[r]
             more == found'[r]
  <1>1. /\ file \in Seq(Bytes) /\ L \in Nat /\ file_len[r] \in 0 .. L /\ P \in 0 .. L
        /\ events \in Seq(Events) /\ Len(events) \in Nat
    BY ReaderFacts
  <1>2. n \in 0 .. L /\ Q \in Int /\ P < Q /\ Q \in end - 1 .. end /\ end \in Int /\ Q <= L
    BY <1>1
  <1>3. /\ bytes \in Seq(Bytes) /\ Len(bytes) = n
        /\ \A i \in 1 .. n : bytes[i] = file[i]
    BY <1>1, <1>2, BeforeFacts
  <1>4. P = 0 \/ file[P] = Newline \/ file_len[r] <= P
    BY DEF ReaderOK, Forward
  <1>5. PICK k \in 0 .. Len(events) :
            /\ OldestUpTo(P, k, events, bytes, since)
            /\ k < Len(events) => n < P
    BY DEF ReaderOK, Forward
  <1>6. /\ found' \in [Readers -> Seq(Events)]
        /\ \/ \E e \in Events : /\ Matches(line, since, e)
                                /\ more = Append(events, e)
                                /\ Len(more) = Len(events) + 1
           \/ /\ \A e \in Events : ~Matches(line, since, e)
              /\ more = events
    BY CollectFacts
  <1>7. more \in Seq(Events) /\ Len(more) \in Nat
    BY <1>6, LenProperties
  <1> HIDE DEF since, bytes, line, events, more, L
  <1>8. CASE P < n
    <2>1. k = Len(events)
      BY <1>1, <1>2, <1>5, <1>8
    <2>2. n = L \/ file[n] = Newline
      BY <1>1, <1>8 DEF Stable, L
    <2>3. end - 1 <= n
      BY <1>1, <1>2, <1>8, <2>2 DEF L
    <2>4. IsLine(bytes, P + 1, end - 1)
      <3>1. P + 1 = 1 \/ bytes[(P + 1) - 1] = Newline
        <4>1. CASE P = 0
          BY <4>1
        <4>2. CASE P # 0
          <5>1. P \in 1 .. n /\ (P + 1) - 1 = P /\ file[P] = Newline
            BY <1>1, <1>2, <1>4, <1>8, <4>2
          <5> QED
            BY <1>3, <5>1
        <4> QED
          BY <4>1, <4>2
      <3>2. end - 1 = n \/ bytes[(end - 1) + 1] = Newline
        <4> SUFFICES ASSUME end - 1 # n PROVE bytes[(end - 1) + 1] = Newline
          OBVIOUS
        <4>1. end \in 1 .. n /\ end <= Len(file) /\ (end - 1) + 1 = end
          BY <1>1, <1>2, <2>3 DEF L
        <4> QED
          BY <1>3, <4>1
      <3>3. ASSUME NEW m \in P + 1 .. end - 1 PROVE bytes[m] # Newline
        <4>1. m \in 1 .. n
          BY <1>1, <1>2, <2>3
        <4> QED
          BY <1>3, <4>1
      <3>4. P + 1 \in Int /\ end - 1 \in Int /\ 1 <= P + 1 /\ (P + 1) - 1 <= end - 1
        BY <1>1, <1>2
      <3> QED
        BY <1>3, <2>3, <3>1, <3>2, <3>3, <3>4 DEF IsLine
    <2>5. line = SubSeq(bytes, P + 1, end - 1)
      <3>1. P + 1 \in Int /\ end - 1 \in Int /\ 1 <= P + 1 /\ (P + 1) - 1 <= end - 1
        BY <1>1, <1>2
      <3> QED
        BY <1>1, <1>2, <2>3, <3>1, PrefixSlice DEF line, bytes, L
    <2>6. /\ \A e \in Events : Matches(SubSeq(bytes, P + 1, end - 1), since, e) =>
                 OldestUpTo(Q, Len(events) + 1, Append(events, e), bytes, since)
          /\ (\A e \in Events : ~Matches(SubSeq(bytes, P + 1, end - 1), since, e)) =>
                 OldestUpTo(Q, Len(events), events, bytes, since)
      <3>1. Q \in end - 1 .. (end - 1) + 1 /\ P \in Int
        BY <1>1, <1>2
      <3>2. OldestUpTo(P, Len(events), events, bytes, since)
        BY <1>5, <2>1
      <3> DEFINE j == end - 1
      <3>3. IsLine(bytes, P + 1, j) /\ Q \in j .. j + 1
        BY <2>4, <3>1
      <3> HIDE DEF j, P
      <3>4. /\ \A e \in Events : Matches(SubSeq(bytes, P + 1, j), since, e) =>
                   OldestUpTo(Q, Len(events) + 1, Append(events, e), bytes, since)
            /\ (\A e \in Events : ~Matches(SubSeq(bytes, P + 1, j), since, e)) =>
                   OldestUpTo(Q, Len(events), events, bytes, since)
        BY <1>1, <1>3, <3>1, <3>2, <3>3, ScanLine
      <3> QED
        BY <3>4 DEF j
    <2>7. OldestUpTo(Q, Len(more), more, bytes, since)
      BY <1>6, <2>5, <2>6
    <2>8. Len(more) \in 0 .. Len(more) /\ ~(Len(more) < Len(more))
      BY <1>7
    <2> QED
      BY <2>7, <2>8 DEF more, bytes, since
  <1>9. CASE ~(P < n)
    <2>1. /\ OldestUpTo(Q, k, events, bytes, since)
          /\ \A e \in Events : OldestUpTo(Q, k, Append(events, e), bytes, since)
      <3>1. P \in Int /\ P <= Q /\ Len(bytes) <= P
        BY <1>1, <1>2, <1>3, <1>9
      <3> HIDE DEF P
      <3> QED
        BY <1>1, <1>2, <1>3, <1>5, <3>1, ScanBeyond
    <2>2. OldestUpTo(Q, k, more, bytes, since)
      BY <1>6, <2>1
    <2>3. k \in 0 .. Len(more) /\ n < Q
      BY <1>1, <1>2, <1>6, <1>9
    <2> QED
      BY <2>2, <2>3 DEF more, bytes, since
  <1> QED
    BY <1>8, <1>9

LEMMA NextLineStep ==
    ASSUME AuditInv, NEW r \in Readers, NextLine(r)
    PROVE  AuditInv'
  <1> DEFINE L == Len(file)
             F == file_len[r]
             limit == query[r].limit
             since == query[r].since
  <1>1. TypeOK /\ ReaderOK(r)
    BY DEF AuditInv
  <1>2. /\ file \in Seq(Bytes) /\ L \in Nat /\ F \in 0 .. L /\ pos[r] \in 0 .. L
        /\ found[r] \in Seq(Events) /\ Len(found[r]) \in Nat
        /\ limit \in Nat /\ since \in Nat
    BY <1>1, ReaderFacts, QueryFacts
  <1>3. /\ file' = file /\ query' = query /\ file_len' = file_len /\ working' = working
        /\ UNCHANGED sink /\ at[r] = "lines" /\ pos[r] < L
    BY DEF NextLine
  <1>4. PICK end \in pos[r] + 1 .. L + 1 :
            /\ end <= L => file[end] = Newline
            /\ \A i \in pos[r] + 1 .. end - 1 : file[i] # Newline
            /\ pos' = [pos EXCEPT ![r] = IF end <= L THEN end ELSE L]
            /\ \/ /\ Collect(r, SubSeq(file, pos[r] + 1, end - 1))
                  /\ at' = [at EXCEPT ![r] = IF LimitReached(r) THEN "ok" ELSE "lines"]
               \/ /\ at' = [at EXCEPT ![r] = "error"]
                  /\ UNCHANGED found
    BY DEF NextLine
  <1> DEFINE Q == IF end <= L THEN end ELSE L
  <1>5. Q \in 0 .. L /\ pos[r] < Q
    BY <1>2, <1>3
  <1>6. pos' \in [Readers -> 0 .. L] /\ pos'[r] = Q /\ \A s \in Readers \ {r} : pos'[s] = pos[s]
    <2>1. pos \in [Readers -> 0 .. L] /\ pos' = [pos EXCEPT ![r] = Q]
      BY <1>1, <1>4 DEF TypeOK
    <2> HIDE DEF Q, L
    <2> QED
      BY <1>5, <2>1
  <1>7. at' \in [Readers -> Places] /\ \A s \in Readers \ {r} : at'[s] = at[s]
    <2>1. \E a \in {"ok", "lines", "error"} : at' = [at EXCEPT ![r] = a]
      BY <1>4
    <2> QED
      BY <1>1, <2>1 DEF TypeOK, Places
  <1>8. CASE at' = [at EXCEPT ![r] = "error"] /\ UNCHANGED found
    <2>1. at'[r] = "error"
      BY <1>1, <1>8 DEF TypeOK
    <2>2. TypeOK'
      BY <1>1, <1>3, <1>6, <1>7, <1>8, ReaderTyped DEF TypeOK
    <2>3. ReaderOK(r)'
      BY <2>1 DEF ReaderOK, Backward, Forward, NewestAnswer, OldestAnswer, Answered
    <2> QED
      BY <1>3, <1>6, <1>7, <1>8, <2>2, <2>3, OthersRest
  <1>9. CASE /\ Collect(r, SubSeq(file, pos[r] + 1, end - 1))
             /\ at' = [at EXCEPT ![r] = IF LimitReached(r) THEN "ok" ELSE "lines"]
    <2>1. /\ found' \in [Readers -> Seq(Events)]
          /\ \A s \in Readers \ {r} : found'[s] = found[s]
          /\ Len(found'[r]) = Len(found[r]) + 1 \/ found'[r] = found[r]
      BY <1>1, <1>9, CollectFacts
    <2>2. TypeOK'
      BY <1>1, <1>3, <1>6, <1>7, <2>1, ReaderTyped DEF TypeOK
    <2>3. query[r].order = "oldest_first" /\ Len(found[r]) < limit
      BY <1>1, <1>3 DEF ReaderOK, Forward
    <2>4. Len(found'[r]) \in Nat /\ Len(found'[r]) <= limit
      BY <1>2, <2>1, <2>3, LenProperties
    <2>5. ASSUME NEW n \in 0 .. F, Stable(r, n)
          PROVE  \E k \in 0 .. Len(found'[r]) :
                     /\ OldestUpTo(Q, k, found'[r], Before(n), since)
                     /\ k < Len(found'[r]) => n < Q
      BY <1>1, <1>3, <1>4, <1>9, <2>5, ScanStep
    <2>6. \A n \in 0 .. F : Stable(r, n)' = Stable(r, n) /\ Before(n)' = Before(n)
      BY <1>3 DEF Stable, Before
    <2>7. at'[r] = IF LimitReached(r) THEN "ok" ELSE "lines"
      BY <1>1, <1>9 DEF TypeOK
    <2>8. Q = 0 \/ file[Q] = Newline \/ F <= Q
      BY <1>2, <1>4
    <2> HIDE DEF Q, F, L, limit, since
    <2>9. CASE ~LimitReached(r)
      <3>1. Len(found'[r]) < limit
        BY <1>2, <2>4, <2>9 DEF LimitReached, limit
      <3>2. Forward(r)'
        <4> SUFFICES /\ query[r].order = "oldest_first"
                     /\ Len(found'[r]) < limit
                     /\ Q = 0 \/ file[Q] = Newline \/ F <= Q
                     /\ \A n \in 0 .. F :
                           Stable(r, n)' =>
                               \E k \in 0 .. Len(found'[r]) :
                                   /\ OldestUpTo(Q, k, found'[r], Before(n)', since)
                                   /\ k < Len(found'[r]) => n < Q
          BY <1>3, <1>6 DEF Forward, F, limit, since
        <4> QED
          BY <2>3, <2>5, <2>6, <2>8, <3>1
      <3>3. ReaderOK(r)'
        BY <2>7, <2>9, <3>2 DEF ReaderOK, Backward, NewestAnswer, OldestAnswer, Answered
      <3> QED
        BY <1>3, <1>6, <1>7, <2>1, <2>2, <3>3, OthersRest
    <2>10. CASE LimitReached(r)
      <3>1. Len(found'[r]) = limit
        BY <1>2, <2>4, <2>10 DEF LimitReached, limit
      <3>2. ASSUME NEW n \in 0 .. F, Stable(r, n)
            PROVE  \E k \in 0 .. Len(found'[r]) :
                       /\ OldestAmong(k, found'[r], Before(n), limit, since)
                       /\ n = L => k = Len(found'[r])
        <4>1. PICK k \in 0 .. Len(found'[r]) :
                  /\ OldestUpTo(Q, k, found'[r], Before(n), since)
                  /\ k < Len(found'[r]) => n < Q
          BY <2>5, <3>2
        <4>2. n \in 0 .. L
          BY <1>2
        <4>3. Before(n) \in Seq(Bytes) /\ Len(Before(n)) = n
          BY <1>2, <4>2, BeforeFacts DEF L
        <4>4. k \in Nat /\ Q \in Int /\ k <= limit /\ (Len(Before(n)) <= Q \/ k = limit)
          BY <1>2, <1>5, <2>4, <3>1, <4>1, <4>3
        <4>5. OldestAmong(k, found'[r], Before(n), limit, since)
          BY <1>2, <4>1, <4>3, <4>4, ScanOver
        <4>6. n = L => k = Len(found'[r])
          BY <1>2, <1>5, <2>4, <4>1
        <4> QED
          BY <4>5, <4>6
      <3>3. OldestAnswer(r)'
        <4> SUFFICES \A n \in 0 .. F :
                         Stable(r, n)' =>
                             \E k \in 0 .. Len(found'[r]) :
                                 /\ OldestAmong(k, found'[r], Before(n)', limit, since)
                                 /\ n = L => k = Len(found'[r])
          BY <1>3 DEF OldestAnswer, F, L, limit, since
        <4> QED
          BY <2>6, <3>2
      <3>4. ReaderOK(r)'
        BY <1>3, <2>3, <2>7, <2>10, <3>3 DEF ReaderOK, Backward, Forward, NewestAnswer, Answered
      <3> QED
        BY <1>3, <1>6, <1>7, <2>1, <2>2, <3>4, OthersRest
    <2> QED
      BY <2>9, <2>10
  <1> QED
    BY <1>4, <1>8, <1>9

LEMMA EndOfFileStep ==
    ASSUME AuditInv, NEW r \in Readers, EndOfFile(r)
    PROVE  AuditInv'
  <1> DEFINE L == Len(file)
             F == file_len[r]
             limit == query[r].limit
             since == query[r].since
  <1>1. TypeOK /\ ReaderOK(r)
    BY DEF AuditInv
  <1>2. /\ file \in Seq(Bytes) /\ L \in Nat /\ F \in 0 .. L
        /\ found[r] \in Seq(Events) /\ Len(found[r]) \in Nat
        /\ limit \in Nat /\ since \in Nat
    BY <1>1, ReaderFacts, QueryFacts
  <1>3. /\ file' = file /\ query' = query /\ file_len' = file_len /\ pos' = pos
        /\ working' = working /\ found' = found /\ UNCHANGED sink
        /\ at' = [at EXCEPT ![r] = "ok"] /\ at'[r] = "ok" /\ at[r] = "lines" /\ pos[r] = L
    BY <1>1 DEF EndOfFile, TypeOK
  <1>4. TypeOK'
    <2>1. at' \in [Readers -> Places]
      BY <1>1, <1>3 DEF TypeOK, Places
    <2> QED
      BY <1>1, <1>3, <2>1, ReaderTyped DEF TypeOK
  <1>5. query[r].order = "oldest_first" /\ Len(found[r]) < limit
    BY <1>1, <1>3 DEF ReaderOK, Forward
  <1>6. ASSUME NEW n \in 0 .. F, Stable(r, n)
        PROVE  \E k \in 0 .. Len(found[r]) :
                   /\ OldestAmong(k, found[r], Before(n), limit, since)
                   /\ n = L => k = Len(found[r])
    <2>1. PICK k \in 0 .. Len(found[r]) :
              /\ OldestUpTo(L, k, found[r], Before(n), since)
              /\ k < Len(found[r]) => n < L
      BY <1>1, <1>3, <1>6 DEF ReaderOK, Forward
    <2> HIDE DEF L, F, limit, since
    <2>2. n \in 0 .. L
      BY <1>2
    <2>3. Before(n) \in Seq(Bytes) /\ Len(Before(n)) = n
      BY <1>2, <2>2, BeforeFacts DEF L
    <2>4. k \in Nat /\ L \in Int /\ k <= limit /\ Len(Before(n)) <= L
      BY <1>2, <1>5, <2>2, <2>3
    <2>5. OldestAmong(k, found[r], Before(n), limit, since)
      BY <1>2, <2>1, <2>3, <2>4, ScanOver
    <2>6. n = L => k = Len(found[r])
      BY <1>2, <2>1
    <2> QED
      BY <2>5, <2>6
  <1>7. \A n \in 0 .. F : Stable(r, n)' = Stable(r, n) /\ Before(n)' = Before(n)
    BY <1>3 DEF Stable, Before
  <1> HIDE DEF L, F, limit, since
  <1>8. OldestAnswer(r)'
    <2> SUFFICES \A n \in 0 .. F :
                     Stable(r, n)' =>
                         \E k \in 0 .. Len(found[r]) :
                             /\ OldestAmong(k, found[r], Before(n)', limit, since)
                             /\ n = L => k = Len(found[r])
      BY <1>3 DEF OldestAnswer, F, L, limit, since
    <2> QED
      BY <1>6, <1>7
  <1>9. ReaderOK(r)'
    BY <1>3, <1>5, <1>8 DEF ReaderOK, Backward, Forward, NewestAnswer, Answered
  <1> QED
    BY <1>1, <1>3, <1>4, <1>9, OthersRest DEF TypeOK

-------------------------------------------------------------------------------
(***************************************************************************)
(* The theorems                                                             *)
(***************************************************************************)

\* Whatever writers append and however their writes fail, every reader has
\* collected what is recorded in the bytes it is past (the loops of read_events
\* and read_newest_first).
THEOREM AuditInductive == Spec => []AuditInv
  <1>1. Init => AuditInv
    BY InitAudit
  <1>2. AuditInv /\ [Next]_vars => AuditInv'
    <2> SUFFICES ASSUME AuditInv, [Next]_vars PROVE AuditInv'
      OBVIOUS
    <2>1. CASE UNCHANGED vars
      <3>1. /\ file' = file /\ query' = query /\ at' = at /\ file_len' = file_len
            /\ pos' = pos /\ working' = working /\ found' = found /\ UNCHANGED sink
        BY <2>1 DEF vars, reading
      <3>2. TypeOK'
        BY <3>1 DEF AuditInv, TypeOK, sink
      <3>3. ASSUME NEW r \in Readers PROVE ReaderOK(r)'
        BY <3>1, ReaderRests DEF AuditInv
      <3> QED
        BY <3>2, <3>3 DEF AuditInv
    <2>2. ASSUME NEW w \in Writers,
                 (\E e \in Events : Open(w, e)) \/ WriteLine(w) \/ WriteNewline(w) \/ Fail(w)
          PROVE  AuditInv'
      BY <2>2, WriterStep
    <2>3. ASSUME NEW r \in Readers,
                 \/ ReadEvents(r) \/ ReadChunk(r) \/ WalkSegment(r)
                 \/ KeepFragment(r) \/ NextLine(r) \/ EndOfFile(r)
          PROVE  AuditInv'
      BY <2>3, ReadEventsStep, ReadChunkStep, WalkSegmentStep, KeepFragmentStep, NextLineStep,
         EndOfFileStep
    <2> QED
      BY <2>1, <2>2, <2>3 DEF Next
  <1> QED
    BY <1>1, <1>2, PTL DEF Spec

\* The backward reader returns exactly the last `limit` events of the file as it
\* was when it was opened, for every chunk size (read_newest_first).
THEOREM NewestExact == Spec => []NewestFirstIsExact
  <1>1. AuditInv => NewestFirstIsExact
    BY DEF AuditInv, ReaderOK, NewestAnswer, NewestFirstIsExact, Before
  <1> QED
    BY <1>1, AuditInductive, PTL

\* The forward scan begins with exactly the events of the complete lines that were
\* there when it began, and returns no others when nothing was added
\* (read_events, OldestFirst).
THEOREM OldestExact == Spec => []OldestFirstIsExact
  <1>1. AuditInv => OldestFirstIsExact
    <2> SUFFICES ASSUME AuditInv, NEW r \in Readers, Answered(r, "oldest_first")
                 PROVE  /\ \A n \in {i \in 1 .. file_len[r] : file[i] = Newline} :
                              \E k \in 0 .. Len(found[r]) :
                                  OldestAmong(k, found[r], SubSeq(file, 1, n),
                                              query[r].limit, query[r].since)
                        /\ Len(file) = file_len[r] =>
                              OldestAmong(Len(found[r]), found[r], file,
                                          query[r].limit, query[r].since)
      BY DEF OldestFirstIsExact
    <2>1. \A n \in 0 .. file_len[r] :
              Stable(r, n) =>
                  \E k \in 0 .. Len(found[r]) :
                      /\ OldestAmong(k, found[r], Before(n), query[r].limit, query[r].since)
                      /\ n = Len(file) => k = Len(found[r])
      BY DEF AuditInv, ReaderOK, OldestAnswer
    <2>2. file \in Seq(Bytes) /\ Len(file) \in Nat /\ file_len[r] \in 0 .. Len(file)
      BY ReaderFacts DEF AuditInv
    <2>3. ASSUME NEW n \in {i \in 1 .. file_len[r] : file[i] = Newline}
          PROVE  \E k \in 0 .. Len(found[r]) :
                     OldestAmong(k, found[r], SubSeq(file, 1, n), query[r].limit, query[r].since)
      <3>1. n \in 0 .. file_len[r] /\ Stable(r, n)
        BY <2>2 DEF Stable
      <3> QED
        BY <2>1, <3>1 DEF Before
    <2>4. ASSUME Len(file) = file_len[r]
          PROVE  OldestAmong(Len(found[r]), found[r], file, query[r].limit, query[r].since)
      <3>1. Len(file) \in 0 .. file_len[r] /\ Stable(r, Len(file))
        BY <2>2, <2>4 DEF Stable
      <3>2. OldestAmong(Len(found[r]), found[r], Before(Len(file)), query[r].limit, query[r].since)
        BY <2>1, <3>1
      <3>3. Before(Len(file)) = file
        BY <2>2, SubSeqFull DEF Before
      <3> QED
        BY <3>2, <3>3
    <2> QED
      BY <2>3, <2>4
  <1> QED
    BY <1>1, AuditInductive, PTL

-------------------------------------------------------------------------------
(***************************************************************************)
(* One writer who never fails.  Between events the file ends with a newline,   *)
(* and every acknowledged event is a line that has its newline.               *)
(***************************************************************************)
LastByte(i, e) == i + Len(Text[e]) - 1

Between == file = <<>> \/ file[Len(file)] = Newline

Ending(e) == \E i \in DOMAIN file : EventAt(file, i, e) /\ LastByte(i, e) = Len(file)

Complete(e) == \E i \in DOMAIN file : EventAt(file, i, e) /\ LastByte(i, e) < Len(file)

SoleInv ==
    /\ \A w \in Writers : IF pc[w] = "newline" THEN Ending(writing[w]) ELSE Between
    /\ \A e \in acked : Complete(e)

\* A line that has its newline stays one.
LEMMA CompleteStays ==
    ASSUME TypeOK, Grows, NEW e \in Events, Complete(e)
    PROVE  Complete(e)'
  <1>1. /\ file \in Seq(Bytes) /\ Len(file) \in Nat /\ DOMAIN file = 1 .. Len(file)
        /\ file' \in Seq(Bytes) /\ Len(file') \in Nat /\ DOMAIN file' = 1 .. Len(file')
        /\ Len(file) <= Len(file')
        /\ \A m \in 1 .. Len(file) : file'[m] = file[m]
    BY LenProperties DEF TypeOK, Grows
  <1>2. PICK i \in 1 .. Len(file) : EventAt(file, i, e) /\ LastByte(i, e) < Len(file)
    BY <1>1 DEF Complete
  <1>3. Len(Text[e]) \in Nat /\ Len(Text[e]) >= 1
    BY TextFacts
  <1> DEFINE end == i + Len(Text[e]) - 1
  <1>4. /\ end \in 1 .. Len(file) /\ end + 1 \in 1 .. Len(file)
        /\ SubSeq(file, i, end) = Text[e]
        /\ i = 1 \/ file[i - 1] = Newline
        /\ file[end + 1] = Newline
    BY <1>1, <1>2, <1>3 DEF EventAt, LastByte
  <1>5. \A m \in 1 .. Len(Text[e]) : file[i + m - 1] = Text[e][m]
    BY <1>1, <1>3, <1>4, SliceIsText
  <1>6. ASSUME NEW m \in 1 .. Len(Text[e]) PROVE file'[i + m - 1] = Text[e][m]
    <2>1. i + m - 1 >= 1 /\ i + m - 1 <= end
      BY <1>3
    <2>2. end <= Len(file) /\ end \in Int /\ i \in Int /\ Len(file) \in Int
      BY <1>1, <1>4
    <2> DEFINE q == i + m - 1
    <2>3. q \in Int
      BY <2>2
    <2> HIDE DEF end
    <2>4. q \in 1 .. Len(file)
      BY <2>1, <2>2, <2>3
    <2>5. file[q] = Text[e][m]
      BY <1>5
    <2> HIDE DEF q
    <2>6. file'[q] = file[q]
      BY <1>1, <2>4
    <2> QED
      BY <2>5, <2>6 DEF q
  <1>7. SubSeq(file', i, end) = Text[e]
    BY <1>1, <1>3, <1>4, <1>6, SliceIsText
  <1>8. i = 1 \/ file'[i - 1] = Newline
    BY <1>1, <1>4
  <1>9. file'[end + 1] = Newline /\ end < Len(file') /\ i \in DOMAIN file'
    BY <1>1, <1>4
  <1>10. EventAt(file', i, e) /\ LastByte(i, e) < Len(file')
    BY <1>7, <1>8, <1>9 DEF EventAt, LastByte
  <1>11. \E h \in DOMAIN file' : EventAt(file', h, e) /\ LastByte(h, e) < Len(file')
    BY <1>9, <1>10
  <1> QED
    BY <1>11 DEF Complete, EventAt, LastByte

\* The event written after a newline is a line.
LEMMA WriteLineEnds ==
    ASSUME TypeOK, Between, NEW w \in Writers, WriteLine(w)
    PROVE  Ending(writing[w])'
  <1> DEFINE e == writing[w]
             text == Text[e]
             L == Len(file)
             i == L + 1
             end == i + Len(text) - 1
  <1>1. /\ file \in Seq(Bytes) /\ L \in Nat /\ e \in Events
        /\ file' = file \o text /\ writing' = writing
    BY LenProperties DEF TypeOK, WriteLine
  <1>2. text \in Seq(Bytes) /\ Len(text) \in Nat /\ Len(text) >= 1
    BY <1>1, TextFacts
  <1>3. /\ file \o text \in Seq(Bytes)
        /\ Len(file \o text) = L + Len(text)
        /\ \A m \in 1 .. L + Len(text) :
              (file \o text)[m] = IF m <= L THEN file[m] ELSE text[m - L]
    BY <1>1, <1>2, ConcatProperties
  <1> HIDE DEF e, text, L
  <1>4. /\ file' \in Seq(Bytes) /\ Len(file') = L + Len(text)
        /\ \A m \in 1 .. L : file'[m] = file[m]
        /\ \A m \in 1 .. Len(text) : file'[i + m - 1] = text[m]
    <2>1. ASSUME NEW m \in 1 .. L PROVE file'[m] = file[m]
      <3>1. m \in 1 .. L + Len(text) /\ m <= L
        BY <1>1, <1>2
      <3> QED
        BY <1>1, <1>3, <3>1
    <2>2. ASSUME NEW m \in 1 .. Len(text) PROVE file'[i + m - 1] = text[m]
      <3>1. i + m - 1 \in 1 .. L + Len(text) /\ ~(i + m - 1 <= L) /\ (i + m - 1) - L = m
        BY <1>1, <1>2
      <3> QED
        BY <1>1, <1>3, <3>1
    <2> QED
      BY <1>1, <1>3, <2>1, <2>2
  <1>5. end = Len(file') /\ i \in Int /\ end \in Int /\ 1 <= i /\ i \in DOMAIN file'
    BY <1>1, <1>2, <1>4, LenProperties
  <1>6. SubSeq(file', i, end) = text
    <2>1. Len(text) = end - i + 1
      BY <1>1, <1>2
    <2>2. end <= Len(file')
      BY <1>5
    <2> HIDE DEF i, end
    <2> QED
      BY <1>1, <1>4, <1>5, <2>1, <2>2, SliceIsText DEF text
  <1>7. i = 1 \/ file'[i - 1] = Newline
    <2>1. CASE file = <<>>
      BY <2>1 DEF L
    <2>2. CASE file # <<>>
      <3>1. L \in 1 .. L /\ i - 1 = L
        BY <1>1, <2>2, EmptySeq DEF L
      <3>2. file[L] = Newline
        BY <2>2 DEF Between, L
      <3> QED
        BY <1>4, <3>1, <3>2
    <2> QED
      BY <2>1, <2>2
  <1>8. EventAt(file', i, e) /\ LastByte(i, e) = Len(file')
    BY <1>5, <1>6, <1>7 DEF EventAt, LastByte, text
  <1>9. \E h \in DOMAIN file' : EventAt(file', h, e) /\ LastByte(h, e) = Len(file')
    BY <1>5, <1>8
  <1> QED
    BY <1>1, <1>9 DEF Ending, EventAt, LastByte, e

\* The newline completes it.
LEMMA WriteNewlineCompletes ==
    ASSUME TypeOK, NEW w \in Writers, WriteNewline(w), Ending(writing[w])
    PROVE  Between' /\ Complete(writing[w])'
  <1> DEFINE e == writing[w]
             L == Len(file)
  <1>1. /\ file \in Seq(Bytes) /\ L \in Nat /\ e \in Events /\ DOMAIN file = 1 .. L
        /\ file' = Append(file, Newline) /\ writing' = writing /\ Newline \in Bytes
    BY LenProperties DEF TypeOK, WriteNewline, Bytes
  <1>2. /\ file' \in Seq(Bytes) /\ Len(file') = L + 1 /\ DOMAIN file' = 1 .. L + 1
        /\ \A m \in 1 .. L : file'[m] = file[m]
        /\ file'[L + 1] = Newline
    BY <1>1, AppendProperties, LenProperties
  <1>3. PICK i \in 1 .. L : EventAt(file, i, e) /\ LastByte(i, e) = L
    BY <1>1 DEF Ending
  <1>4. Len(Text[e]) \in Nat /\ Len(Text[e]) >= 1
    BY <1>1, TextFacts
  <1> HIDE DEF e, L
  <1>5. i + Len(Text[e]) - 1 = L /\ SubSeq(file, i, L) = Text[e] /\ (i = 1 \/ file[i - 1] = Newline)
    BY <1>3 DEF EventAt, LastByte
  <1>6. Len(Text[e]) = L - i + 1
    BY <1>1, <1>4, <1>5
  <1>7. \A m \in 1 .. Len(Text[e]) : file[i + m - 1] = Text[e][m]
    <2>1. i \in Int /\ L \in Int /\ 1 <= i /\ L <= Len(file)
      BY <1>1 DEF L
    <2> QED
      BY <1>1, <1>5, <2>1, SliceIsText
  <1>8. \A m \in 1 .. Len(Text[e]) : file'[i + m - 1] = Text[e][m]
    BY <1>1, <1>2, <1>6, <1>7
  <1>9. SubSeq(file', i, L) = Text[e]
    <2>1. L <= Len(file') /\ L \in Int /\ i \in Int /\ 1 <= i
      BY <1>1, <1>2
    <2> QED
      BY <1>1, <1>2, <1>6, <1>8, <2>1, SliceIsText
  <1>10. i = 1 \/ file'[i - 1] = Newline
    BY <1>1, <1>2, <1>5
  <1>11. EventAt(file', i, e) /\ LastByte(i, e) < Len(file') /\ i \in DOMAIN file'
    BY <1>1, <1>2, <1>5, <1>9, <1>10 DEF EventAt, LastByte
  <1>12. \E h \in DOMAIN file' : EventAt(file', h, e) /\ LastByte(h, e) < Len(file')
    BY <1>11
  <1>13. Complete(writing[w])'
    BY <1>1, <1>12 DEF Complete, EventAt, LastByte, e
  <1>14. Between'
    BY <1>2 DEF Between
  <1> QED
    BY <1>13, <1>14

\* Where a single thread writes and no write fails, every event whose write_event
\* returned Ok is there for the readers.
THEOREM SoleWriterReadable ==
    ASSUME ~Faults, \A v, w \in Writers : v = w
    PROVE  Spec => []AcknowledgedIsReadable
  <1>1. Init => SoleInv
    BY DEF Init, SoleInv, Between
  <1>2. AuditInv /\ SoleInv /\ [Next]_vars => SoleInv'
    <2> SUFFICES ASSUME AuditInv, SoleInv, [Next]_vars PROVE SoleInv'
      OBVIOUS
    <2>1. TypeOK
      BY DEF AuditInv
    <2>2. ASSUME UNCHANGED <<file, sink>> PROVE SoleInv'
      BY <2>2 DEF sink, SoleInv, Between, Ending, Complete, EventAt, LastByte
    <2>3. ASSUME NEW w \in Writers,
                 (\E e \in Events : Open(w, e)) \/ WriteLine(w) \/ WriteNewline(w) \/ Fail(w)
          PROVE  SoleInv'
      <3>1. /\ \A v \in Writers : v = w
            /\ IF pc[w] = "newline" THEN Ending(writing[w]) ELSE Between
            /\ \A e \in acked : e \in Events /\ Complete(e)
        BY <2>1 DEF SoleInv, TypeOK
      <3>2. \A e \in acked : Complete(e)'
        <4>1. Grows
          BY <2>1, <2>3, WriterGrows
        <4> QED
          BY <2>1, <3>1, <4>1, CompleteStays
      <3>3. CASE \E e \in Events : Open(w, e)
        <4>1. /\ pc[w] = "idle" /\ pc'[w] = "line" /\ file' = file /\ acked' = acked
          BY <2>1, <3>3 DEF Open, TypeOK
        <4>2. Between'
          BY <3>1, <4>1 DEF Between
        <4> QED
          BY <3>1, <3>2, <4>1, <4>2 DEF SoleInv
      <3>4. CASE WriteLine(w)
        <4>1. pc[w] = "line" /\ pc'[w] = "newline" /\ acked' = acked
          BY <2>1, <3>4 DEF WriteLine, TypeOK
        <4>2. Ending(writing[w])'
          BY <2>1, <3>1, <3>4, <4>1, WriteLineEnds
        <4> QED
          BY <3>1, <3>2, <4>1, <4>2 DEF SoleInv
      <3>5. CASE WriteNewline(w)
        <4>1. /\ pc[w] = "newline" /\ pc'[w] = "idle" /\ writing' = writing
              /\ acked' = acked \cup {writing[w]}
          BY <2>1, <3>5 DEF WriteNewline, TypeOK
        <4>2. Between' /\ Complete(writing[w])'
          BY <2>1, <3>1, <3>5, <4>1, WriteNewlineCompletes
        <4> QED
          BY <3>1, <3>2, <4>1, <4>2 DEF SoleInv, Complete
      <3>6. CASE Fail(w)
        BY <3>6 DEF Fail
      <3> QED
        BY <2>3, <3>3, <3>4, <3>5, <3>6
    <2>4. ASSUME NEW r \in Readers,
                 \/ ReadEvents(r) \/ ReadChunk(r) \/ WalkSegment(r)
                 \/ KeepFragment(r) \/ NextLine(r) \/ EndOfFile(r)
          PROVE  SoleInv'
      BY <2>2, <2>4 DEF ReadEvents, ReadChunk, WalkSegment, KeepFragment, NextLine, EndOfFile
    <2>5. CASE UNCHANGED vars
      BY <2>2, <2>5 DEF vars
    <2> QED
      BY <2>3, <2>4, <2>5 DEF Next
  <1>3. SoleInv => AcknowledgedIsReadable
    BY DEF SoleInv, Complete, AcknowledgedIsReadable
  <1> QED
    BY <1>1, <1>2, <1>3, AuditInductive, PTL DEF Spec
===============================================================================
