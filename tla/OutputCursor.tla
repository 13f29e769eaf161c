---------------------------- MODULE OutputCursor ----------------------------
(***************************************************************************)
(* One job's two streams as a client reads them: lines numbered by one      *)
(* counter for both streams, the tools output (pages after a cursor) and    *)
(* tail (the last lines, and a cursor to go on from), while lines arrive,   *)
(* are evicted, and the whole output may be reclaimed under the reader.     *)
(*                                                                         *)
(* A line is its seq.  What evictions keep depends on sizes in bytes, which *)
(* StreamBuffer models; here any number of the oldest lines may go.         *)
(***************************************************************************)
EXTENDS Integers, FiniteSets, Sequences

CONSTANTS
  Streams,
  Readers,        \* clients, each with one stream selection and its cursor
  Selection,      \* the streams each reader selects
  Limits,         \* the values of limit, and of tail's lines; one is no limit at all
  MaxSeq,         \* bound on the lines of a behaviour
  MaxFragments    \* bound on the losses per stream that are not lines

ASSUME SelectionAssumption == Selection \in [Readers -> (SUBSET Streams) \ {{}}]
ASSUME LimitsAssumption == /\ Limits \subseteq Nat \ {0}
                           /\ MaxSeq \in Nat /\ MaxFragments \in Nat

VARIABLES
  seq,            \* JobSeqCounter: the last seq given out
  lines,          \* the seqs each stream retains
  headSeq,        \* highestSeqAssigned of each stream
  droppedCount,
  finalized,      \* streams that ended
  retentionEvicted,
  ever,           \* history: the seqs each stream materialized
  fragments,      \* history: losses of each stream that are not lines
  cursor,         \* what each reader passes as after_cursor
  shown,          \* the seqs each reader was shown, in order
  told,           \* the dropped count each reader was last told, per stream
  floor           \* history: where a reader's window began when it used tail

bufferVars == <<seq, lines, headSeq, droppedCount, finalized, retentionEvicted,
                ever, fragments>>
readerVars == <<cursor, shown, told, floor>>
vars       == <<bufferVars, readerVars>>

Init ==
  /\ seq = 0
  /\ lines = [s \in Streams |-> {}] /\ ever = [s \in Streams |-> {}]
  /\ headSeq = [s \in Streams |-> 0]
  /\ droppedCount = [s \in Streams |-> 0] /\ fragments = [s \in Streams |-> 0]
  /\ finalized = {} /\ retentionEvicted = FALSE
  /\ cursor = [r \in Readers |-> 0] /\ floor = [r \in Readers |-> 0]
  /\ shown = [r \in Readers |-> <<>>]
  /\ told = [r \in Readers |-> [s \in Streams |-> 0]]

MaxOf(S) == CHOOSE x \in S : \A y \in S : y <= x

Ascending(S) ==
  [i \in 1 .. Cardinality(S) |-> CHOOSE q \in S : Cardinality({p \in S : p <= q}) = i]

-----------------------------------------------------------------------------
(* The streams.                                                             *)

(* Fault: an eviction that keeps nothing is not counted.                    *)
LossUncountedWhenEmpty(s, before, kept) ==
  IF kept = {} THEN 0 ELSE Cardinality(before \ kept)

Loss(s, before, kept) == Cardinality(before \ kept)

(* n lines are materialized, then all that is older than some line goes.    *)
Materialize(s, n) ==
  LET all == lines[s] \cup (seq + 1 .. seq + n)
  IN  \E oldest \in all \cup {seq + n + 1} :
        LET kept == {q \in all : q >= oldest}
        IN  /\ seq' = seq + n
            /\ ever' = [ever EXCEPT ![s] = @ \cup (seq + 1 .. seq + n)]
            /\ headSeq' = [headSeq EXCEPT ![s] = IF n = 0 THEN @ ELSE seq + n]
            /\ lines' = [lines EXCEPT ![s] = kept]
            /\ droppedCount' = [droppedCount EXCEPT ![s] = @ + Loss(s, all, kept)]

AppendChunk(s, n) ==
  /\ s \notin finalized /\ ~retentionEvicted /\ seq + n <= MaxSeq
  /\ Materialize(s, n)
  /\ UNCHANGED <<finalized, retentionEvicted, fragments, readerVars>>

(* The partial line, if there is one, becomes the stream's last.            *)
FinalizeStream(s, n) ==
  /\ s \notin finalized /\ ~retentionEvicted /\ n <= 1 /\ seq + n <= MaxSeq
  /\ finalized' = finalized \cup {s}
  /\ Materialize(s, n)
  /\ n = 1 => lines'[s] # {}
  /\ n = 0 => lines'[s] = lines[s]
  /\ UNCHANGED <<retentionEvicted, fragments, readerVars>>

(* The retention sweep: every line of both streams, and the partial line of *)
(* a stream that has one.                                                   *)
EvictAllLines ==
  /\ ~retentionEvicted
  /\ retentionEvicted' = TRUE
  /\ \E partial \in SUBSET (Streams \ finalized) :
       LET lost(s) == IF s \in partial THEN 1 ELSE 0
       IN  /\ droppedCount' = [s \in Streams |->
                droppedCount[s] + Cardinality(lines[s]) + lost(s)]
           /\ fragments' = [s \in Streams |-> fragments[s] + lost(s)]
  /\ lines' = [s \in Streams |-> {}]
  /\ UNCHANGED <<seq, headSeq, finalized, ever, readerVars>>

LateChunk(s) ==
  /\ retentionEvicted /\ s \notin finalized /\ fragments[s] < MaxFragments
  /\ droppedCount' = [droppedCount EXCEPT ![s] = @ + 1]
  /\ fragments' = [fragments EXCEPT ![s] = @ + 1]
  /\ UNCHANGED <<seq, lines, headSeq, finalized, retentionEvicted, ever, readerVars>>

-----------------------------------------------------------------------------
(* The readers.                                                             *)

HeadOf(sel) == MaxOf({headSeq[s] : s \in sel})

Retained(sel) == UNION {lines[s] : s \in sel}

(* The retained lines of the selection after this one, in the order of seq. *)
Events(sel, after) == Ascending({q \in Retained(sel) : q > after})

(* Fault: the next cursor is the head also when the page was cut short.     *)
NextCursorHead(sel, page, clamped) == HeadOf(sel)

NextCursor(sel, page, clamped) == IF clamped THEN page[Len(page)] ELSE HeadOf(sel)

Shows(r, page, next) ==
  /\ shown' = [shown EXCEPT ![r] = @ \o page]
  /\ cursor' = [cursor EXCEPT ![r] = next]
  /\ told' = [told EXCEPT ![r] = [s \in Streams |->
                IF s \in Selection[r] THEN droppedCount[s] ELSE 0]]
  /\ UNCHANGED bufferVars

ReadOutput(r, limit) ==
  LET sel     == Selection[r]
      events  == Events(sel, cursor[r])
      clamped == Len(events) > limit
      page    == IF clamped THEN SubSeq(events, 1, limit) ELSE events
  IN  Shows(r, page, NextCursor(sel, page, clamped)) /\ UNCHANGED floor

(* A reader may start with tail and go on with output from its cursor.      *)
ReadTail(r, n) ==
  LET sel    == Selection[r]
      events == Events(sel, 0)
      window == IF Len(events) > n THEN SubSeq(events, Len(events) - n + 1, Len(events))
                ELSE events
  IN  /\ cursor[r] = 0 /\ shown[r] = <<>>
      /\ floor' = [floor EXCEPT ![r] = IF Len(events) > n THEN window[1] - 1 ELSE 0]
      /\ Shows(r, window, HeadOf(sel))

Next ==
  \/ \E s \in Streams, n \in 0 .. 2 : AppendChunk(s, n) \/ FinalizeStream(s, n)
  \/ EvictAllLines
  \/ \E s \in Streams : LateChunk(s)
  \/ \E r \in Readers, n \in Limits : ReadOutput(r, n) \/ ReadTail(r, n)

Spec == Init /\ [][Next]_vars

-----------------------------------------------------------------------------
(* The variables hold values of their types.                                *)
TypeOK ==
  /\ seq \in 0 .. MaxSeq
  /\ lines \in [Streams -> SUBSET (1 .. seq)] /\ ever \in [Streams -> SUBSET (1 .. seq)]
  /\ headSeq \in [Streams -> 0 .. seq]
  /\ droppedCount \in [Streams -> Nat] /\ fragments \in [Streams -> Nat]
  /\ finalized \subseteq Streams /\ retentionEvicted \in BOOLEAN
  /\ cursor \in [Readers -> 0 .. seq] /\ floor \in [Readers -> 0 .. seq]
  /\ shown \in [Readers -> Seq(1 .. seq)]
  /\ told \in [Readers -> [Streams -> Nat]]

(* A reader that goes on from its next_cursor is shown no line twice and    *)
(* sees the two streams in the order in which their lines were completed.   *)
ShownInOrder ==
  \A r \in Readers : \A i \in 1 .. Len(shown[r]) - 1 : shown[r][i] < shown[r][i + 1]

(* The lines a reader's cursor has passed and that it was not shown.        *)
Missed(r, s) ==
  {q \in ever[s] : /\ floor[r] < q /\ q <= cursor[r]
                   /\ \A i \in DOMAIN shown[r] : shown[r][i] # q}

(* No silent gap: what a reader missed of a stream, to evictions between    *)
(* its pages or to the reclaim, is within the dropped count it was told.    *)
GapsAreDisclosed ==
  \A r \in Readers : \A s \in Selection[r] : Cardinality(Missed(r, s)) <= told[r][s]

(* next_cursor never passes a line that is still retained and undisclosed.  *)
NothingRetainedIsPassed ==
  \A r \in Readers : \A q \in Retained(Selection[r]) :
    floor[r] < q /\ q <= cursor[r] => \E i \in DOMAIN shown[r] : shown[r][i] = q

(* Paging by next_cursor shows every retained line, once, in order.         *)
PagesInOrder == ShownInOrder /\ NothingRetainedIsPassed

=============================================================================
