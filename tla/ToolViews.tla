----------------------------- MODULE ToolViews -----------------------------
(***************************************************************************)
(* What one call of output, tail or follow answers, for any arguments and   *)
(* at any moment of a job's streams: the arguments each tool takes and the  *)
(* schema it advertises for them, its window of the retained lines, and     *)
(* what it says of those that are gone.  Each file has its own copy of the   *)
(* helpers; the copies are the same.                                        *)
(***************************************************************************)
EXTENDS OutputCursor

CONSTANTS
  DEFAULT_TAIL_LINES,
  MAX_TIMEOUT_MS,
  DEFAULT_TIMEOUT_MS

ASSUME ViewsAssumption ==
  /\ Streams = {"stdout", "stderr"}
  /\ DEFAULT_TAIL_LINES \in Nat \ {0}
  /\ MAX_TIMEOUT_MS \in Nat \ {0} /\ DEFAULT_TIMEOUT_MS \in 1 .. MAX_TIMEOUT_MS

VARIABLES
  terminator      \* what ended the line of each seq

viewVars == <<vars, terminator>>

-----------------------------------------------------------------------------
(* JSON values; a number is given by its double, for one half is no integer.*)

Absent    == [type |-> "absent"]
Text(s)   == [type |-> "string", text |-> s]
Double(n) == [type |-> "number", double |-> n]
Whole(n)  == Double(2 * n)

IsText(v)    == v.type = "string"
IsNumber(v)  == v.type = "number"
IsInteger(v) == IsNumber(v) /\ v.double % 2 = 0
ValueOf(v, default) == IF v = Absent THEN default ELSE v.double \div 2

Selector == {Text("stdout"), Text("stderr"), Text("both")}
Selected(v) == IF v \in {Absent, Text("both")} THEN Streams ELSE {v.text}

jobIdGiven(args)   == IsText(args.job_id) /\ args.job_id.text # ""
validateStream(v)  == v = Absent \/ v \in Selector
validateCursor(v)  == v = Absent \/ (IsInteger(v) /\ v.double >= 0)

(* Fault: an integer is taken whether or not it is positive.                *)
validateAnyCount(v) == v = Absent \/ IsInteger(v)

validateCount(v) == v = Absent \/ (IsInteger(v) /\ v.double > 0)

effectiveTimeout(v) ==
  LET ms == ValueOf(v, DEFAULT_TIMEOUT_MS) IN IF ms > MAX_TIMEOUT_MS THEN MAX_TIMEOUT_MS ELSE ms

outputTakes(args) == /\ jobIdGiven(args) /\ validateStream(args.stream)
                     /\ validateCursor(args.cursor) /\ validateCount(args.count)
tailTakes(args)   == jobIdGiven(args) /\ validateStream(args.stream) /\ validateCount(args.count)
followTakes(args) == /\ jobIdGiven(args) /\ validateStream(args.stream)
                     /\ validateCursor(args.cursor) /\ validateCount(args.count)
killTakes(args)   == jobIdGiven(args) /\ (args.signal = Absent \/ (IsText(args.signal) /\ args.signal.text # ""))

(* A schema has the types, and of a number nothing else.                    *)
OptionalNumber(v) == v = Absent \/ IsNumber(v)
OptionalStream(v) == v = Absent \/ v \in Selector

outputSchema(args) == /\ jobIdGiven(args) /\ OptionalStream(args.stream)
                      /\ OptionalNumber(args.cursor) /\ OptionalNumber(args.count)
tailSchema(args)   == jobIdGiven(args) /\ OptionalStream(args.stream) /\ OptionalNumber(args.count)
followSchema(args) == /\ jobIdGiven(args) /\ OptionalStream(args.stream)
                      /\ OptionalNumber(args.cursor) /\ OptionalNumber(args.count)
killSchema(args)   == jobIdGiven(args) /\ (args.signal = Absent \/ IsText(args.signal))

-----------------------------------------------------------------------------
(* The answers.                                                             *)

StreamOf(q) == CHOOSE s \in Streams : q \in ever[s]

isPartialTerminator(t) == t \in {"stream-end", "oversized-split"}

buildEvent(q) ==
  [seq |-> q, stream |-> StreamOf(q), partial |-> isPartialTerminator(terminator[q])]

EventsAfter(sel, after) ==
  LET seqs == Events(sel, after) IN [i \in DOMAIN seqs |-> buildEvent(seqs[i])]

(* Fault: the boundary is the head, also when older lines are retained.     *)
computeDropInfoHead(s) ==
  [dropped |-> droppedCount[s], droppedBeforeCursor |-> headSeq[s]]

computeDropInfo(s) ==
  [dropped |-> droppedCount[s],
   droppedBeforeCursor |-> IF lines[s] = {} THEN headSeq[s]
                           ELSE CHOOSE q \in lines[s] : \A p \in lines[s] : q <= p]

applyDropDisclosure(sel) == [s \in {x \in sel : droppedCount[x] > 0} |-> computeDropInfo(s)]

snapshotTruncated(sel) == \E s \in sel : droppedCount[s] > 0

OutputAnswer(args) ==
  LET sel   == Selected(args.stream)
      view  == EventsAfter(sel, ValueOf(args.cursor, 0))
      limit == ValueOf(args.count, Len(view))
      page  == IF Len(view) > limit THEN SubSeq(view, 1, limit) ELSE view
  IN  [events |-> page,
       next_cursor |-> IF Len(view) > limit THEN page[limit].seq ELSE HeadOf(sel),
       truncated |-> snapshotTruncated(sel) \/ Len(view) > limit,
       dropped |-> applyDropDisclosure(sel)]

TailView(sel, n) ==
  LET all          == EventsAfter(sel, 0)
      reachesFloor == n >= Len(all)
  IN  [events |-> IF reachesFloor THEN all ELSE SubSeq(all, Len(all) - n + 1, Len(all)),
       head |-> HeadOf(sel), windowClamped |-> ~reachesFloor]

(* Fault: a window that cuts lines off is not called truncated.             *)
TailAnswerUnclamped(args) ==
  LET sel  == Selected(args.stream)
      view == TailView(sel, ValueOf(args.count, DEFAULT_TAIL_LINES))
  IN  [events |-> view.events, next_cursor |-> view.head,
       truncated |-> snapshotTruncated(sel), dropped |-> applyDropDisclosure(sel)]

TailAnswer(args) ==
  LET sel  == Selected(args.stream)
      view == TailView(sel, ValueOf(args.count, DEFAULT_TAIL_LINES))
  IN  [events |-> view.events, next_cursor |-> view.head,
       truncated |-> snapshotTruncated(sel) \/ view.windowClamped,
       dropped |-> applyDropDisclosure(sel)]

getOutputCounts(s) == Cardinality(ever[s])

(* The projection of a follow that settled, whose cursor was read before.   *)
FollowAnswer(args, cursorAtCall, reason) ==
  LET sel == Selected(args.stream)
  IN  [events |-> EventsAfter(sel, ValueOf(args.cursor, cursorAtCall)),
       next_cursor |-> HeadOf(sel), reason |-> reason, note |-> reason = "timeout",
       counts |-> [s \in Streams |-> getOutputCounts(s)]]

-----------------------------------------------------------------------------
(* The streams, as in OutputCursor; a line also has what ended it.          *)

ViewsInit == Init /\ terminator = <<>>

Ends(how) == \E ends \in [1 .. seq' - seq -> how] : terminator' = terminator \o ends

ChunkArrives(s, n) == AppendChunk(s, n) /\ Ends({"newline", "oversized-split"})
StreamEnds(s, n)   == FinalizeStream(s, n) /\ Ends({"stream-end"})

ViewsNext ==
  \/ \E s \in Streams, n \in 0 .. 2 : ChunkArrives(s, n) \/ StreamEnds(s, n)
  \/ (EvictAllLines \/ \E s \in Streams : LateChunk(s)) /\ UNCHANGED terminator

-----------------------------------------------------------------------------
(* The calls: every value of one argument, then the valid ones together.    *)

Bare == [job_id |-> Text("j"), stream |-> Absent, cursor |-> Absent, count |-> Absent,
         signal |-> Absent]

Odd == {Absent, Text(""), Text("both"), Text("SIGKILL"), Double(-2), Double(0), Double(1), Whole(1),
        Whole(MAX_TIMEOUT_MS + 1)}

OddCalls == UNION {{[Bare EXCEPT ![f] = v] : v \in Odd} : f \in DOMAIN Bare}

Asking(s, c, n) == [Bare EXCEPT !.stream = s, !.cursor = c, !.count = n]

Calls ==
  {Asking(s, c, n) :
     s \in Selector, c \in {Absent} \cup {Whole(q) : q \in 0 .. MaxSeq},
     n \in {Absent} \cup {Whole(k) : k \in Limits}}

Lost(s) == ever[s] \ lines[s]

LinesIn(answer) == {answer.events[i].seq : i \in DOMAIN answer.events}

(* An answer that lacks a line the process ever wrote after the cursor says *)
(* truncated; the streams that lost lines are named with a count no smaller *)
(* than what they lost, and a boundary between the lost and the retained.   *)
Discloses(answer, sel, after) ==
  /\ {q \in UNION {ever[s] : s \in sel} : q > after} \subseteq LinesIn(answer) \/ answer.truncated
  /\ \A s \in sel : Lost(s) # {} =>
       /\ s \in DOMAIN answer.dropped /\ answer.dropped[s].dropped >= Cardinality(Lost(s))
       /\ \A q \in Lost(s) : q <= answer.dropped[s].droppedBeforeCursor
       /\ \A q \in lines[s] : q >= answer.dropped[s].droppedBeforeCursor

IsEndOf(window, all) ==
  \E k \in 0 .. Len(all) : window = SubSeq(all, k + 1, Len(all))

(* output goes on from its own next_cursor and from tail's, and tail shows  *)
(* the end, and follow the whole, of what output shows.                     *)
OneStory(call) ==
  LET unlimited == [call EXCEPT !.count = Absent]
      from0     == [unlimited EXCEPT !.cursor = Absent]
      page      == OutputAnswer(call)
      rest      == OutputAnswer([unlimited EXCEPT !.cursor = Whole(page.next_cursor)])
      tail      == TailAnswer(call)
      follow    == FollowAnswer(call, 0, "output")
  IN  /\ page.events \o rest.events = OutputAnswer(unlimited).events
      /\ IsEndOf(tail.events, OutputAnswer(from0).events)
      /\ OutputAnswer([unlimited EXCEPT !.cursor = Whole(tail.next_cursor)]).events = <<>>
      /\ follow.events = OutputAnswer(unlimited).events
      /\ follow.next_cursor = rest.next_cursor

(* No answer of output or tail loses a line silently, and the readers agree *)
(* with each other, whatever the selection, the cursor and the window.      *)
AnswersDisclose ==
  \A call \in Calls :
    /\ Discloses(OutputAnswer(call), Selected(call.stream), ValueOf(call.cursor, 0))
    /\ Discloses(TailAnswer(call), Selected(call.stream), 0)
    /\ OneStory(call)

(* A handler takes no arguments that its schema, which a client may check   *)
(* them against, refuses; and no count it takes lets it wait for no time or *)
(* beyond the ceiling.                                                      *)
SchemasAreWider ==
  \A call \in OddCalls :
    /\ outputTakes(call) => outputSchema(call)
    /\ tailTakes(call) => tailSchema(call)
    /\ followTakes(call) =>
         followSchema(call) /\ effectiveTimeout(call.count) \in 1 .. MAX_TIMEOUT_MS
    /\ killTakes(call) => killSchema(call)

(* What a call answers can be relied on.                                    *)
AnswersAreHonest == SchemasAreWider /\ AnswersDisclose

=============================================================================
