------------------------------ MODULE MCOutput ------------------------------
(***************************************************************************)
(* The output of a job as it is read: by clients that go on from cursor to  *)
(* cursor (OutputCursor), or by one call with any arguments at any moment   *)
(* (ToolViews).  A behaviour is of one of the two.                          *)
(***************************************************************************)
EXTENDS ToolViews

CONSTANT MaxViewed    \* bound on the lines of a behaviour of single calls

(* A reader of both streams and one of standard output alone.               *)
TheSelection == [r \in Readers |-> IF r = "both" THEN Streams ELSE {"stdout"}]

VARIABLE part

outputVars == <<part, viewVars>>

OutputInit == part \in {"pages", "calls"} /\ ViewsInit

InPages(A) == part = "pages" /\ A /\ UNCHANGED <<part, terminator>>
InCalls(A) == part = "calls" /\ A /\ seq' <= MaxViewed /\ UNCHANGED part

OutputNext ==
  \/ \E s \in Streams, n \in 0 .. 2 :
       \/ InPages(AppendChunk(s, n)) \/ InPages(FinalizeStream(s, n))
       \/ InCalls(ChunkArrives(s, n)) \/ InCalls(StreamEnds(s, n))
  \/ InPages(EvictAllLines) \/ \E s \in Streams : InPages(LateChunk(s))
  \/ InCalls(EvictAllLines /\ UNCHANGED terminator)
  \/ \E s \in Streams : InCalls(LateChunk(s) /\ UNCHANGED terminator)
  \/ \E r \in Readers, n \in Limits : InPages(ReadOutput(r, n)) \/ InPages(ReadTail(r, n))

OutputSpec == OutputInit /\ [][OutputNext]_outputVars

-----------------------------------------------------------------------------

(* What a single call answers can be relied on (see ToolViews).             *)
CallsAreHonest == part = "calls" => AnswersAreHonest

=============================================================================
