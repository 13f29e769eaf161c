---------------------------- MODULE StreamBuffer ----------------------------
(***************************************************************************)
(* The buffer that turns the raw bytes of one stream of a job into lines    *)
(* and keeps only the newest of them: appendChunkToBuffer,                  *)
(* finalizeStreamBuffer, the two eviction passes, and what output retention *)
(* does to the stream.                                                      *)
(*                                                                         *)
(* A byte is a member of Bytes: "nl" and "cr" are the line-ending bytes,    *)
(* "lead" and "cont" the two bytes of a character that takes two, any other *)
(* stands for itself.  A line holds its bytes undecoded; their size is what *)
(* it is in the decoded text, where a byte that is half a character became  *)
(* U+FFFD.                                                                  *)
(***************************************************************************)
EXTENDS Integers, Sequences

CONSTANTS
  Bytes,
  MaxLineBytes, MaxBufferBytes, MaxBufferLines,
  MaxUtf8Backtrack,
  MarkerBytes,       \* size of OVERSIZED_LINE_MARKER
  MaxInput           \* bound on the bytes of a behaviour

ASSUME LimitsAssumption ==
  /\ MaxUtf8Backtrack \in Nat \ {0} /\ MaxInput \in Nat /\ MarkerBytes \in Nat
  /\ MaxBufferBytes \in Nat /\ MaxBufferLines \in Nat \ {0}
  /\ MaxLineBytes \in MaxUtf8Backtrack + 1 .. MaxBufferBytes

VARIABLES
  pending,           \* bytes of the line that is not complete yet
  lines,             \* the retained lines, oldest first
  truncated, droppedCount,
  finalized,
  retentionEvicted,  \* the job's output was reclaimed
  received,          \* history: every byte that came before the reclaim
  ever,              \* history: every line materialized
  fresh,             \* history: whether the last call materialized a line
  fragments          \* history: losses that are not lines

streamVars == <<pending, lines, truncated, droppedCount, finalized, retentionEvicted,
          received, ever, fresh, fragments>>

BufferInit ==
  /\ pending = <<>> /\ lines = <<>> /\ received = <<>> /\ ever = <<>>
  /\ truncated = FALSE /\ droppedCount = 0 /\ fragments = 0
  /\ finalized = FALSE /\ retentionEvicted = FALSE /\ fresh = FALSE

Least(S) == CHOOSE n \in S : \A m \in S : n <= m

-----------------------------------------------------------------------------
(* Sizes, in bytes of decoded text.                                         *)

WholeAt(b, i) == b[i] = "lead" /\ i < Len(b) /\ b[i + 1] = "cont"

DecodedSize(b, i) ==
  CASE b[i] \notin {"lead", "cont"}    -> 1
    [] b[i] = "lead"                   -> IF WholeAt(b, i) THEN 2 ELSE 3
    [] b[i] = "cont"                   -> IF i > 1 /\ WholeAt(b, i - 1) THEN 0 ELSE 3

LineSize(line) ==
  LET upTo[i \in 0 .. Len(line.bytes)] ==
        IF i = 0 THEN 0 ELSE upTo[i - 1] + DecodedSize(line.bytes, i)
  IN  upTo[Len(line.bytes)]
      + IF line.terminator = "oversized-split" THEN MarkerBytes ELSE 0

TotalBytes(ls) ==
  LET upTo[i \in 0 .. Len(ls)] == IF i = 0 THEN 0 ELSE upTo[i - 1] + LineSize(ls[i])
  IN  upTo[Len(ls)]

-----------------------------------------------------------------------------
(* Splitting.  An offset is a number of bytes of the working buffer already *)
(* consumed.                                                                *)

(* Fault: the cut is made without looking for a character boundary.         *)
SafeCutAnywhere(w, position) == MaxLineBytes

(* findUtf8SafeCutPoint for the forced cut: back over continuation bytes.   *)
SafeCut(w, position) ==
  Least({c \in MaxLineBytes - MaxUtf8Backtrack .. MaxLineBytes :
           \A d \in c + 1 .. MaxLineBytes : w[position + d + 1] = "cont"})

Newlines(w, position) == {i \in position + 1 .. Len(w) : w[i] = "nl"}

NewlineWithin(w, position, reach) ==
  Newlines(w, position) # {} /\ Least(Newlines(w, position)) - position - 1 <= reach

(* Fault: a newline is looked for in the whole working buffer, and the      *)
(* forced cut comes only where there is none.                               *)
HasLineAnywhere(w, position) == Newlines(w, position) # {}

HasLine(w, position) == NewlineWithin(w, position, MaxLineBytes)

MustCut(w, position) == ~HasLine(w, position) /\ Len(w) - position > MaxLineBytes

(* Where the segment that starts at this offset ends: the offset itself     *)
(* when the rest is the pending partial line.                               *)
NextOffset(w, position) ==
  CASE HasLine(w, position) -> Least(Newlines(w, position))
    [] MustCut(w, position) -> position + SafeCut(w, position)
    [] OTHER                -> position

WithoutCR(b) ==
  IF b # <<>> /\ b[Len(b)] = "cr" THEN SubSeq(b, 1, Len(b) - 1) ELSE b

LineAt(w, position) ==
  LET end == NextOffset(w, position)
  IN  IF HasLine(w, position)
      THEN [bytes |-> WithoutCR(SubSeq(w, position + 1, end - 1)),
            terminator |-> "newline"]
      ELSE [bytes |-> SubSeq(w, position + 1, end), terminator |-> "oversized-split"]

(* The offset after k segments; the same for every k once the rest pends.   *)
Offset(w) ==
  LET after[k \in 0 .. Len(w)] ==
        IF k = 0 THEN 0 ELSE NextOffset(w, after[k - 1])
  IN  after

Segments(w, offset) ==
  Least({k \in 0 .. Len(w) : NextOffset(w, offset[k]) = offset[k]})

-----------------------------------------------------------------------------
(* Eviction.                                                                *)

(* materializeLine's loop: the oldest go while there is more than one line  *)
(* and a limit is exceeded.                                                 *)
Newest(ls) ==
  LET d == Least({d \in 0 .. Len(ls) :
                    \/ Len(ls) - d <= 1
                    \/ /\ Len(ls) - d <= MaxBufferLines
                       /\ TotalBytes(SubSeq(ls, d + 1, Len(ls))) <= MaxBufferBytes})
  IN  SubSeq(ls, d + 1, Len(ls))

(* Fault: the single oversized line of this very call is evicted.           *)
FitToBudgetSparingNone(ls, partial, materialized) ==
  LET fits(kept) ==
        \/ kept = <<>>
        \/ /\ Len(kept) <= MaxBufferLines
           /\ TotalBytes(kept) + Len(partial) <= MaxBufferBytes
      d == Least({d \in 0 .. Len(ls) : fits(SubSeq(ls, d + 1, Len(ls)))})
  IN  SubSeq(ls, d + 1, Len(ls))

(* evictToFitBudget: the pending bytes count, and every line may go but a   *)
(* single oversized one that this very call made.                           *)
FitToBudget(ls, partial, materialized) ==
  LET fits(kept) ==
        \/ kept = <<>>
        \/ /\ Len(kept) <= MaxBufferLines
           /\ TotalBytes(kept) + Len(partial) <= MaxBufferBytes
        \/ Len(kept) = 1 /\ TotalBytes(kept) > MaxBufferBytes /\ materialized
      d == Least({d \in 0 .. Len(ls) : fits(SubSeq(ls, d + 1, Len(ls)))})
  IN  SubSeq(ls, d + 1, Len(ls))

Dropped(n) ==
  /\ droppedCount' = droppedCount + n
  /\ truncated' = (truncated \/ n > 0)

-----------------------------------------------------------------------------

AppendChunk(chunk) ==
  LET w    == pending \o chunk
      offset == Offset(w)
      n    == Segments(w, offset)
      new  == [i \in 1 .. n |-> LineAt(w, offset[i - 1])]
      rest == SubSeq(w, offset[n] + 1, Len(w))
  IN  /\ ~finalized /\ ~retentionEvicted
      /\ pending' = rest
      /\ lines' = FitToBudget(Newest(lines \o new), rest, n > 0)
      /\ Dropped(Len(lines) + n - Len(lines'))
      /\ received' = received \o chunk
      /\ ever' = ever \o new
      /\ fresh' = (n > 0)
      /\ UNCHANGED <<finalized, retentionEvicted, fragments>>

(* The stream ended: what is pending becomes its last line.                 *)
FinalizeStream ==
  LET new == IF pending = <<>> THEN <<>>
             ELSE <<[bytes |-> pending, terminator |-> "stream-end"]>>
  IN  /\ ~finalized /\ ~retentionEvicted
      /\ finalized' = TRUE
      /\ pending' = <<>>
      /\ lines' = IF new = <<>> THEN lines ELSE Newest(lines \o new)
      /\ Dropped(Len(lines) + Len(new) - Len(lines'))
      /\ ever' = ever \o new
      /\ fresh' = (fresh \/ new # <<>>)
      /\ UNCHANGED <<retentionEvicted, received, fragments>>

(* Fault: the pending fragment is discarded without being counted.          *)
FragmentLossUncounted == 0

FragmentLoss == IF pending = <<>> THEN 0 ELSE 1

(* evictAllLines, when the retention sweep reclaims the job's output.       *)
EvictAllLines ==
  /\ ~retentionEvicted
  /\ retentionEvicted' = TRUE
  /\ lines' = <<>> /\ pending' = <<>>
  /\ Dropped(Len(lines) + FragmentLoss)
  /\ fragments' = IF pending = <<>> THEN fragments ELSE fragments + 1
  /\ fresh' = FALSE
  /\ UNCHANGED <<finalized, received, ever>>

(* appendOutput after the reclaim: the chunk is only counted as lost.       *)
LateChunk ==
  /\ retentionEvicted /\ ~finalized
  /\ fragments < 2                         \* bound on the losses counted here
  /\ Dropped(1)
  /\ fragments' = fragments + 1
  /\ UNCHANGED <<pending, lines, finalized, retentionEvicted, received, ever, fresh>>

Chunks == UNION {[1 .. n -> Bytes] : n \in 1 .. MaxInput - Len(received)}

BufferNext ==
  \/ \E chunk \in Chunks : AppendChunk(chunk)
  \/ FinalizeStream \/ EvictAllLines \/ LateChunk

BufferSpec == BufferInit /\ [][BufferNext]_streamVars

-----------------------------------------------------------------------------
(* The variables hold values of their types; the partial line never grows   *)
(* past the length at which it is cut.                                      *)
TypeOK ==
  LET Line == [bytes : Seq(Bytes),
               terminator : {"newline", "oversized-split", "stream-end"}]
  IN  /\ received \in Seq(Bytes) /\ pending \in Seq(Bytes)
      /\ lines \in Seq(Line) /\ ever \in Seq(Line)
      /\ droppedCount \in Nat /\ fragments \in Nat
      /\ {truncated, finalized, retentionEvicted, fresh} \subseteq BOOLEAN
      /\ Len(pending) <= MaxLineBytes

(* The reference: the lines of a stream whose bytes arrive one by one.      *)
TakeByte(acc, b) ==
  LET cur == Append(acc.cur, b)
      cut == SafeCut(cur, 0)
  IN  CASE b = "nl" ->
             [cur |-> <<>>,
              out |-> Append(acc.out, [bytes |-> WithoutCR(acc.cur), terminator |-> "newline"])]
        [] b # "nl" /\ Len(cur) <= MaxLineBytes -> [acc EXCEPT !.cur = cur]
        [] OTHER ->
             [cur |-> SubSeq(cur, cut + 1, Len(cur)),
              out |-> Append(acc.out, [bytes |-> SubSeq(cur, 1, cut),
                                       terminator |-> "oversized-split"])]

ByteByByte(input) ==
  LET upTo[i \in 0 .. Len(input)] ==
        IF i = 0 THEN [cur |-> <<>>, out |-> <<>>] ELSE TakeByte(upTo[i - 1], input[i])
  IN  upTo[Len(input)]

(* However the pipe cuts the bytes into chunks, the lines materialized (and *)
(* the partial one) are those of the same bytes arriving one at a time:     *)
(* CRLF, characters and oversized lines that straddle chunks included.      *)
ChunkingIrrelevant ==
  LET reference == ByteByByte(received)
      atEnd     == IF finalized /\ reference.cur # <<>>
                   THEN <<[bytes |-> reference.cur, terminator |-> "stream-end"]>>
                   ELSE <<>>
  IN  /\ ever = reference.out \o atEnd
      /\ ~finalized /\ ~retentionEvicted => pending = reference.cur

(* A forced cut never falls inside a character of a well-formed stream.     *)
WellFormed(b) ==
  \A i \in DOMAIN b : b[i] = "cont" => i > 1 /\ b[i - 1] = "lead"

CharactersStayWhole ==
  WellFormed(received) =>
    \A i \in 1 .. Len(ever) - 1 :
      ever[i].terminator = "oversized-split" /\ ever[i + 1].bytes # <<>>
        => ~(ever[i].bytes[Len(ever[i].bytes)] = "lead" /\ ever[i + 1].bytes[1] = "cont")

(* The lines retained are the newest ones, unchanged; every line or piece   *)
(* that is gone was counted once, and truncated is said exactly then.  A    *)
(* reader who is not told otherwise has the whole stream.                   *)
LossIsDisclosed ==
  /\ Len(lines) <= Len(ever)
  /\ lines = SubSeq(ever, Len(ever) - Len(lines) + 1, Len(ever))
  /\ droppedCount = Len(ever) - Len(lines) + fragments
  /\ truncated <=> droppedCount > 0

(* evictToFitBudget's promise: after every call the lines and the partial   *)
(* line fit the buffer, unless that very call made the one line left and    *)
(* that line alone is too large.                                            *)
ResidentBound ==
  \/ /\ Len(lines) <= MaxBufferLines
     /\ TotalBytes(lines) + Len(pending) <= MaxBufferBytes
  \/ Len(lines) = 1 /\ TotalBytes(lines) > MaxBufferBytes /\ fresh

(* A line too large for the buffer survives the call that completes it, so  *)
(* that a reader polling then sees it instead of an empty buffer.           *)
OversizedSurvivesItsCall ==
  fresh /\ LineSize(ever[Len(ever)]) > MaxBufferBytes
    => lines = <<ever[Len(ever)]>>

(* Both at once: the exception for an oversized line is neither forgotten   *)
(* nor stretched to a later call.                                           *)
BudgetIsKept == ResidentBound /\ OversizedSurvivesItsCall

(* Lines are cut where the stream says or the budget forces it, whatever    *)
(* the chunks, and the budget holds.                                        *)
LinesAreWhole == ChunkingIrrelevant /\ CharactersStayWhole /\ BudgetIsKept

=============================================================================
