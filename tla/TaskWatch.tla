----------------------------- MODULE TaskWatch -----------------------------
(***************************************************************************)
(* What run() starts for a task that is not yet over: the output watch      *)
(* (lines coalesced in windows, and stopped by a firehose of them), the     *)
(* notification of the final status, and the wake attempts through the      *)
(* transports, on output and at the end.  All four listen to the job store  *)
(* on their own, and end when the job does.  At least one transport is      *)
(* taken to be eligible.                                                    *)
(*                                                                         *)
(* Time is counted in ticks.  A timer may fire late, never early.           *)
(***************************************************************************)
EXTENDS Integers, Sequences

CONSTANTS
  WatchedStreams,
  WAKE_COALESCE_WINDOW,      \* in ticks
  FIREHOSE_LINES_PER_TICK,
  FIREHOSE_SUSTAINED,        \* in ticks
  MaxLines,                  \* bound on the lines of a behaviour
  MaxNow                     \* bound on its length

ASSUME WindowAssumption ==
  /\ {WAKE_COALESCE_WINDOW, FIREHOSE_LINES_PER_TICK, FIREHOSE_SUSTAINED} \subseteq Nat \ {0}
  /\ {MaxLines, MaxNow} \subseteq Nat

VARIABLES
  time,
  lines,           \* history: the stream and the time of every line before the end
  late,            \* history: the number of lines after the end
  terminal,
  stopped,         \* of the watch
  pending,         \* the lines of the open window, per stream
  window,          \* when the open window is due: at most one time
  streak,          \* firehoseWindowStartMs and firehoseWindowStartCount
  watchStop,       \* the recorded reason says firehose
  wire,            \* history: the notifications, in order
  wakeStopped, wakeWindow,
  attempts,        \* history: what triggered each wake attempt
  inFlight,        \* attempts whose transport has not answered
  lastWakeAttempt  \* JobRecord.last_wake_attempt: an attempt, 0 for undefined

watchVars == <<stopped, pending, window, streak, watchStop>>
wakeVars  == <<wakeStopped, wakeWindow, attempts, inFlight, lastWakeAttempt>>
taskVars      == <<time, lines, late, terminal, watchVars, wire, wakeVars>>

NoLines  == [s \in WatchedStreams |-> <<>>]
NoStreak == [start |-> -1, count |-> 0]
Status   == [method |-> "notifications/tasks", lines |-> NoLines]
Wake(batch) == [method |-> "wake", lines |-> batch]

WatchInit ==
  /\ time = 0 /\ lines = <<>> /\ late = 0 /\ terminal = FALSE
  /\ stopped = FALSE /\ pending = NoLines /\ window = {} /\ streak = NoStreak
  /\ watchStop = FALSE /\ wire = <<>>
  /\ wakeStopped = FALSE /\ wakeWindow = {} /\ attempts = <<>>
  /\ inFlight = {} /\ lastWakeAttempt = 0

TimePasses ==
  /\ time < MaxNow
  /\ time' = time + 1
  /\ UNCHANGED <<lines, late, terminal, watchVars, wire, wakeVars>>

-----------------------------------------------------------------------------
(* The windows: fixed, opened by the first line and joined by the others.   *)

(* Fault: every line opens the window anew.                                 *)
ScheduleWindowRolling(open, s) == {time + WAKE_COALESCE_WINDOW}

ScheduleWindow(open, s) == IF open # {} THEN open ELSE {time + WAKE_COALESCE_WINDOW}

Due(open) == \E due \in open : due <= time

(* Fault: the batch is sent again with the next one.                        *)
FlushKeepsPending ==
  /\ window' = {}
  /\ wire' = IF pending = NoLines THEN wire ELSE Append(wire, Wake(pending))
  /\ pending' = pending

Flush ==
  /\ window' = {}
  /\ wire' = IF pending = NoLines THEN wire ELSE Append(wire, Wake(pending))
  /\ pending' = NoLines

WindowCloses ==
  /\ Due(window)
  /\ Flush
  /\ UNCHANGED <<time, lines, late, terminal, stopped, streak, watchStop, wakeVars>>

-----------------------------------------------------------------------------
(* The firehose guard, on the total of lines with the new one.              *)

HoldsRate(total) ==
  LET elapsed == time - streak.start
  IN  elapsed = 0 \/ total - streak.count >= FIREHOSE_LINES_PER_TICK * elapsed

(* Fault: a streak that is broken restarts its clock, but not its count.    *)
NextStreakOldCount(total) ==
  CASE streak = NoStreak                      -> [start |-> time, count |-> total]
    [] streak # NoStreak /\ ~HoldsRate(total) -> [streak EXCEPT !.start = time]
    [] OTHER                                  -> streak

NextStreak(total) ==
  IF streak = NoStreak \/ ~HoldsRate(total)
  THEN [start |-> time, count |-> total] ELSE streak

Firehose(total) ==
  /\ streak # NoStreak /\ HoldsRate(total)
  /\ time - streak.start >= FIREHOSE_SUSTAINED

(* A stopped watch sees nothing; a firehose drops what is pending.          *)
WatchSees(s, total) ==
  IF stopped THEN UNCHANGED watchVars
  ELSE /\ streak' = NextStreak(total)
       /\ IF Firehose(total)
          THEN /\ stopped' = TRUE /\ watchStop' = TRUE
               /\ pending' = NoLines /\ window' = {}
          ELSE /\ pending' = [pending EXCEPT ![s] = Append(@, total)]
               /\ window' = ScheduleWindow(window, s)
               /\ UNCHANGED <<stopped, watchStop>>

(* A line is materialized: both output listeners see it in the same step.   *)
(* The bound on time leaves every window the time to close.                 *)
LineArrives(s) ==
  /\ ~terminal /\ Len(lines) < MaxLines /\ time + WAKE_COALESCE_WINDOW <= MaxNow
  /\ lines' = Append(lines, [stream |-> s, at |-> time])
  /\ wakeWindow' = IF wakeStopped THEN wakeWindow ELSE ScheduleWindow(wakeWindow, s)
  /\ WatchSees(s, Len(lines'))
  /\ UNCHANGED <<time, late, terminal, wire, wakeStopped, attempts, inFlight,
                 lastWakeAttempt>>

(* A descendant may write when the job is over.                             *)
LateLine(s) ==
  /\ terminal /\ late = 0 /\ time + WAKE_COALESCE_WINDOW <= MaxNow
  /\ late' = 1
  /\ wakeWindow' = IF wakeStopped THEN wakeWindow ELSE ScheduleWindow(wakeWindow, s)
  /\ WatchSees(s, Len(lines) + 1)
  /\ UNCHANGED <<time, lines, terminal, wire, wakeStopped, attempts, inFlight,
                 lastWakeAttempt>>

-----------------------------------------------------------------------------
(* The wake attempts.                                                       *)

Dispatch(trigger) ==
  /\ attempts' = Append(attempts, trigger)
  /\ inFlight' = inFlight \cup {Len(attempts')}
  /\ lastWakeAttempt' = lastWakeAttempt

FireWake ==
  /\ Due(wakeWindow) /\ ~wakeStopped
  /\ wakeWindow' = {}
  /\ Dispatch("output")
  /\ UNCHANGED <<time, lines, late, terminal, watchVars, wire, wakeStopped>>

(* selectAndWake settles, in whatever order the attempts were made.         *)
WakeSettles(a) ==
  /\ a \in inFlight
  /\ inFlight' = inFlight \ {a}
  /\ lastWakeAttempt' = a
  /\ UNCHANGED <<time, lines, late, terminal, watchVars, wire, wakeStopped, wakeWindow,
                 attempts>>

-----------------------------------------------------------------------------
(* The end of the job: every terminal listener, in the order in which they  *)
(* subscribed.  The wake on output starts nothing more, the watch flushes   *)
(* and stops, and the status goes out whether or not the watch still ran.   *)

(* Fault: the wake on output does not listen for the end.                   *)
WakeEndsNot == UNCHANGED <<wakeStopped, wakeWindow>>

WakeEnds == wakeStopped' = TRUE /\ wakeWindow' = {}

TerminalWire(flushed) == Append(flushed, Status)

WatchEnds ==
  /\ stopped' = TRUE /\ window' = {} /\ pending' = NoLines
  /\ wire' = TerminalWire(IF stopped \/ pending = NoLines THEN wire
                          ELSE Append(wire, Wake(pending)))
  /\ UNCHANGED <<streak, watchStop>>

JobTerminal ==
  /\ ~terminal
  /\ terminal' = TRUE
  /\ Dispatch("terminal")
  /\ WakeEnds
  /\ WatchEnds
  /\ UNCHANGED <<time, lines, late>>

WatchNext ==
  \/ TimePasses \/ WindowCloses \/ FireWake \/ JobTerminal
  \/ \E s \in WatchedStreams : LineArrives(s) \/ LateLine(s)
  \/ \E a \in inFlight : WakeSettles(a)

WatchSpec == WatchInit /\ [][WatchNext]_taskVars

(* Time passes and a timer that is due fires.                               *)
FairWatch == WatchSpec /\ WF_taskVars(TimePasses) /\ WF_taskVars(WindowCloses)

-----------------------------------------------------------------------------
(* The lines of each stream in each notification, the open window last.     *)
Batches ==
  [b \in 1 .. Len(wire) + 1 |-> IF b \in DOMAIN wire THEN wire[b].lines ELSE pending]

(* The lines of stream s, told once and in order by these batches; if they  *)
(* are cut off, all from some line on are left out.                         *)
OnceInOrder(batches, said, cut, s) ==
  /\ \A b \in DOMAIN batches : \A k \in DOMAIN batches[b][s] :
       batches[b][s][k] \in DOMAIN said /\ said[batches[b][s][k]].stream = s
  /\ \A b, c \in DOMAIN batches :
       \A k \in DOMAIN batches[b][s], l \in DOMAIN batches[c][s] :
         b < c \/ (b = c /\ k < l) => batches[b][s][k] < batches[c][s][l]
  /\ \A i \in DOMAIN said :
       said[i].stream = s =>
         \/ \E b \in DOMAIN batches : \E k \in DOMAIN batches[b][s] : batches[b][s][k] = i
         \/ /\ cut
            /\ \A b \in DOMAIN batches : \A k \in DOMAIN batches[b][s] : batches[b][s][k] < i

(* Every line of each stream is notified once and in order, in whatever     *)
(* windows, up to the last one before the end; only a watch that recorded a *)
(* firehose leaves some out, and then all from some line on.                *)
NotifiedInOrder == \A s \in WatchedStreams : OnceInOrder(Batches, lines, watchStop, s)

(* From the end of the job on, and not before, the last of these is what    *)
(* the end gives rise to, and none of the others is.                        *)
OnlyAtTheEnd(told, end) ==
  \A i \in 0 .. Len(told) : (i \in DOMAIN told /\ told[i] = end) <=> (terminal /\ i = Len(told))

(* The status is notified once, at the end, firehose or not, and nothing is *)
(* notified after it.                                                       *)
StatusIsLast == OnlyAtTheEnd(wire, Status)

(* A line waits for the end of one window at most, however steadily others  *)
(* follow it.                                                               *)
WaitIsOneWindow ==
  \A s \in WatchedStreams : \A i \in DOMAIN pending[s] :
    \E due \in window : due <= lines[pending[s][i]].at + WAKE_COALESCE_WINDOW

(* What a client is notified of is the job: every line once, in order and   *)
(* within a window of its arrival, and the end last.                        *)
NotifiedAsItHappened == NotifiedInOrder /\ StatusIsLast /\ WaitIsOneWindow

(* The watch stops by itself only when the rate, on average over some span  *)
(* of FIREHOSE_SUSTAINED up to its last line, reached the threshold.        *)
StopsWhenSustained ==
  watchStop' /\ ~watchStop =>
    \E i \in 1 .. Len(lines) :
      /\ time - lines[i].at >= FIREHOSE_SUSTAINED
      /\ Len(lines') - i >= FIREHOSE_LINES_PER_TICK * (time - lines[i].at)

FirehoseIsSustained == [][StopsWhenSustained]_taskVars

(* The end triggers one wake attempt, and none comes after it: no window    *)
(* that was open when the job ended fires.                                  *)
LastAttemptIsForTheEnd == OnlyAtTheEnd(attempts, "terminal")

(* What is pending is notified, or dropped by a firehose, in the end.       *)
PendingIsFlushed == pending # NoLines ~> pending = NoLines

(* startTaskWatch's doc: "a genuinely bursty-then-quiet stream never        *)
(* accumulates elapsed time across separate bursts, only a truly CONTINUOUS *)
(* high-rate span counts": a watch that stops saw no tick without a line.   *)
BurstsDoNotAccumulate ==
  [][watchStop' /\ ~watchStop =>
       \A t \in time - FIREHOSE_SUSTAINED .. time :
         \E i \in DOMAIN lines' : lines'[i].at = t]_taskVars

(* A client hears of its job as it happened, and is woken for the end last. *)
ToldAsItHappened == NotifiedAsItHappened /\ LastAttemptIsForTheEnd

=============================================================================
