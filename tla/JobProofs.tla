------------------------------- MODULE JobProofs -------------------------------
(***************************************************************************)
(* How the end of a job becomes known and what is told and kept of it: the  *)
(* gate that marks it, the watch that tells a client, its record, and the   *)
(* observers that are asked whether its processes are still there.          *)
(*                                                                         *)
(* The gate, for any set of streams and any number of writes: it marks the  *)
(* job at most once, and not before all that the command wrote has been     *)
(* read.  The argument is about one pass of the event loop.  When the exit  *)
(* event is owed the command is dead, so whatever it left in a pipe was     *)
(* ready at the same time and is owed too (ExitComesWithOutput); a check    *)
(* phase comes only when nothing is owed any more.                          *)
(*                                                                         *)
(* The watch, for any streams, windows and rates: the notifications and the *)
(* open window after them are batches, and every step appends an empty      *)
(* batch (EmptyBatches), puts a line at the end of the last (JoinsTheLast)  *)
(* or drops the last for good (CutsTheRest).                                *)
(*                                                                         *)
(* The records, for any number of jobs, any limits of retention and any     *)
(* times to live: what the sweep may reclaim, that the views of a record    *)
(* agree, and that a task's final answer stays final.                       *)
(*                                                                         *)
(* The observers of its processes, for any pids, bounds and texts: a reply  *)
(* is of a moment of the call (RepliesAreTrue), because the history that    *)
(* judges the verdict only grows.  A start that ps prints is read back      *)
(* because every day is one date of the calendar and every date one day.    *)
(***************************************************************************)
EXTENDS TerminalMarkGate, TaskWatch, PidObservation, JobRecords, FiniteSetTheorems,
        SequenceTheorems, TLAPS

-----------------------------------------------------------------------------
(* The gate.                                                                *)

ExitMeansDead == exited \/ "exit" \in owed => leaderDead

ExitComesWithOutput ==
  exited \/ "exit" \in owed => \A s \in Streams : "leader" \in unread[s] => s \in owed

EndedIsDrained == \A s \in ended : unread[s] = {} /\ s \in closed

FiredAfterExit == (settleCheckScheduled => exited) /\ (fired => exited)

MarksCounted == marks = IF fired THEN 1 ELSE 0

GateInv ==
  /\ TypeOK /\ ExitMeansDead /\ ExitComesWithOutput /\ EndedIsDrained
  /\ FiredAfterExit /\ MarksCounted /\ OutputPrecedesMark

-----------------------------------------------------------------------------
(* The gate's own variables after one of its callbacks: a job newly marked  *)
(* is one that was not, and one the caller may mark.                        *)
GateStep(mayFire, mayCheck) ==
  /\ settleCheckScheduled' \in BOOLEAN /\ fired' \in BOOLEAN
  /\ progressed' \subseteq Streams /\ marks' \in Nat
  /\ settleCheckScheduled' => settleCheckScheduled \/ mayCheck
  /\ fired => fired'
  /\ fired' => fired \/ mayFire
  /\ MarksCounted'

(* fireOnce marks the job unless it is marked.                              *)
LEMMA FireOnceSteps ==
  ASSUME TypeOK, MarksCounted, NEW b \in BOOLEAN, NEW mayCheck \in BOOLEAN,
         b => settleCheckScheduled \/ mayCheck, FireOnce(b)
  PROVE  GateStep(TRUE, mayCheck)
<1>1. settleCheckScheduled \in BOOLEAN /\ fired \in BOOLEAN /\ marks \in Nat
      /\ progressed \subseteq Streams
  BY DEF TypeOK
<1>2. CASE fired
  BY <1>1, <1>2 DEF MarksCounted, FireOnce, Idle, GateStep
<1>3. CASE ~fired
  <2>1. /\ fired' = TRUE /\ marks' = marks + 1 /\ marks = 0
        /\ settleCheckScheduled' = b /\ progressed' = progressed
    BY <1>3 DEF MarksCounted, FireOnce, Fire
  <2> QED  BY <1>1, <2>1 DEF MarksCounted, GateStep
<1> QED  BY <1>2, <1>3

(* scheduleSettleCheck marks nothing.                                       *)
LEMMA ScheduleSteps ==
  ASSUME TypeOK, MarksCounted, NEW b \in BOOLEAN, NEW mayFire \in BOOLEAN,
         ScheduleSettleCheck(b)
  PROVE  GateStep(mayFire, TRUE)
BY DEF TypeOK, MarksCounted, ScheduleSettleCheck, GateStep

(* A callback that decides nothing.                                         *)
LEMMA IdleSteps ==
  ASSUME TypeOK, MarksCounted, NEW b \in BOOLEAN, NEW mayFire \in BOOLEAN,
         NEW mayCheck \in BOOLEAN, b => settleCheckScheduled \/ mayCheck, Idle(b)
  PROVE  GateStep(mayFire, mayCheck)
BY DEF TypeOK, MarksCounted, Idle, GateStep

(* evaluate marks the job only when both streams ended, and after the exit. *)
LEMMA EvaluateSteps ==
  ASSUME TypeOK, MarksCounted, NEW hasExited \in BOOLEAN, NEW end, NEW settled,
         Evaluate(hasExited, end, settled)
  PROVE  GateStep(hasExited /\ end = Streams, hasExited)
<1>0. settleCheckScheduled \in BOOLEAN
  BY DEF TypeOK
<1>1. CASE fired \/ ~hasExited
  BY <1>0, <1>1, IdleSteps DEF Evaluate
<1>2. CASE ~(fired \/ ~hasExited) /\ end = Streams
  BY <1>0, <1>2, FireOnceSteps DEF Evaluate
<1>3. CASE ~(fired \/ ~hasExited) /\ end # Streams /\ settled
  BY <1>0, <1>3, ScheduleSteps DEF Evaluate
<1>4. CASE ~(fired \/ ~hasExited) /\ end # Streams /\ ~settled
  BY <1>0, <1>4, IdleSteps DEF Evaluate
<1> QED  BY <1>1, <1>2, <1>3, <1>4

(* The scheduled check marks, checks again, or finds the job marked.        *)
LEMMA SettleCheckSteps ==
  ASSUME TypeOK, MarksCounted, SettleCheck
  PROVE  GateStep(TRUE, TRUE)
<1>1. CASE fired
  BY <1>1, IdleSteps DEF SettleCheck
<1>2. CASE ~fired /\ ended = Streams
  BY <1>2, FireOnceSteps DEF SettleCheck
<1>3. CASE ~fired /\ ended # Streams
  BY <1>3, FireOnceSteps, ScheduleSteps DEF SettleCheck
<1> QED  BY <1>1, <1>2, <1>3

-----------------------------------------------------------------------------
(* GateInv holds initially.                                                    *)
LEMMA InitInvariant == Init => GateInv
<1> SUFFICES ASSUME Init PROVE GateInv
  OBVIOUS
<1>1. TypeOK
  <2>1. unread \in [Streams -> SUBSET {"leader", "other"}]
    BY DEF Init
  <2>2. /\ writes \in 0 .. MaxWrites /\ marks \in Nat
        /\ closed \subseteq Streams /\ ended \subseteq Streams
        /\ progressed \subseteq Streams /\ owed \subseteq Streams \cup {"exit"}
    BY WritesAssumption DEF Init
  <2>3. {leaderDead, exited, reapSettled, settleCheckScheduled, fired} \subseteq BOOLEAN
    BY DEF Init
  <2> QED  BY <2>1, <2>2, <2>3 DEF TypeOK
<1>2. ExitMeansDead /\ ExitComesWithOutput /\ EndedIsDrained
  BY DEF Init, ExitMeansDead, ExitComesWithOutput, EndedIsDrained
<1>3. FiredAfterExit /\ MarksCounted /\ OutputPrecedesMark
  BY DEF Init, FiredAfterExit, MarksCounted, OutputPrecedesMark
<1> QED  BY <1>1, <1>2, <1>3 DEF GateInv

(* GateInv is inductive.                                                       *)
LEMMA NextInvariant == GateInv /\ [Next]_vars => GateInv'
<1> SUFFICES ASSUME GateInv, [Next]_vars PROVE GateInv'
  OBVIOUS
<1> USE DEF GateInv
<1>0. TypeOK /\ MarksCounted
  OBVIOUS
<1>1. ASSUME NEW s \in Streams, NEW who \in {"leader", "other"}, Write(s, who)
      PROVE  GateInv'
  <2>1. /\ s \notin closed /\ writes < MaxWrites /\ writes' = writes + 1
        /\ who = "leader" => ~leaderDead
        /\ unread' = [unread EXCEPT ![s] = @ \cup {who}]
        /\ UNCHANGED <<leaderDead, closed, owed, gateVars>>
    BY <1>1 DEF Write
  <2>2. TypeOK'
    BY <2>1, WritesAssumption DEF TypeOK, gateVars
  <2>3. \A t \in Streams : "leader" \in unread'[t] => "leader" \in unread[t] \/ ~leaderDead
    BY <2>1 DEF TypeOK
  <2>4. ExitMeansDead' /\ ExitComesWithOutput'
    BY <2>1, <2>3 DEF ExitMeansDead, ExitComesWithOutput, gateVars
  <2>5. EndedIsDrained'
    BY <2>1 DEF EndedIsDrained, TypeOK, gateVars
  <2>6. FiredAfterExit' /\ MarksCounted'
    BY <2>1 DEF FiredAfterExit, MarksCounted, gateVars
  <2>7. OutputPrecedesMark'
    BY <2>1, <2>3 DEF OutputPrecedesMark, FiredAfterExit, ExitMeansDead, gateVars
  <2> QED  BY <2>2, <2>4, <2>5, <2>6, <2>7
<1>2. ASSUME NEW s \in Streams, Close(s)
      PROVE  GateInv'
  BY <1>2 DEF Close, gateVars, TypeOK, ExitMeansDead, ExitComesWithOutput, EndedIsDrained,
              FiredAfterExit, MarksCounted, OutputPrecedesMark
<1>3. CASE LeaderDies
  BY <1>3 DEF LeaderDies, gateVars, TypeOK, ExitMeansDead, ExitComesWithOutput,
              EndedIsDrained, FiredAfterExit, MarksCounted, OutputPrecedesMark
<1>4. ASSUME NEW s \in Streams, OnChunk(s)
      PROVE  GateInv'
  <2>1. /\ owed' = owed \ {s} /\ unread' = [unread EXCEPT ![s] = {}]
        /\ progressed' = progressed \cup {s}
        /\ UNCHANGED <<leaderDead, closed, writes, exited, ended, reapSettled,
                       settleCheckScheduled, fired, marks>>
    BY <1>4 DEF OnChunk
  <2>2. TypeOK'
    BY <2>1 DEF TypeOK
  <2>3. \A t \in Streams : unread'[t] = IF t = s THEN {} ELSE unread[t]
    BY <2>1 DEF TypeOK
  <2>4. ExitMeansDead' /\ ExitComesWithOutput' /\ EndedIsDrained'
    BY <2>1, <2>3 DEF ExitMeansDead, ExitComesWithOutput, EndedIsDrained, TypeOK
  <2>5. FiredAfterExit' /\ MarksCounted' /\ OutputPrecedesMark'
    BY <2>1, <2>3 DEF FiredAfterExit, MarksCounted, OutputPrecedesMark
  <2> QED  BY <2>2, <2>4, <2>5
<1>5. ASSUME NEW s \in Streams, OnEnd(s)
      PROVE  GateInv'
  <2>1. /\ s \in owed /\ unread[s] = {} /\ s \in closed
        /\ owed' = owed \ {s} /\ ended' = ended \cup {s}
        /\ UNCHANGED <<leaderDead, unread, closed, writes, exited, reapSettled>>
    BY <1>5 DEF OnEnd, childVars
  <2>2. GateStep(exited /\ ended' = Streams, exited)
    <3>1. exited \in BOOLEAN /\ Evaluate(exited, ended', reapSettled)
      BY <1>5 DEF OnEnd, TypeOK
    <3> QED  BY <1>0, <3>1, EvaluateSteps
  <2>3. TypeOK'
    BY <2>1, <2>2 DEF TypeOK, GateStep
  <2>4. ExitMeansDead' /\ ExitComesWithOutput' /\ EndedIsDrained'
    BY <2>1 DEF ExitMeansDead, ExitComesWithOutput, EndedIsDrained
  <2>5. FiredAfterExit' /\ MarksCounted'
    BY <2>1, <2>2 DEF FiredAfterExit, GateStep
  <2>6. OutputPrecedesMark'
    BY <2>1, <2>2, <2>4 DEF OutputPrecedesMark, EndedIsDrained, GateStep
  <2> QED  BY <2>3, <2>4, <2>5, <2>6
<1>6. CASE OnExit
  <2>1. /\ "exit" \in owed /\ owed' = owed \ {"exit"} /\ exited' = TRUE
        /\ UNCHANGED <<leaderDead, unread, closed, writes, ended, reapSettled>>
    BY <1>6 DEF OnExit, childVars
  <2>2. GateStep(TRUE /\ ended = Streams, TRUE)
    BY <1>0, <1>6, EvaluateSteps DEF OnExit
  <2>3. TypeOK'
    BY <2>1, <2>2 DEF TypeOK, GateStep
  <2>4. ExitMeansDead' /\ ExitComesWithOutput' /\ EndedIsDrained'
    BY <2>1, StreamsAssumption DEF ExitMeansDead, ExitComesWithOutput, EndedIsDrained
  <2>5. FiredAfterExit' /\ MarksCounted'
    BY <2>1, <2>2 DEF FiredAfterExit, GateStep
  <2>6. OutputPrecedesMark'
    BY <2>1, <2>2, <2>4 DEF OutputPrecedesMark, EndedIsDrained, GateStep
  <2> QED  BY <2>3, <2>4, <2>5, <2>6
<1>7. CASE OnReapSettled
  <2>1. /\ exited /\ reapSettled' = TRUE
        /\ UNCHANGED <<leaderDead, unread, closed, writes, owed, exited, ended>>
    BY <1>7 DEF OnReapSettled, childVars
  <2>2. GateStep(exited /\ ended = Streams, exited)
    <3>1. exited \in BOOLEAN /\ Evaluate(exited, ended, TRUE)
      BY <1>7 DEF OnReapSettled, TypeOK
    <3> QED  BY <1>0, <3>1, EvaluateSteps
  <2>3. TypeOK'
    BY <2>1, <2>2 DEF TypeOK, GateStep
  <2>4. ExitMeansDead' /\ ExitComesWithOutput' /\ EndedIsDrained'
    BY <2>1 DEF ExitMeansDead, ExitComesWithOutput, EndedIsDrained
  <2>5. FiredAfterExit' /\ MarksCounted'
    BY <2>1, <2>2 DEF FiredAfterExit, GateStep
  <2>6. OutputPrecedesMark'
    BY <2>1, <2>2 DEF OutputPrecedesMark, EndedIsDrained, GateStep
  <2> QED  BY <2>3, <2>4, <2>5, <2>6
<1>8. CASE CheckPhase
  <2>1. /\ owed = {} /\ owed' = Ready
        /\ UNCHANGED <<leaderDead, unread, closed, writes, exited, ended, reapSettled>>
    BY <1>8 DEF CheckPhase, childVars
  <2>2. GateStep(settleCheckScheduled, settleCheckScheduled)
    <3>1. CASE settleCheckScheduled
      BY <1>0, <1>8, <3>1, SettleCheckSteps DEF CheckPhase, TypeOK, GateStep
    <3>2. CASE ~settleCheckScheduled
      BY <1>8, <3>2 DEF CheckPhase, TypeOK, GateStep, MarksCounted
    <3> QED  BY <3>1, <3>2
  <2>3. TypeOK'
    BY <2>1, <2>2 DEF TypeOK, GateStep, Ready
  <2>4. EndedIsDrained'
    BY <2>1 DEF EndedIsDrained
  <2>5. ExitMeansDead'
    BY <2>1, StreamsAssumption DEF ExitMeansDead, Ready
  <2>6. ExitComesWithOutput'
    BY <2>1 DEF ExitComesWithOutput, EndedIsDrained, Ready
  <2>7. FiredAfterExit' /\ MarksCounted'
    BY <2>1, <2>2 DEF FiredAfterExit, GateStep
  <2>8. OutputPrecedesMark'
    BY <2>1, <2>2 DEF OutputPrecedesMark, ExitComesWithOutput, FiredAfterExit, GateStep
  <2> QED  BY <2>3, <2>4, <2>5, <2>6, <2>7, <2>8
<1>9. CASE UNCHANGED vars
  BY <1>9 DEF vars, childVars, gateVars, TypeOK, ExitMeansDead, ExitComesWithOutput,
              EndedIsDrained, FiredAfterExit, MarksCounted, OutputPrecedesMark
<1> QED  BY <1>1, <1>2, <1>3, <1>4, <1>5, <1>6, <1>7, <1>8, <1>9 DEF Next

(* The inductive invariant holds in every reachable state.                  *)
THEOREM GateInvariance == Spec => []GateInv
BY InitInvariant, NextInvariant, PTL DEF Spec

(* The variables keep their types.                                          *)
THEOREM GateTypeCorrect == Spec => []TypeOK
<1>1. GateInv => TypeOK
  BY DEF GateInv
<1> QED  BY <1>1, GateInvariance, PTL

(* fire is called once at most, also when a settle check runs late.         *)
THEOREM MarkedOnce == Spec => []MarksOnce
<1>1. GateInv => MarksOnce
  BY DEF GateInv, MarksCounted, MarksOnce
<1> QED  BY <1>1, GateInvariance, PTL

(* When the job is marked, nothing its command wrote is still unread.       *)
THEOREM OutputComesFirst == Spec => []OutputPrecedesMark
<1>1. GateInv => OutputPrecedesMark
  BY DEF GateInv
<1> QED  BY <1>1, GateInvariance, PTL

(* Both: the one mark comes after the last of the command's output.         *)
THEOREM MarkedAfterOutput == Spec => []MarkedOnceAfterOutput
<1>1. MarksOnce /\ OutputPrecedesMark => MarkedOnceAfterOutput
  BY DEF MarkedOnceAfterOutput
<1> QED  BY <1>1, MarkedOnce, OutputComesFirst, PTL

-----------------------------------------------------------------------------
(* The watch and the wake attempts.                                         *)

Line    == [stream : WatchedStreams, at : Nat]
Message == [method : {"notifications/tasks", "wake"}, lines : [WatchedStreams -> Seq(Nat)]]

WatchTypeOK ==
  /\ time \in Nat /\ late \in Nat
  /\ lines \in Seq(Line) /\ pending \in [WatchedStreams -> Seq(Nat)]
  /\ wire \in Seq(Message) /\ attempts \in Seq({"output", "terminal"})
  /\ window \in SUBSET Nat /\ wakeWindow \in SUBSET Nat
  /\ terminal \in BOOLEAN /\ stopped \in BOOLEAN /\ watchStop \in BOOLEAN
  /\ wakeStopped \in BOOLEAN
  /\ streak \in [start : Int, count : Int]
  /\ inFlight \in SUBSET Nat /\ lastWakeAttempt \in Nat

(* A watch stops for the end of the job or for a firehose, with nothing     *)
(* pending and no timer.                                                    *)
StopInv ==
  /\ stopped => window = {} /\ pending = NoLines
  /\ watchStop \/ terminal => stopped
  /\ stopped => watchStop \/ terminal
  /\ wakeStopped <=> terminal

(* A window that is open began within its length.                           *)
WindowInv ==
  /\ window = {} => pending = NoLines
  /\ \A due \in window : due <= time + WAKE_COALESCE_WINDOW
  /\ \A s \in WatchedStreams : \A i \in DOMAIN pending[s] :
       \E due \in window :
         /\ pending[s][i] \in DOMAIN lines
         /\ due <= lines[pending[s][i]].at + WAKE_COALESCE_WINDOW

(* A streak began with one of the lines.                                    *)
StreakInv ==
  streak # NoStreak => streak.count \in DOMAIN lines /\ lines[streak.count].at = streak.start

WatchInv ==
  /\ WatchTypeOK /\ StopInv /\ WindowInv /\ StreakInv
  /\ NotifiedInOrder /\ StatusIsLast /\ LastAttemptIsForTheEnd

(* The batches, for any wire and any open window.                           *)
BatchesOf(sent, open) ==
  [b \in 1 .. Len(sent) + 1 |-> IF b \in DOMAIN sent THEN sent[b].lines ELSE open]

LEMMA BatchesAre == Batches = BatchesOf(wire, pending)
BY DEF Batches, BatchesOf

LEMMA NoLinesType == NoLines \in [WatchedStreams -> Seq(Nat)]
BY DEF NoLines

(* Batches with nothing in them change nothing.                             *)
LEMMA EmptyBatches ==
  ASSUME NEW old, NEW new, NEW said, NEW cut \in BOOLEAN, NEW s \in WatchedStreams,
         DOMAIN old \subseteq DOMAIN new,
         \A b \in DOMAIN old : new[b] = old[b],
         \A b \in DOMAIN new \ DOMAIN old : new[b] = NoLines,
         OnceInOrder(old, said, cut, s)
  PROVE  OnceInOrder(new, said, cut, s)
<1>1. ASSUME NEW b \in DOMAIN new, NEW k \in DOMAIN new[b][s]
      PROVE  b \in DOMAIN old /\ k \in DOMAIN old[b][s] /\ new[b][s][k] = old[b][s][k]
  <2>1. NoLines[s] = <<>> BY DEF NoLines
  <2>2. b \in DOMAIN old BY <1>1, <2>1
  <2> QED BY <1>1, <2>2
<1>2. \A b \in DOMAIN old : \A k \in DOMAIN old[b][s] :
        b \in DOMAIN new /\ k \in DOMAIN new[b][s] /\ new[b][s][k] = old[b][s][k]
  OBVIOUS
<1> QED BY <1>1, <1>2 DEF OnceInOrder

(* A line is put at the end of the open window.                             *)
LEMMA JoinsTheLast ==
  ASSUME NEW n \in Nat, NEW open \in [WatchedStreams -> Seq(Nat)],
         NEW old, DOMAIN old = 1 .. n + 1, old[n + 1] = open,
         NEW from \in WatchedStreams, NEW at, NEW said \in Seq(Line),
         NEW new, DOMAIN new = 1 .. n + 1,
         new[n + 1] = [open EXCEPT ![from] = Append(@, Len(said) + 1)],
         \A b \in 1 .. n : new[b] = old[b],
         NEW s \in WatchedStreams,
         OnceInOrder(old, said, FALSE, s)
  PROVE  OnceInOrder(new, Append(said, [stream |-> from, at |-> at]), FALSE, s)
<1> DEFINE grown == Append(said, [stream |-> from, at |-> at])
           m   == Len(said) + 1
<1>1. /\ m \in Nat /\ DOMAIN grown = 1 .. m /\ DOMAIN said = 1 .. m - 1 /\ m \in DOMAIN grown
      /\ \A i \in DOMAIN said : i < m /\ i \in DOMAIN grown /\ grown[i] = said[i]
      /\ grown[m].stream = from /\ \A i \in DOMAIN grown : i \in DOMAIN said \/ i = m
  OBVIOUS
<1> HIDE DEF grown, m
<1>2. open[s] \in Seq(Nat) OBVIOUS
<1>3. CASE s = from
  <2> DEFINE e == Len(open[s]) + 1
  <2>1. new[n + 1][s] = Append(open[s], m) BY <1>3 DEF m
  <2>2. /\ DOMAIN new[n + 1][s] = 1 .. e /\ DOMAIN open[s] = 1 .. e - 1 /\ e \in Nat
        /\ new[n + 1][s][e] = m /\ e \in DOMAIN new[n + 1][s]
        /\ \A k \in DOMAIN open[s] :
             k < e /\ k \in DOMAIN new[n + 1][s] /\ new[n + 1][s][k] = open[s][k]
    BY <1>2, <2>1
  <2> HIDE DEF e
  <2>3. \A b \in DOMAIN old : \A k \in DOMAIN old[b][s] :
          /\ b \in DOMAIN new /\ k \in DOMAIN new[b][s] /\ new[b][s][k] = old[b][s][k]
          /\ b < n + 1 \/ (b = n + 1 /\ k < e)
    <3> SUFFICES ASSUME NEW b \in DOMAIN old, NEW k \in DOMAIN old[b][s]
                 PROVE  /\ b \in DOMAIN new /\ k \in DOMAIN new[b][s]
                        /\ new[b][s][k] = old[b][s][k]
                        /\ b < n + 1 \/ (b = n + 1 /\ k < e)
      OBVIOUS
    <3>1. CASE b = n + 1
      <4>1. k \in DOMAIN open[s] /\ n + 1 \in DOMAIN new BY <3>1
      <4> QED BY <2>2, <3>1, <4>1
    <3>2. CASE b # n + 1
      <4>1. b \in 1 .. n BY <3>2
      <4> QED BY <4>1
    <3> QED BY <3>1, <3>2
  <2>4. \A b \in DOMAIN new : \A k \in DOMAIN new[b][s] :
          \/ b \in DOMAIN old /\ k \in DOMAIN old[b][s]
          \/ b = n + 1 /\ k = e
    <3> SUFFICES ASSUME NEW b \in DOMAIN new, NEW k \in DOMAIN new[b][s]
                 PROVE  \/ b \in DOMAIN old /\ k \in DOMAIN old[b][s]
                        \/ b = n + 1 /\ k = e
      OBVIOUS
    <3>1. CASE b = n + 1
      <4>1. k \in 1 .. e BY <2>2, <3>1
      <4>2. k \in 1 .. e - 1 \/ k = e BY <2>2, <4>1
      <4> QED BY <2>2, <3>1, <4>2
    <3>2. CASE b # n + 1
      <4>1. b \in 1 .. n BY <3>2
      <4> QED BY <4>1
    <3> QED BY <3>1, <3>2
  <2>5. n + 1 \in DOMAIN new /\ e \in DOMAIN new[n + 1][s] BY <2>2
  <2>6. \A b \in DOMAIN old : \A k \in DOMAIN old[b][s] :
          old[b][s][k] \in DOMAIN said /\ said[old[b][s][k]].stream = s
    BY DEF OnceInOrder
  <2>7. ASSUME NEW b \in DOMAIN new, NEW k \in DOMAIN new[b][s]
        PROVE  new[b][s][k] \in DOMAIN grown /\ grown[new[b][s][k]].stream = s
    <3>1. CASE b \in DOMAIN old /\ k \in DOMAIN old[b][s]
      BY <1>1, <2>3, <2>6, <3>1
    <3>2. CASE b = n + 1 /\ k = e
      BY <1>1, <1>3, <2>2, <3>2
    <3> QED BY <2>4, <2>7, <3>1, <3>2
  <2>8. ASSUME NEW b \in DOMAIN new, NEW c \in DOMAIN new,
               NEW k \in DOMAIN new[b][s], NEW l \in DOMAIN new[c][s],
               b < c \/ (b = c /\ k < l)
        PROVE  new[b][s][k] < new[c][s][l]
    <3>1. ~(b = n + 1 /\ k = e)
      <4> SUFFICES ASSUME b = n + 1, k = e PROVE FALSE OBVIOUS
      <4>1. c \in 1 .. n + 1 OBVIOUS
      <4>2. c = n + 1 /\ e < l BY <2>8, <4>1
      <4>3. l \in 1 .. e BY <2>2, <4>2
      <4> QED BY <2>2, <4>2, <4>3
    <3>2. b \in DOMAIN old /\ k \in DOMAIN old[b][s] BY <2>4, <3>1
    <3>3. CASE c = n + 1 /\ l = e
      <4>1. new[c][s][l] = m BY <2>2, <3>3
      <4>2. new[b][s][k] \in DOMAIN said BY <2>3, <2>6, <3>2
      <4> QED BY <1>1, <4>1, <4>2
    <3>4. CASE c \in DOMAIN old /\ l \in DOMAIN old[c][s]
      <4>1. old[b][s][k] < old[c][s][l] BY <2>8, <3>2, <3>4 DEF OnceInOrder
      <4> QED BY <2>3, <3>2, <3>4, <4>1
    <3> QED BY <2>4, <3>3, <3>4
  <2>9. ASSUME NEW i \in DOMAIN grown, grown[i].stream = s
        PROVE  \E b \in DOMAIN new : \E k \in DOMAIN new[b][s] : new[b][s][k] = i
    <3>1. CASE i = m BY <2>2, <2>5, <3>1
    <3>2. CASE i \in DOMAIN said
      <4>1. PICK b \in DOMAIN old : \E k \in DOMAIN old[b][s] : old[b][s][k] = i
        BY <1>1, <2>9, <3>2 DEF OnceInOrder
      <4>2. PICK k \in DOMAIN old[b][s] : old[b][s][k] = i BY <4>1
      <4>3. b \in DOMAIN new /\ k \in DOMAIN new[b][s] /\ new[b][s][k] = i BY <2>3, <4>2
      <4> QED BY <4>3
    <3> QED BY <1>1, <3>1, <3>2
  <2> QED BY <2>7, <2>8, <2>9 DEF OnceInOrder, grown
<1>4. CASE s # from
  <2>1. new[n + 1][s] = open[s] BY <1>4
  <2>2. \A b \in DOMAIN old : new[b][s] = old[b][s]
    <3> SUFFICES ASSUME NEW b \in DOMAIN old PROVE new[b][s] = old[b][s] OBVIOUS
    <3>1. b \in 1 .. n \/ b = n + 1 OBVIOUS
    <3> QED BY <2>1, <3>1
  <2>3. ASSUME NEW i \in DOMAIN grown, grown[i].stream = s
        PROVE  i \in DOMAIN said /\ said[i].stream = s
    BY <1>1, <1>4, <2>3
  <2>4. DOMAIN new = DOMAIN old OBVIOUS
  <2>5. ASSUME NEW b \in DOMAIN new, NEW k \in DOMAIN new[b][s]
        PROVE  new[b][s][k] \in DOMAIN grown /\ grown[new[b][s][k]].stream = s
    <3>1. old[b][s][k] \in DOMAIN said /\ said[old[b][s][k]].stream = s
      BY <2>2, <2>4, <2>5 DEF OnceInOrder
    <3> QED BY <1>1, <2>2, <2>4, <3>1
  <2>6. ASSUME NEW b \in DOMAIN new, NEW c \in DOMAIN new,
               NEW k \in DOMAIN new[b][s], NEW l \in DOMAIN new[c][s],
               b < c \/ (b = c /\ k < l)
        PROVE  new[b][s][k] < new[c][s][l]
    BY <2>2, <2>4, <2>6 DEF OnceInOrder
  <2>7. ASSUME NEW i \in DOMAIN grown, grown[i].stream = s
        PROVE  \E b \in DOMAIN new : \E k \in DOMAIN new[b][s] : new[b][s][k] = i
    <3>1. PICK b \in DOMAIN old : \E k \in DOMAIN old[b][s] : old[b][s][k] = i
      BY <2>3, <2>7 DEF OnceInOrder
    <3>2. PICK k \in DOMAIN old[b][s] : old[b][s][k] = i BY <3>1
    <3>3. b \in DOMAIN new /\ k \in DOMAIN new[b][s] /\ new[b][s][k] = i BY <2>2, <2>4, <3>2
    <3> QED BY <3>3
  <2> QED BY <2>5, <2>6, <2>7 DEF OnceInOrder, grown
<1> QED BY <1>3, <1>4

(* A line is said that no batch takes, and the open window is dropped.      *)
LEMMA CutsTheRest ==
  ASSUME NEW n \in Nat, NEW old, DOMAIN old = 1 .. n + 1,
         NEW line, NEW said \in Seq(Line), NEW cut \in BOOLEAN,
         NEW new, DOMAIN new = 1 .. n + 1, new[n + 1] = NoLines,
         \A b \in 1 .. n : new[b] = old[b],
         NEW s \in WatchedStreams,
         \A b \in DOMAIN old : old[b][s] \in Seq(Nat),
         OnceInOrder(old, said, cut, s)
  PROVE  OnceInOrder(new, Append(said, line), TRUE, s)
<1> DEFINE grown == Append(said, line)
           m   == Len(said) + 1
<1>1. /\ m \in Nat /\ DOMAIN grown = 1 .. m /\ DOMAIN said = 1 .. m - 1
      /\ \A i \in DOMAIN said : i < m /\ i \in Nat /\ i \in DOMAIN grown /\ grown[i] = said[i]
      /\ \A i \in DOMAIN grown : i \in DOMAIN said \/ i = m
  OBVIOUS
<1> HIDE DEF grown, m
<1>2. ASSUME NEW b \in DOMAIN new, NEW k \in DOMAIN new[b][s]
      PROVE  /\ b \in 1 .. n /\ b \in DOMAIN old /\ k \in DOMAIN old[b][s]
             /\ new[b][s][k] = old[b][s][k]
  <2>1. NoLines[s] = <<>> BY DEF NoLines
  <2>2. b # n + 1 BY <1>2, <2>1
  <2>3. b \in 1 .. n BY <2>2
  <2> QED BY <1>2, <2>3
<1>3. \A b \in DOMAIN old : \A k \in DOMAIN old[b][s] :
        old[b][s][k] \in DOMAIN said /\ said[old[b][s][k]].stream = s
  BY DEF OnceInOrder
<1>4. ASSUME NEW b \in DOMAIN new, NEW c \in DOMAIN new,
             NEW k \in DOMAIN new[b][s], NEW l \in DOMAIN new[c][s],
             b < c \/ (b = c /\ k < l)
      PROVE  new[b][s][k] < new[c][s][l]
  BY <1>2, <1>4 DEF OnceInOrder
<1>5. ASSUME NEW i \in DOMAIN grown, grown[i].stream = s,
             ~ \E b \in DOMAIN new : \E k \in DOMAIN new[b][s] : new[b][s][k] = i,
             NEW b \in DOMAIN new, NEW k \in DOMAIN new[b][s]
      PROVE  new[b][s][k] < i
  <2>1. b \in 1 .. n /\ b \in DOMAIN old /\ k \in DOMAIN old[b][s] /\ new[b][s][k] = old[b][s][k]
    BY <1>2
  <2>2. CASE i = m BY <1>1, <1>3, <2>1, <2>2
  <2>3. CASE i \in DOMAIN said /\ \E c \in DOMAIN old : \E l \in DOMAIN old[c][s] : old[c][s][l] = i
    <3>1. PICK c \in DOMAIN old : \E l \in DOMAIN old[c][s] : old[c][s][l] = i BY <2>3
    <3>2. PICK l \in DOMAIN old[c][s] : old[c][s][l] = i BY <3>1
    <3>3. c = n + 1
      <4> SUFFICES ASSUME c # n + 1 PROVE FALSE OBVIOUS
      <4>1. c \in 1 .. n /\ c \in DOMAIN new OBVIOUS
      <4> QED BY <1>5, <3>2, <4>1
    <3>4. b < c BY <2>1, <3>3
    <3> QED BY <2>1, <3>2, <3>4 DEF OnceInOrder
  <2>4. CASE i \in DOMAIN said /\ ~ \E c \in DOMAIN old : \E l \in DOMAIN old[c][s] : old[c][s][l] = i
    <3>1. said[i].stream = s BY <1>1, <1>5, <2>4
    <3> QED BY <2>1, <2>4, <3>1 DEF OnceInOrder
  <2> QED BY <1>1, <2>2, <2>3, <2>4
<1>6. ASSUME NEW b \in DOMAIN new, NEW k \in DOMAIN new[b][s]
      PROVE  new[b][s][k] \in DOMAIN grown /\ grown[new[b][s][k]].stream = s
  BY <1>1, <1>2, <1>3, <1>6
<1> QED BY <1>4, <1>5, <1>6 DEF OnceInOrder, grown

-----------------------------------------------------------------------------
(* The batches and what is appended to them.                                *)

LEMMA BatchesHave ==
  ASSUME NEW sent \in Seq(Message), NEW open \in [WatchedStreams -> Seq(Nat)]
  PROVE  LET all == BatchesOf(sent, open)
         IN  /\ DOMAIN all = 1 .. Len(sent) + 1 /\ Len(sent) \in Nat
             /\ all[Len(sent) + 1] = open
             /\ \A b \in 1 .. Len(sent) : all[b] = sent[b].lines
             /\ \A b \in DOMAIN all : all[b] \in [WatchedStreams -> Seq(Nat)]
<1>1. Len(sent) \in Nat /\ DOMAIN sent = 1 .. Len(sent) OBVIOUS
<1>2. ASSUME NEW b \in DOMAIN sent PROVE sent[b].lines \in [WatchedStreams -> Seq(Nat)]
  <2>1. sent[b] \in Message BY <1>1, <1>2
  <2> QED BY <2>1 DEF Message
<1> DEFINE all == BatchesOf(sent, open)
<1>3. DOMAIN all = 1 .. Len(sent) + 1 BY DEF BatchesOf
<1>4. Len(sent) + 1 \in 1 .. Len(sent) + 1 /\ Len(sent) + 1 \notin DOMAIN sent BY <1>1
<1>5. all[Len(sent) + 1] = open BY <1>4 DEF BatchesOf
<1>6. ASSUME NEW b \in 1 .. Len(sent) PROVE all[b] = sent[b].lines
  <2>1. b \in 1 .. Len(sent) + 1 /\ b \in DOMAIN sent BY <1>1
  <2> QED BY <2>1 DEF BatchesOf
<1> HIDE DEF all
<1>7. ASSUME NEW b \in DOMAIN all PROVE all[b] \in [WatchedStreams -> Seq(Nat)]
  <2>1. b \in 1 .. Len(sent) \/ b = Len(sent) + 1 BY <1>1, <1>3
  <2> QED BY <1>1, <1>2, <1>5, <1>6, <2>1
<1> QED BY <1>1, <1>3, <1>5, <1>6, <1>7 DEF all

(* A notification takes the window's lines, and leaves it empty.            *)
LEMMA TellingKeeps ==
  ASSUME NEW sent \in Seq(Message), NEW open \in [WatchedStreams -> Seq(Nat)],
         NEW message \in Message, message.lines = open,
         NEW said, NEW cut \in BOOLEAN, NEW s \in WatchedStreams,
         OnceInOrder(BatchesOf(sent, open), said, cut, s)
  PROVE  OnceInOrder(BatchesOf(Append(sent, message), NoLines), said, cut, s)
<1> DEFINE old == BatchesOf(sent, open)
           more == Append(sent, message)
           new == BatchesOf(more, NoLines)
           n == Len(sent)
<1>1. /\ n \in Nat /\ more \in Seq(Message) /\ Len(more) = n + 1 /\ more[n + 1] = message
      /\ \A b \in 1 .. n : more[b] = sent[b]
  OBVIOUS
<1>2. /\ DOMAIN old = 1 .. n + 1 /\ old[n + 1] = open
      /\ \A b \in 1 .. n : old[b] = sent[b].lines
  BY BatchesHave
<1> HIDE DEF more
<1>3. /\ DOMAIN new = 1 .. Len(more) + 1 /\ new[Len(more) + 1] = NoLines
      /\ \A b \in 1 .. Len(more) : new[b] = more[b].lines
  BY <1>1, NoLinesType, BatchesHave
<1> HIDE DEF old, new, n
<1>4. ASSUME NEW b \in DOMAIN old PROVE b \in DOMAIN new /\ new[b] = old[b]
  <2>1. b \in 1 .. n \/ b = n + 1 BY <1>1, <1>2
  <2>2. b \in 1 .. Len(more) /\ b \in DOMAIN new BY <1>1, <1>3, <2>1
  <2>3. new[b] = more[b].lines BY <1>3, <2>2
  <2> QED BY <1>1, <1>2, <2>1, <2>2, <2>3
<1>5. ASSUME NEW b \in DOMAIN new \ DOMAIN old PROVE new[b] = NoLines
  <2>1. b = n + 2 BY <1>1, <1>2, <1>3
  <2> QED BY <1>1, <1>3, <2>1
<1>6. DOMAIN old \subseteq DOMAIN new BY <1>4
<1>7. OnceInOrder(new, said, cut, s) BY <1>4, <1>5, <1>6, EmptyBatches DEF old
<1> QED BY <1>7 DEF new, more

(* What a flush leaves.                                                     *)
Flushed(sent, open) == IF open = NoLines THEN sent ELSE Append(sent, Wake(open))

LEMMA MessagesAre ==
  /\ Status \in Message /\ Status.lines = NoLines
  /\ \A open \in [WatchedStreams -> Seq(Nat)] :
       Wake(open) \in Message /\ Wake(open).lines = open /\ Wake(open) # Status
<1>1. Status.method = "notifications/tasks" BY DEF Status
<1>2. \A open : Wake(open).method = "wake" BY DEF Wake
<1>3. \A open : Wake(open) # Status BY <1>1, <1>2
<1> QED BY <1>3, NoLinesType DEF Status, Wake, Message

LEMMA FlushKeeps ==
  ASSUME NEW sent \in Seq(Message), NEW open \in [WatchedStreams -> Seq(Nat)],
         NEW said, NEW cut \in BOOLEAN, NEW s \in WatchedStreams,
         OnceInOrder(BatchesOf(sent, open), said, cut, s)
  PROVE  /\ Flushed(sent, open) \in Seq(Message)
         /\ OnceInOrder(BatchesOf(Flushed(sent, open), NoLines), said, cut, s)
         /\ OnceInOrder(BatchesOf(Append(Flushed(sent, open), Status), NoLines), said, cut, s)
<1>1. /\ Flushed(sent, open) \in Seq(Message)
      /\ OnceInOrder(BatchesOf(Flushed(sent, open), NoLines), said, cut, s)
  <2>1. CASE open = NoLines BY <2>1 DEF Flushed
  <2>2. CASE open # NoLines
    <3>1. Flushed(sent, open) = Append(sent, Wake(open)) BY <2>2 DEF Flushed
    <3>2. Wake(open) \in Message /\ Wake(open).lines = open BY MessagesAre
    <3>3. Append(sent, Wake(open)) \in Seq(Message) BY <3>2
    <3>4. OnceInOrder(BatchesOf(Append(sent, Wake(open)), NoLines), said, cut, s)
      BY <3>2, TellingKeeps
    <3> QED BY <3>1, <3>3, <3>4
  <2> QED BY <2>1, <2>2
<1>2. OnceInOrder(BatchesOf(Append(Flushed(sent, open), Status), NoLines), said, cut, s)
  BY <1>1, MessagesAre, NoLinesType, TellingKeeps
<1> QED BY <1>1, <1>2

(* OnlyAtTheEnd, for a job that is over or not.                             *)
EndsOnly(told, end, over) ==
  \A i \in 0 .. Len(told) : (i \in DOMAIN told /\ told[i] = end) <=> (over /\ i = Len(told))

LEMMA EndsOnlyGrows ==
  ASSUME NEW S, NEW told \in Seq(S), NEW end \in S, NEW x \in S,
         EndsOnly(told, end, FALSE)
  PROVE  /\ x # end => EndsOnly(Append(told, x), end, FALSE)
         /\ EndsOnly(Append(told, end), end, TRUE)
<1>1. Len(told) \in Nat /\ DOMAIN told = 1 .. Len(told) OBVIOUS
<1>2. \A i \in DOMAIN told : told[i] # end
  <2> SUFFICES ASSUME NEW i \in DOMAIN told PROVE told[i] # end OBVIOUS
  <2>1. i \in 0 .. Len(told) BY <1>1
  <2> QED BY <2>1 DEF EndsOnly
<1>3. ASSUME NEW y \in S, NEW i \in 0 .. Len(Append(told, y)),
             i \in DOMAIN Append(told, y)
      PROVE  \/ i \in DOMAIN told /\ Append(told, y)[i] = told[i] /\ i # Len(Append(told, y))
             \/ i = Len(Append(told, y)) /\ Append(told, y)[i] = y
  <2>1. i \in 1 .. Len(told) + 1 /\ Len(Append(told, y)) = Len(told) + 1 BY <1>3
  <2>2. CASE i = Len(told) + 1 BY <2>1, <2>2
  <2>3. CASE i # Len(told) + 1 BY <1>1, <2>1, <2>3
  <2> QED BY <2>2, <2>3
<1>4. ASSUME NEW y \in S
      PROVE  /\ Len(Append(told, y)) \in DOMAIN Append(told, y)
             /\ Append(told, y)[Len(Append(told, y))] = y
  OBVIOUS
<1>5. ASSUME x # end PROVE EndsOnly(Append(told, x), end, FALSE)
  BY <1>2, <1>3, <1>5 DEF EndsOnly
<1>6. EndsOnly(Append(told, end), end, TRUE)
  BY <1>2, <1>3, <1>4 DEF EndsOnly
<1> QED BY <1>5, <1>6

-----------------------------------------------------------------------------
(* The steps.                                                               *)

LEMMA Constants ==
  /\ WAKE_COALESCE_WINDOW \in Nat /\ FIREHOSE_LINES_PER_TICK \in Nat
  /\ FIREHOSE_SUSTAINED \in Nat /\ FIREHOSE_SUSTAINED > 0
BY WindowAssumption

(* NotifiedInOrder, StatusIsLast and LastAttemptIsForTheEnd, now and next.  *)
LEMMA Unfolded ==
  /\ NotifiedInOrder <=>
       \A s \in WatchedStreams : OnceInOrder(BatchesOf(wire, pending), lines, watchStop, s)
  /\ StatusIsLast <=> EndsOnly(wire, Status, terminal)
  /\ LastAttemptIsForTheEnd <=> EndsOnly(attempts, "terminal", terminal)
BY BatchesAre DEF NotifiedInOrder, StatusIsLast, LastAttemptIsForTheEnd, OnlyAtTheEnd, EndsOnly

LEMMA UnfoldedNext ==
  /\ NotifiedInOrder' <=>
       \A s \in WatchedStreams : OnceInOrder(BatchesOf(wire', pending'), lines', watchStop', s)
  /\ StatusIsLast' <=> EndsOnly(wire', Status, terminal')
  /\ LastAttemptIsForTheEnd' <=> EndsOnly(attempts', "terminal", terminal')
<1>1. Batches' = BatchesOf(wire', pending') BY DEF Batches, BatchesOf
<1> QED BY <1>1 DEF NotifiedInOrder, StatusIsLast, LastAttemptIsForTheEnd, OnlyAtTheEnd, EndsOnly,
                    Status, NoLines

LEMMA LaterStill ==
  ASSUME NEW a \in Nat, NEW b \in Nat, NEW c \in Nat, NEW d \in Nat, a <= b + d, b <= c
  PROVE  a <= c + d
OBVIOUS

(* A step in which the watch sees nothing, and the job does not end.        *)
Elsewhere ==
  /\ UNCHANGED <<lines, terminal, watchVars, wire>>
  /\ time' \in Nat /\ time <= time'

LEMMA ElsewhereKeeps ==
  ASSUME WatchInv, Elsewhere
  PROVE  /\ StopInv' \/ wakeStopped' # wakeStopped
         /\ WindowInv' /\ StreakInv' /\ NotifiedInOrder' /\ StatusIsLast' /\ StopsWhenSustained
<1>1. /\ lines' = lines /\ terminal' = terminal /\ wire' = wire /\ time <= time'
      /\ stopped' = stopped /\ pending' = pending /\ window' = window /\ streak' = streak
      /\ watchStop' = watchStop /\ time' \in Nat
  BY DEF Elsewhere, watchVars
<1>2. NotifiedInOrder' /\ StatusIsLast'
  BY <1>1, Unfolded, UnfoldedNext DEF WatchInv
<1>3. \A due \in window : due <= time' + WAKE_COALESCE_WINDOW
  <2> SUFFICES ASSUME NEW due \in window PROVE due <= time' + WAKE_COALESCE_WINDOW OBVIOUS
  <2>1. due \in Nat /\ time \in Nat BY DEF WatchInv, WatchTypeOK
  <2>2. due <= time + WAKE_COALESCE_WINDOW BY DEF WatchInv, WindowInv
  <2> QED BY <1>1, <2>1, <2>2, Constants, LaterStill
<1>4. WindowInv' BY <1>1, <1>3 DEF WatchInv, WindowInv, NoLines
<1>5. StreakInv' BY <1>1 DEF WatchInv, StreakInv, NoStreak
<1>6. StopInv' \/ wakeStopped' # wakeStopped BY <1>1 DEF WatchInv, StopInv, NoLines
<1> QED BY <1>1, <1>2, <1>4, <1>5, <1>6 DEF StopsWhenSustained

LEMMA TimeKeeps ==
  ASSUME WatchInv, TimePasses \/ (\E a \in inFlight : WakeSettles(a)) \/ UNCHANGED taskVars
  PROVE  WatchInv' /\ StopsWhenSustained
<1> DEFINE Stands ==
      /\ attempts' = attempts /\ wakeStopped' = wakeStopped /\ late' = late
      /\ wakeWindow' = wakeWindow /\ inFlight' \in SUBSET Nat /\ lastWakeAttempt' \in Nat
<1>1. Elsewhere /\ Stands
  <2>1. CASE TimePasses
    BY <2>1 DEF TimePasses, Elsewhere, WatchInv, WatchTypeOK, wakeVars
  <2>2. ASSUME NEW a \in inFlight, WakeSettles(a) PROVE Elsewhere /\ Stands
    BY <2>2 DEF WakeSettles, Elsewhere, WatchInv, WatchTypeOK
  <2>3. CASE UNCHANGED taskVars
    BY <2>3 DEF taskVars, Elsewhere, WatchInv, WatchTypeOK, wakeVars
  <2> QED BY <2>1, <2>2, <2>3
<1>2. LastAttemptIsForTheEnd'
  BY <1>1, Unfolded, UnfoldedNext DEF WatchInv, Elsewhere
<1>3. WatchTypeOK' BY <1>1 DEF WatchInv, WatchTypeOK, Elsewhere, watchVars
<1> QED BY <1>1, <1>2, <1>3, ElsewhereKeeps DEF WatchInv

LEMMA FireWakeKeeps ==
  ASSUME WatchInv, FireWake
  PROVE  WatchInv' /\ StopsWhenSustained
<1>1. /\ Elsewhere /\ wakeStopped' = wakeStopped /\ ~terminal /\ terminal' = terminal
      /\ attempts' = Append(attempts, "output") /\ wakeWindow' = {}
      /\ inFlight' = inFlight \cup {Len(attempts')} /\ lastWakeAttempt' = lastWakeAttempt
      /\ late' = late
  BY DEF FireWake, Dispatch, Elsewhere, WatchInv, WatchTypeOK, StopInv
<1>2. attempts \in Seq({"output", "terminal"}) /\ terminal = FALSE
  BY <1>1 DEF WatchInv, WatchTypeOK
<1>3. EndsOnly(attempts', "terminal", FALSE)
  <2>1. EndsOnly(attempts, "terminal", FALSE) BY <1>2, Unfolded DEF WatchInv
  <2>2. /\ "output" \in {"output", "terminal"} /\ "terminal" \in {"output", "terminal"}
        /\ "output" # "terminal"
    OBVIOUS
  <2>3. EndsOnly(Append(attempts, "output"), "terminal", FALSE)
    BY <1>2, <2>1, <2>2, EndsOnlyGrows
  <2> QED BY <1>1, <2>3
<1>4. LastAttemptIsForTheEnd' BY <1>1, <1>2, <1>3, UnfoldedNext
<1>5. attempts' \in Seq({"output", "terminal"}) /\ Len(attempts') \in Nat BY <1>1, <1>2
<1>6. inFlight' \in SUBSET Nat BY <1>1, <1>5 DEF WatchInv, WatchTypeOK
<1>7. WatchTypeOK' BY <1>1, <1>5, <1>6 DEF WatchInv, WatchTypeOK, Elsewhere, watchVars
<1> QED BY <1>1, <1>4, <1>7, ElsewhereKeeps DEF WatchInv

(* A flush of what is pending, at the end of a window or of the job.        *)
LEMMA FlushTells ==
  ASSUME WatchInv
  PROVE  /\ Flushed(wire, pending) \in Seq(Message)
         /\ \A s \in WatchedStreams :
              /\ OnceInOrder(BatchesOf(Flushed(wire, pending), NoLines), lines, watchStop, s)
              /\ OnceInOrder(BatchesOf(Append(Flushed(wire, pending), Status), NoLines),
                             lines, watchStop, s)
         /\ ~terminal =>
              /\ EndsOnly(Flushed(wire, pending), Status, FALSE)
              /\ EndsOnly(Append(Flushed(wire, pending), Status), Status, TRUE)
<1>1. /\ wire \in Seq(Message) /\ pending \in [WatchedStreams -> Seq(Nat)]
      /\ watchStop \in BOOLEAN /\ terminal \in BOOLEAN
  BY DEF WatchInv, WatchTypeOK
<1>2. /\ \A s \in WatchedStreams : OnceInOrder(BatchesOf(wire, pending), lines, watchStop, s)
      /\ EndsOnly(wire, Status, terminal)
  BY Unfolded DEF WatchInv
<1>3. Flushed(wire, pending) \in Seq(Message)
  BY <1>1, MessagesAre DEF Flushed
<1>4. ASSUME NEW s \in WatchedStreams
      PROVE  /\ OnceInOrder(BatchesOf(Flushed(wire, pending), NoLines), lines, watchStop, s)
             /\ OnceInOrder(BatchesOf(Append(Flushed(wire, pending), Status), NoLines),
                            lines, watchStop, s)
  BY <1>1, <1>2, FlushKeeps
<1>5. ASSUME ~terminal
      PROVE  /\ EndsOnly(Flushed(wire, pending), Status, FALSE)
             /\ EndsOnly(Append(Flushed(wire, pending), Status), Status, TRUE)
  <2>1. EndsOnly(wire, Status, FALSE) BY <1>1, <1>2, <1>5
  <2>2. Wake(pending) \in Message /\ Wake(pending) # Status /\ Status \in Message
    BY <1>1, MessagesAre
  <2>3. EndsOnly(Flushed(wire, pending), Status, FALSE)
    <3>1. CASE pending = NoLines BY <2>1, <3>1 DEF Flushed
    <3>2. CASE pending # NoLines
      <4>1. EndsOnly(Append(wire, Wake(pending)), Status, FALSE)
        BY <1>1, <2>1, <2>2, EndsOnlyGrows
      <4> QED BY <3>2, <4>1 DEF Flushed
    <3> QED BY <3>1, <3>2
  <2>4. EndsOnly(Append(Flushed(wire, pending), Status), Status, TRUE)
    BY <1>3, <2>2, <2>3, EndsOnlyGrows
  <2> QED BY <2>3, <2>4
<1> QED BY <1>3, <1>4, <1>5

LEMMA WindowClosesKeeps ==
  ASSUME WatchInv, WindowCloses
  PROVE  WatchInv' /\ StopsWhenSustained
<1>1. /\ window # {} /\ ~stopped /\ ~terminal
  BY DEF WindowCloses, Due, WatchInv, StopInv
<1>2. /\ wire' = Flushed(wire, pending) /\ pending' = NoLines /\ window' = {}
      /\ UNCHANGED <<time, lines, late, terminal, stopped, streak, watchStop, wakeVars>>
  BY DEF WindowCloses, Flush, Flushed
<1>3. NotifiedInOrder' BY <1>2, FlushTells, UnfoldedNext
<1>4. StatusIsLast'
  <2>1. terminal = FALSE BY <1>1 DEF WatchInv, WatchTypeOK
  <2> QED BY <1>1, <1>2, <2>1, FlushTells, UnfoldedNext
<1>5. LastAttemptIsForTheEnd' BY <1>2, Unfolded, UnfoldedNext DEF WatchInv, wakeVars
<1>6. WatchTypeOK'
  <2>1. wire' \in Seq(Message) /\ pending' \in [WatchedStreams -> Seq(Nat)]
    BY <1>2, FlushTells, NoLinesType
  <2> QED BY <1>2, <2>1 DEF WatchInv, WatchTypeOK, wakeVars
<1>7. StopInv' BY <1>1, <1>2 DEF WatchInv, StopInv, wakeVars, NoLines
<1>8. WindowInv'
  <2>1. \A s \in WatchedStreams : DOMAIN pending'[s] = {} BY <1>2 DEF NoLines
  <2> QED BY <1>2, <2>1 DEF WindowInv, NoLines
<1>9. StreakInv' BY <1>2 DEF WatchInv, StreakInv, NoStreak
<1> QED BY <1>2, <1>3, <1>4, <1>5, <1>6, <1>7, <1>8, <1>9 DEF WatchInv, StopsWhenSustained

LEMMA JobTerminalKeeps ==
  ASSUME WatchInv, JobTerminal
  PROVE  WatchInv' /\ StopsWhenSustained
<1>1. /\ ~terminal /\ terminal' = TRUE /\ wakeStopped' = TRUE /\ wakeWindow' = {}
      /\ attempts' = Append(attempts, "terminal")
      /\ inFlight' = inFlight \cup {Len(attempts')} /\ lastWakeAttempt' = lastWakeAttempt
      /\ stopped' = TRUE /\ window' = {} /\ pending' = NoLines
      /\ UNCHANGED <<time, lines, late, streak, watchStop>>
  BY DEF JobTerminal, Dispatch, WakeEnds, WatchEnds
<1>2. wire' = Append(Flushed(wire, pending), Status)
  <2>1. stopped => pending = NoLines BY DEF WatchInv, StopInv
  <2> QED BY <2>1 DEF JobTerminal, WatchEnds, TerminalWire, Flushed
<1>3. NotifiedInOrder' BY <1>1, <1>2, FlushTells, UnfoldedNext
<1>4. StatusIsLast' BY <1>1, <1>2, FlushTells, UnfoldedNext
<1>5. attempts \in Seq({"output", "terminal"}) /\ terminal = FALSE
  BY <1>1 DEF WatchInv, WatchTypeOK
<1>6. LastAttemptIsForTheEnd'
  <2>1. EndsOnly(attempts, "terminal", FALSE) BY <1>5, Unfolded DEF WatchInv
  <2>2. EndsOnly(Append(attempts, "terminal"), "terminal", TRUE) BY <1>5, <2>1, EndsOnlyGrows
  <2> QED BY <1>1, <2>2, UnfoldedNext
<1>7. WatchTypeOK'
  <2>1. wire' \in Seq(Message) BY <1>2, FlushTells, MessagesAre
  <2>2. attempts' \in Seq({"output", "terminal"}) /\ Len(attempts') \in Nat BY <1>1, <1>5
  <2> QED BY <1>1, <2>1, <2>2, NoLinesType DEF WatchInv, WatchTypeOK
<1>8. StopInv' BY <1>1 DEF StopInv, NoLines
<1>9. WindowInv'
  <2>1. \A s \in WatchedStreams : DOMAIN pending'[s] = {} BY <1>1 DEF NoLines
  <2> QED BY <1>1, <2>1 DEF WindowInv, NoLines
<1>10. StreakInv' BY <1>1 DEF WatchInv, StreakInv, NoStreak
<1> QED BY <1>1, <1>3, <1>4, <1>6, <1>7, <1>8, <1>9, <1>10 DEF WatchInv, StopsWhenSustained

(* A line, before the end of the job.  Of a stopped watch nothing is left,  *)
(* and a firehose leaves it so: the rest is cut off.                        *)
LEMMA LineKeeps ==
  ASSUME WatchInv, NEW s \in WatchedStreams, LineArrives(s)
  PROVE  WatchInv' /\ StopsWhenSustained
<1> DEFINE line  == [stream |-> s, at |-> time]
           total == Len(lines) + 1
<1>1. /\ ~terminal /\ terminal' = FALSE /\ lines' = Append(lines, line) /\ time \in Nat
      /\ time' = time /\ late' = late /\ wire' = wire /\ attempts' = attempts
      /\ wakeStopped' = wakeStopped /\ ~wakeStopped
      /\ inFlight' = inFlight /\ lastWakeAttempt' = lastWakeAttempt
      /\ stopped => watchStop
  BY DEF LineArrives, WatchInv, WatchTypeOK, StopInv
<1>2. /\ wire \in Seq(Message) /\ pending \in [WatchedStreams -> Seq(Nat)]
      /\ lines \in Seq(Line) /\ watchStop \in BOOLEAN /\ window \in SUBSET Nat
      /\ wakeWindow \in SUBSET Nat /\ streak \in [start : Int, count : Int]
  BY DEF WatchInv, WatchTypeOK
<1>3. /\ line \in Line /\ lines' \in Seq(Line) /\ Len(lines') = total /\ total \in Nat
      /\ lines'[total] = line /\ total \in DOMAIN lines'
      /\ \A i \in DOMAIN lines : i \in DOMAIN lines' /\ lines'[i] = lines[i]
  BY <1>1, <1>2 DEF Line
<1> HIDE DEF total
<1>4. wakeWindow' \in SUBSET Nat
  BY <1>1, <1>2, Constants DEF LineArrives, ScheduleWindow
<1>5. LastAttemptIsForTheEnd' /\ StatusIsLast'
  BY <1>1, Unfolded, UnfoldedNext DEF WatchInv, WatchTypeOK
<1>6. \A r \in WatchedStreams : OnceInOrder(BatchesOf(wire, pending), lines, watchStop, r)
  BY Unfolded DEF WatchInv
<1> DEFINE n   == Len(wire)
           old == BatchesOf(wire, pending)
           new == BatchesOf(wire', pending')
<1>7. /\ n \in Nat /\ DOMAIN old = 1 .. n + 1 /\ old[n + 1] = pending
      /\ \A b \in 1 .. n : old[b] = wire[b].lines
      /\ \A b \in DOMAIN old : old[b] \in [WatchedStreams -> Seq(Nat)]
  BY <1>2, BatchesHave
<1>8. ASSUME pending' \in [WatchedStreams -> Seq(Nat)]
      PROVE  /\ DOMAIN new = 1 .. n + 1 /\ new[n + 1] = pending'
             /\ \A b \in 1 .. n : new[b] = old[b]
  <2>1. new = BatchesOf(wire, pending') BY <1>1
  <2> HIDE DEF new, old
  <2>2. /\ DOMAIN new = 1 .. n + 1 /\ new[n + 1] = pending'
        /\ \A b \in 1 .. n : new[b] = wire[b].lines
    BY <1>2, <1>8, <2>1, BatchesHave
  <2> QED BY <1>7, <2>2
<1> HIDE DEF old, new, n
<1>9. ASSUME pending' = NoLines, watchStop' = TRUE
      PROVE  NotifiedInOrder'
  <2>1. ASSUME NEW r \in WatchedStreams
        PROVE  OnceInOrder(new, Append(lines, line), TRUE, r)
    <3>1. \A b \in DOMAIN old : old[b][r] \in Seq(Nat) BY <1>7
    <3>2. OnceInOrder(old, lines, watchStop, r) BY <1>6 DEF old
    <3>3. DOMAIN new = 1 .. n + 1 /\ new[n + 1] = NoLines /\ \A b \in 1 .. n : new[b] = old[b]
      BY <1>8, <1>9, NoLinesType
    <3> HIDE DEF line
    <3> QED BY <1>2, <1>7, <3>1, <3>2, <3>3, CutsTheRest
  <2> QED BY <1>1, <1>9, <2>1, UnfoldedNext DEF new
<1>10. CASE stopped
  <2>1. /\ watchStop = TRUE /\ pending = NoLines /\ window = {}
        /\ UNCHANGED <<stopped, pending, window, streak, watchStop>>
    BY <1>1, <1>2, <1>10 DEF LineArrives, WatchSees, watchVars, WatchInv, StopInv
  <2>2. NotifiedInOrder' BY <1>9, <2>1
  <2>3. WatchTypeOK' BY <1>1, <1>3, <1>4, <2>1 DEF WatchInv, WatchTypeOK
  <2>4. StopInv' BY <1>1, <1>10, <2>1 DEF StopInv, NoLines
  <2>5. WindowInv'
    <3>1. \A r \in WatchedStreams : DOMAIN pending'[r] = {} BY <2>1 DEF NoLines
    <3> QED BY <2>1, <3>1 DEF WindowInv, NoLines
  <2>6. StreakInv' BY <1>3, <2>1 DEF WatchInv, StreakInv, NoStreak
  <2> QED BY <1>5, <2>1, <2>2, <2>3, <2>4, <2>5, <2>6 DEF WatchInv, StopsWhenSustained
<1>11. CASE ~stopped
  <2>1. ~watchStop /\ watchStop = FALSE BY <1>2, <1>11 DEF WatchInv, StopInv
  <2>2. streak' = NextStreak(total) BY <1>3, <1>11 DEF LineArrives, WatchSees
  <2>3. streak' \in [start : Int, count : Int]
    BY <1>1, <1>2, <1>3, <2>2 DEF NextStreak
  <2>4. StreakInv'
    <3>1. CASE streak' = [start |-> time, count |-> total]
      BY <1>3, <3>1 DEF StreakInv
    <3>2. CASE streak' = streak
      BY <1>3, <3>2 DEF WatchInv, StreakInv, NoStreak
    <3> QED BY <2>2, <3>1, <3>2 DEF NextStreak
  <2>5. CASE Firehose(total)
    <3>1. /\ stopped' = TRUE /\ watchStop' = TRUE /\ pending' = NoLines /\ window' = {}
      BY <1>3, <1>11, <2>5 DEF LineArrives, WatchSees
    <3>2. NotifiedInOrder' BY <1>9, <3>1
    <3>3. WatchTypeOK'
      BY <1>1, <1>3, <1>4, <2>3, <3>1, NoLinesType DEF WatchInv, WatchTypeOK
    <3>4. StopInv' BY <1>1, <3>1 DEF StopInv, NoLines
    <3>5. WindowInv'
      <4>1. \A r \in WatchedStreams : DOMAIN pending'[r] = {} BY <3>1 DEF NoLines
      <4> QED BY <3>1, <4>1 DEF WindowInv, NoLines
    <3>6. StopsWhenSustained
      <4> DEFINE i == streak.count
      <4>1. i \in DOMAIN lines /\ lines[i].at = streak.start
        BY <2>5 DEF Firehose, WatchInv, StreakInv
      <4>2. lines[i] \in Line /\ i \in Nat /\ i \in 1 .. Len(lines) /\ i < total
        BY <1>2, <4>1 DEF total
      <4>3. time - lines[i].at >= FIREHOSE_SUSTAINED BY <2>5, <4>1 DEF Firehose
      <4>4. lines[i].at \in Nat BY <4>2 DEF Line
      <4>5. time - lines[i].at # 0 BY <1>1, <4>3, <4>4, Constants
      <4>6. total - i >= FIREHOSE_LINES_PER_TICK * (time - lines[i].at)
        BY <2>5, <4>1, <4>5 DEF Firehose, HoldsRate
      <4>7. Len(lines') - i >= FIREHOSE_LINES_PER_TICK * (time - lines[i].at) BY <1>3, <4>6
      <4> QED BY <4>2, <4>3, <4>7 DEF StopsWhenSustained
    <3> QED BY <1>5, <2>4, <3>2, <3>3, <3>4, <3>5, <3>6 DEF WatchInv
  <2>6. CASE ~Firehose(total)
    <3>1. /\ pending' = [pending EXCEPT ![s] = Append(@, total)]
          /\ window' = ScheduleWindow(window, s)
          /\ stopped' = stopped /\ watchStop' = watchStop
      BY <1>3, <1>11, <2>6 DEF LineArrives, WatchSees
    <3>2. pending' \in [WatchedStreams -> Seq(Nat)] BY <1>2, <1>3, <3>1
    <3>3. NotifiedInOrder'
      <4>1. ASSUME NEW r \in WatchedStreams
            PROVE  OnceInOrder(new, Append(lines, line), FALSE, r)
        <5>1. OnceInOrder(old, lines, FALSE, r) BY <1>6, <2>1 DEF old
        <5>2. /\ DOMAIN new = 1 .. n + 1 /\ \A b \in 1 .. n : new[b] = old[b]
              /\ new[n + 1] = [pending EXCEPT ![s] = Append(@, Len(lines) + 1)]
          BY <1>8, <3>1, <3>2 DEF total
        <5> QED BY <1>2, <1>7, <5>1, <5>2, JoinsTheLast
      <4> QED BY <1>1, <2>1, <3>1, <4>1, UnfoldedNext DEF new
    <3>4. PICK due \in window' : due \in Nat /\ due <= time + WAKE_COALESCE_WINDOW
      <4>1. CASE window = {}
        <5>1. time + WAKE_COALESCE_WINDOW \in window' BY <3>1, <4>1 DEF ScheduleWindow
        <5> QED BY <1>1, <5>1, Constants
      <4>2. CASE window # {}
        <5>1. PICK d : d \in window BY <4>2
        <5>2. d \in window' BY <3>1, <4>2, <5>1 DEF ScheduleWindow
        <5>3. d \in Nat /\ d <= time + WAKE_COALESCE_WINDOW
          BY <1>2, <5>1 DEF WatchInv, WindowInv
        <5> QED BY <5>2, <5>3
      <4> QED BY <4>1, <4>2
    <3>5. window' \in SUBSET Nat /\ \A d \in window' : d <= time + WAKE_COALESCE_WINDOW
      BY <1>1, <1>2, <3>1, Constants DEF ScheduleWindow, WatchInv, WindowInv
    <3>6. WindowInv'
      <4>1. ASSUME NEW r \in WatchedStreams, NEW i \in DOMAIN pending'[r]
            PROVE  \E d \in window' :
                     /\ pending'[r][i] \in DOMAIN lines'
                     /\ d <= lines'[pending'[r][i]].at + WAKE_COALESCE_WINDOW
        <5>1. \/ i \in DOMAIN pending[r] /\ pending'[r][i] = pending[r][i]
              \/ pending'[r][i] = total
          <6>1. CASE r # s BY <1>2, <3>1, <4>1, <6>1
          <6>2. CASE r = s
            <7>1. pending'[r] = Append(pending[r], total) /\ pending[r] \in Seq(Nat)
              BY <1>2, <3>1, <6>2
            <7>2. i \in 1 .. Len(pending[r]) + 1 BY <1>3, <4>1, <7>1
            <7>3. CASE i = Len(pending[r]) + 1 BY <7>1, <7>3
            <7>4. CASE i # Len(pending[r]) + 1 BY <7>1, <7>2, <7>4
            <7> QED BY <7>3, <7>4
          <6> QED BY <6>1, <6>2
        <5>2. CASE pending'[r][i] = total BY <1>3, <3>4, <5>2
        <5>3. CASE i \in DOMAIN pending[r] /\ pending'[r][i] = pending[r][i]
          <6>1. PICK d \in window :
                  /\ pending[r][i] \in DOMAIN lines
                  /\ d <= lines[pending[r][i]].at + WAKE_COALESCE_WINDOW
            BY <5>3 DEF WatchInv, WindowInv
          <6>2. d \in window' BY <3>1, <6>1 DEF ScheduleWindow
          <6> QED BY <1>3, <5>3, <6>1, <6>2
        <5> QED BY <5>1, <5>2, <5>3
      <4>2. window' # {} BY <3>4
      <4> QED BY <1>1, <3>5, <4>1, <4>2 DEF WindowInv
    <3>7. WatchTypeOK'
      BY <1>1, <1>3, <1>4, <2>3, <3>1, <3>2, <3>5 DEF WatchInv, WatchTypeOK
    <3>8. StopInv' BY <1>1, <1>11, <2>1, <3>1 DEF StopInv
    <3> QED BY <1>5, <2>1, <2>4, <3>1, <3>3, <3>6, <3>7, <3>8 DEF WatchInv, StopsWhenSustained
  <2> QED BY <2>5, <2>6
<1> QED BY <1>10, <1>11

(* A line after the end: nobody listens any more.                           *)
LEMMA LateLineKeeps ==
  ASSUME WatchInv, NEW s \in WatchedStreams, LateLine(s)
  PROVE  WatchInv' /\ StopsWhenSustained
<1>1. /\ Elsewhere /\ attempts' = attempts /\ wakeStopped' = wakeStopped /\ late' = 1
      /\ wakeWindow' = wakeWindow /\ inFlight' = inFlight /\ lastWakeAttempt' = lastWakeAttempt
  BY DEF LateLine, WatchSees, Elsewhere, WatchInv, WatchTypeOK, StopInv
<1>2. LastAttemptIsForTheEnd'
  BY <1>1, Unfolded, UnfoldedNext DEF WatchInv, Elsewhere
<1>3. WatchTypeOK' BY <1>1 DEF WatchInv, WatchTypeOK, Elsewhere, watchVars
<1> QED BY <1>1, <1>2, <1>3, ElsewhereKeeps DEF WatchInv

LEMMA WatchInitInvariant == WatchInit => WatchInv
<1> SUFFICES ASSUME WatchInit PROVE WatchInv OBVIOUS
<1>1. /\ time = 0 /\ lines = <<>> /\ late = 0 /\ terminal = FALSE /\ stopped = FALSE
      /\ pending = NoLines /\ window = {} /\ streak = NoStreak /\ watchStop = FALSE
      /\ wire = <<>> /\ wakeStopped = FALSE /\ wakeWindow = {} /\ attempts = <<>>
      /\ inFlight = {} /\ lastWakeAttempt = 0
  BY DEF WatchInit
<1>2. WatchTypeOK
  <2>1. /\ lines \in Seq(Line) /\ wire \in Seq(Message)
        /\ attempts \in Seq({"output", "terminal"})
    BY <1>1
  <2>2. streak \in [start : Int, count : Int] BY <1>1 DEF NoStreak
  <2>3. window \in SUBSET Nat /\ wakeWindow \in SUBSET Nat /\ inFlight \in SUBSET Nat
    BY <1>1
  <2>4. pending \in [WatchedStreams -> Seq(Nat)] BY <1>1, NoLinesType
  <2> QED BY <1>1, <2>1, <2>2, <2>3, <2>4 DEF WatchTypeOK
<1>3. StopInv /\ StreakInv BY <1>1 DEF StopInv, StreakInv
<1>4. \A s \in WatchedStreams : NoLines[s] = <<>> BY DEF NoLines
<1>5. WindowInv BY <1>1, <1>4 DEF WindowInv
<1>6. NotifiedInOrder
  <2>1. wire \in Seq(Message) BY <1>1
  <2>2. Len(wire) = 0 BY <1>1
  <2>3. /\ DOMAIN BatchesOf(wire, pending) = {1} /\ BatchesOf(wire, pending)[1] = NoLines
    <3>1. /\ DOMAIN BatchesOf(wire, pending) = 1 .. 0 + 1
          /\ BatchesOf(wire, pending)[0 + 1] = NoLines
      BY <1>1, <2>1, <2>2, NoLinesType, BatchesHave
    <3> QED BY <3>1
  <2>4. DOMAIN lines = {} BY <1>1
  <2> DEFINE all == BatchesOf(wire, pending)
  <2>5. DOMAIN all = {1} /\ all[1] = NoLines BY <2>3
  <2> HIDE DEF all
  <2>6. ASSUME NEW s \in WatchedStreams PROVE OnceInOrder(all, lines, watchStop, s)
    <3>1. \A b \in DOMAIN all : DOMAIN all[b][s] = {} BY <1>4, <2>5
    <3> QED BY <2>4, <3>1 DEF OnceInOrder
  <2> QED BY <2>6, Unfolded DEF all
<1>7. StatusIsLast /\ LastAttemptIsForTheEnd
  <2>1. \A end : EndsOnly(<<>>, end, FALSE) BY DEF EndsOnly
  <2> QED BY <1>1, <2>1, Unfolded
<1> QED BY <1>2, <1>3, <1>5, <1>6, <1>7 DEF WatchInv

LEMMA WatchStep ==
  ASSUME WatchInv, [WatchNext]_taskVars PROVE WatchInv' /\ StopsWhenSustained
<1>1. CASE WatchNext
  <2>1. CASE TimePasses BY <2>1, TimeKeeps
  <2>2. CASE WindowCloses BY <2>2, WindowClosesKeeps
  <2>3. CASE FireWake BY <2>3, FireWakeKeeps
  <2>4. CASE JobTerminal BY <2>4, JobTerminalKeeps
  <2>5. ASSUME NEW s \in WatchedStreams, LineArrives(s)
        PROVE  WatchInv' /\ StopsWhenSustained
    BY <2>5, LineKeeps
  <2>6. ASSUME NEW s \in WatchedStreams, LateLine(s)
        PROVE  WatchInv' /\ StopsWhenSustained
    BY <2>6, LateLineKeeps
  <2>7. ASSUME NEW a \in inFlight, WakeSettles(a)
        PROVE  WatchInv' /\ StopsWhenSustained
    BY <2>7, TimeKeeps
  <2> QED BY <1>1, <2>1, <2>2, <2>3, <2>4, <2>5, <2>6, <2>7 DEF WatchNext
<1>2. CASE UNCHANGED taskVars BY <1>2, TimeKeeps
<1> QED BY <1>1, <1>2

(* The watch's invariant: windows, batches, streak and the ends agree in    *)
(* every reachable state.                                                   *)
THEOREM WatchInvariance == WatchSpec => []WatchInv
BY WatchInitInvariant, WatchStep, PTL DEF WatchSpec

(* What a client is told is the job: every line of every stream once, in    *)
(* order and within a window of its arrival, then the status, and a wake    *)
(* for the end after all others; only a firehose cuts the lines off.        *)
THEOREM ToldInOrder == WatchSpec => []ToldAsItHappened
<1>1. WatchInv => ToldAsItHappened
  <2> SUFFICES ASSUME WatchInv PROVE ToldAsItHappened OBVIOUS
  <2>1. WaitIsOneWindow BY DEF WatchInv, WindowInv, WaitIsOneWindow
  <2> QED BY <2>1 DEF WatchInv, ToldAsItHappened, NotifiedAsItHappened
<1> QED BY <1>1, WatchInvariance, PTL

(* The watch stops itself only after a span of at least FIREHOSE_SUSTAINED  *)
(* whose lines came at the rate of a firehose.                              *)
THEOREM FirehoseStaysSustained == WatchSpec => FirehoseIsSustained
<1>1. WatchInv /\ [WatchNext]_taskVars => [StopsWhenSustained]_taskVars
  BY WatchStep
<1> QED BY <1>1, WatchInvariance, PTL DEF WatchSpec, FirehoseIsSustained

-----------------------------------------------------------------------------
(* The records: positions in an order.                                      *)

Before(S, R, j) == {i \in S : <<i, j>> \in R}

IsOrder(S, R) ==
  /\ \A i \in S : <<i, i>> \notin R
  /\ \A i, j, k \in S : <<i, j>> \in R /\ <<j, k>> \in R => <<i, k>> \in R
  /\ \A i, j \in S : i # j => <<i, j>> \in R \/ <<j, i>> \in R

(* In a finite order, later means more before it, and what has no fewer     *)
(* than all but m before it is no more than m.                              *)
LEMMA PositionsAreExact ==
  ASSUME NEW S, IsFiniteSet(S), NEW R, IsOrder(S, R), NEW m \in Nat
  PROVE  /\ \A i, j \in S : <<i, j>> \in R => Cardinality(Before(S, R, i)) < Cardinality(Before(S, R, j))
         /\ \A j \in S : Cardinality(Before(S, R, j)) \in Nat
         /\ Cardinality({j \in S : ~(Cardinality(Before(S, R, j)) < Cardinality(S) - m)}) <= m
<1> DEFINE n == Cardinality(S)
           pos(j) == Cardinality(Before(S, R, j))
           K == {j \in S : ~(pos(j) < n - m)}
<1>1. n \in Nat BY FS_CardinalityType
<1>2. ASSUME NEW j \in S PROVE IsFiniteSet(Before(S, R, j)) /\ pos(j) \in 0 .. n - 1
  <2>1. Before(S, R, j) \in SUBSET S /\ j \notin Before(S, R, j) BY DEF Before, IsOrder
  <2>2. IsFiniteSet(Before(S, R, j)) /\ pos(j) <= n /\ (n = pos(j) => S = Before(S, R, j))
    BY <2>1, FS_Subset
  <2>3. pos(j) \in Nat /\ pos(j) # n BY <2>1, <2>2, FS_CardinalityType
  <2> HIDE DEF pos, n
  <2> QED BY <1>1, <2>2, <2>3
<1>3. ASSUME NEW i \in S, NEW j \in S, <<i, j>> \in R PROVE pos(i) < pos(j)
  <2>1. Before(S, R, i) \in SUBSET Before(S, R, j) BY <1>3 DEF Before, IsOrder
  <2>2. i \in Before(S, R, j) /\ i \notin Before(S, R, i) BY <1>3 DEF Before, IsOrder
  <2>3. pos(i) <= pos(j) /\ (pos(j) = pos(i) => Before(S, R, j) = Before(S, R, i))
    BY <1>2, <2>1, FS_Subset
  <2>4. pos(i) # pos(j) BY <2>2, <2>3
  <2>5. pos(i) \in Nat /\ pos(j) \in Nat BY <1>1, <1>2
  <2> HIDE DEF pos
  <2> QED BY <2>3, <2>4, <2>5
<1>4. Cardinality(K) <= m
  <2> DEFINE f == [j \in K |-> pos(j)]
  <2>1. f \in [K -> n - m .. n - 1]
    <3>1. ASSUME NEW j \in K PROVE pos(j) \in n - m .. n - 1
      <4>1. j \in S /\ ~(pos(j) < n - m) OBVIOUS
      <4>2. pos(j) \in 0 .. n - 1 BY <1>2, <4>1
      <4> HIDE DEF pos, n
      <4> QED BY <1>1, <4>1, <4>2
    <3> QED BY <3>1
  <2>2. ASSUME NEW i \in K, NEW j \in K, f[i] = f[j] PROVE i = j
    <3>1. i \in S /\ j \in S /\ pos(i) = pos(j) BY <2>2
    <3>2. pos(i) \in Nat /\ ~(pos(i) < pos(j)) /\ ~(pos(j) < pos(i)) BY <1>1, <1>2, <3>1
    <3> HIDE DEF pos
    <3> QED BY <1>3, <3>1, <3>2 DEF IsOrder
  <2>3. f \in Injection(K, n - m .. n - 1)
    <3> HIDE DEF f, K
    <3>1. \A i, j \in K : f[i] = f[j] => i = j BY <2>2
    <3> QED BY <2>1, <3>1 DEF Injection, IsInjective
  <2> HIDE DEF f, K, n
  <2>4. n - m \in Int /\ n - 1 \in Int BY <1>1
  <2>5. IsFiniteSet(n - m .. n - 1) BY <2>4, FS_Interval
  <2>6. Cardinality(n - m .. n - 1) = IF n - m > n - 1 THEN 0 ELSE n - 1 - (n - m) + 1
    BY <2>4, FS_Interval
  <2>7. Cardinality(n - m .. n - 1) = m BY <1>1, <2>6
  <2> QED BY <2>3, <2>5, <2>7, FS_Injection
<1>5. \A j \in S : pos(j) \in Nat BY <1>1, <1>2
<1> QED BY <1>3, <1>4, <1>5

-----------------------------------------------------------------------------
(* The invariants.                                                          *)

(* A record of job j at some time: its marks go with its state, and its     *)
(* times are in order.                                                      *)
RecordOK(rec, j, stamp) ==
  /\ rec \in JobRecord /\ rec.seq = j
  /\ rec.started_at <= stamp /\ rec.last_updated_at <= stamp
  /\ rec.ended_at <= rec.last_updated_at
  /\ isTerminalJobState(rec.state) => rec.ended_at # -1
  /\ ~isTerminalJobState(rec.state) => rec.ended_at = -1
  /\ rec.exit_code # Null => rec.state = "exited"
  /\ rec.diagnostic # Null => rec.state = "failed"
  /\ rec.state = "failed" => rec.diagnostic # Null
  /\ rec.signal # Null => rec.state = "killed"
  /\ rec.state = "killed" => rec.signal # Null

(* What the record says of the child's identity is what the child knows.    *)
IdentityOK(rec, c) ==
  /\ c = "told" => rec.identity_capture = "captured"
  /\ rec.identity_capture = "captured" => c = "told"
  /\ c = "no" => rec.identity_capture = Null

CountersOK ==
  /\ clock \in 0 .. MaxTime /\ created \in 0 .. MaxJobs
  /\ child \in [Ids -> {"no", "untold", "told"}] /\ chunks \in [Ids -> 0 .. MaxChunks]

(* Records are numbered by their creation, in the order of their start.     *)
RecordsOK ==
  /\ jobs = [j \in DOMAIN jobs |-> jobs[j]] /\ DOMAIN jobs \subseteq 1 .. created
  /\ \A j \in DOMAIN jobs : RecordOK(jobs[j], j, clock) /\ IdentityOK(jobs[j], child[j])
  /\ \A i, j \in DOMAIN jobs : i < j => jobs[i].started_at <= jobs[j].started_at
  /\ \A j \in Ids : j > created => child[j] = "no"

(* What was reclaimed while its leader lived is remembered as unguarded,    *)
(* and nothing else in trouble is reclaimed.                                *)
ReclaimOK ==
  /\ childrenExited \subseteq Ids /\ unguarded \subseteq retentionEvicted
  /\ reapPending \subseteq DOMAIN jobs /\ strandedSlots \subseteq DOMAIN jobs
  /\ retentionEvicted \subseteq DOMAIN jobs
  /\ retentionEvicted \ childrenExited \subseteq unguarded
  /\ (reapPending \cup strandedSlots) \cap retentionEvicted \subseteq unguarded

RecordsInv == CountersOK /\ RecordsOK /\ ReclaimOK

LEMMA Bounds ==
  /\ MaxJobs \in Nat /\ MaxTime \in Nat /\ MaxChunks \in Nat
  /\ RETENTION_MS \in Nat /\ MAX_RETAINED_JOBS \in Nat /\ TASK_TTL_MS \in Nat
BY BoundsAssumption, RetentionAssumption

LEMMA JobsAreIds ==
  ASSUME CountersOK, RecordsOK, NEW j \in DOMAIN jobs
  PROVE  /\ j \in Ids /\ j \in Nat /\ j <= created /\ created \in Nat /\ clock \in Nat
         /\ RecordOK(jobs[j], j, clock) /\ IdentityOK(jobs[j], child[j])
         /\ jobs[j].ended_at \in Int
<1>1. /\ created \in Nat /\ created <= MaxJobs /\ clock \in Nat /\ MaxJobs \in Nat
      /\ j \in 1 .. created
      /\ RecordOK(jobs[j], j, clock) /\ IdentityOK(jobs[j], child[j])
  BY Bounds DEF CountersOK, RecordsOK
<1>2. jobs[j] \in JobRecord BY <1>1 DEF RecordOK
<1>3. jobs[j].ended_at \in Nat \cup {-1} BY <1>2 DEF JobRecord
<1>4. j \in Nat /\ j <= created /\ j \in 1 .. MaxJobs BY <1>1
<1> QED BY <1>1, <1>3, <1>4 DEF Ids

-----------------------------------------------------------------------------
(* The sweep.                                                               *)

(* byAge, with any order of the ids, orders the jobs.                       *)
LEMMA AgeIsAnOrder ==
  ASSUME CountersOK, RecordsOK, NEW rank \in Injection(Ids, Ids), NEW S \in SUBSET DOMAIN jobs
  PROVE  IsOrder(S, {p \in S \X S : byAge(rank, p[1], p[2])})
<1> DEFINE R == {p \in S \X S : byAge(rank, p[1], p[2])}
<1>1. \A i, j \in S : <<i, j>> \in R <=> byAge(rank, i, j) OBVIOUS
<1>2. \A i \in S : i \in Ids /\ jobs[i].ended_at \in Int /\ rank[i] \in Nat
  <2>1. \A i \in S : i \in Ids /\ jobs[i].ended_at \in Int BY JobsAreIds
  <2>2. rank \in [Ids -> Ids] BY DEF Injection
  <2>3. \A i \in Ids : rank[i] \in Nat BY <2>2, Bounds DEF Ids
  <2> QED BY <2>1, <2>3
<1>3. \A i, j \in S : i # j => rank[i] # rank[j]
  <2>1. \A i, j \in Ids : rank[i] = rank[j] => i = j BY DEF Injection, IsInjective
  <2> QED BY <1>2, <2>1
<1> HIDE DEF R
<1>4. \A i \in S : <<i, i>> \notin R BY <1>1, <1>2 DEF byAge
<1>5. \A i, j, k \in S : <<i, j>> \in R /\ <<j, k>> \in R => <<i, k>> \in R
  BY <1>1, <1>2 DEF byAge
<1>6. \A i, j \in S : i # j => <<i, j>> \in R \/ <<j, i>> \in R
  BY <1>1, <1>2, <1>3 DEF byAge
<1> QED BY <1>4, <1>5, <1>6 DEF IsOrder, R

(* A decision takes only what may be reclaimed, takes all that is overdue,  *)
(* leaves no more than the limit, and takes nothing younger than it leaves. *)
LEMMA DecisionIsByAge ==
  ASSUME CountersOK, RecordsOK, NEW rank \in Injection(Ids, Ids)
  PROVE  LET evicted == decideRetentionEvictions(rank)
             kept    == Reclaimable \ evicted
         IN  /\ evicted \subseteq Reclaimable
             /\ \A k \in kept : ~Overdue(k)
             /\ Cardinality(kept) <= MAX_RETAINED_JOBS
             /\ \A j \in evicted, k \in kept :
                  Overdue(j) \/ jobs[j].ended_at <= jobs[k].ended_at
<1> DEFINE S == {j \in Reclaimable : ~Overdue(j)}
           R == {p \in S \X S : byAge(rank, p[1], p[2])}
           pos(j) == Cardinality(Before(S, R, j))
           limit == Cardinality(S) - MAX_RETAINED_JOBS
           evicted == decideRetentionEvictions(rank)
           kept == Reclaimable \ evicted
<1>1. S \in SUBSET DOMAIN jobs BY DEF Reclaimable
<1>2. IsFiniteSet(S)
  <2>1. created \in Nat /\ DOMAIN jobs \subseteq 1 .. created BY Bounds DEF CountersOK, RecordsOK
  <2>2. IsFiniteSet(1 .. created) BY <2>1, FS_Interval
  <2> HIDE DEF S
  <2> QED BY <1>1, <2>1, <2>2, FS_Subset
<1>3. IsOrder(S, R)
  <2> HIDE DEF S
  <2> QED BY <1>1, AgeIsAnOrder
<1>4. \A i, j \in S : <<i, j>> \in R <=> byAge(rank, i, j) OBVIOUS
<1>5. \A j \in S : Before(S, R, j) = {i \in S : byAge(rank, i, j)} BY <1>4 DEF Before
<1>6. evicted = {j \in Reclaimable : Overdue(j) \/ Cardinality({i \in S : byAge(rank, i, j)}) < limit}
  BY DEF decideRetentionEvictions
<1>7. ASSUME NEW j \in Reclaimable
      PROVE  /\ Overdue(j) => j \in evicted
             /\ ~Overdue(j) => (j \in evicted <=> pos(j) < limit)
             /\ j \in S <=> ~Overdue(j)
  <2> HIDE DEF R, limit, evicted
  <2>1. j \in S <=> ~Overdue(j) OBVIOUS
  <2>2. j \in evicted <=> (Overdue(j) \/ Cardinality({i \in S : byAge(rank, i, j)}) < limit)
    BY <1>6
  <2> HIDE DEF S
  <2> QED BY <1>5, <2>1, <2>2
<1>8. evicted \subseteq Reclaimable BY <1>6
<1> HIDE DEF S, R, limit, evicted
<1>9. MAX_RETAINED_JOBS \in Nat BY Bounds
<1>10. /\ \A i, j \in S : <<i, j>> \in R => pos(i) < pos(j)
       /\ \A j \in S : pos(j) \in Nat
       /\ Cardinality({j \in S : ~(pos(j) < limit)}) <= MAX_RETAINED_JOBS
  BY <1>2, <1>3, <1>9, PositionsAreExact DEF limit
<1>11. kept = {j \in S : ~(pos(j) < limit)}
  <2>1. S \subseteq Reclaimable BY DEF S
  <2> HIDE DEF pos
  <2> QED BY <1>7, <2>1
<1>12. \A k \in kept : ~Overdue(k) BY <1>7
<1>13. ASSUME NEW j \in evicted, NEW k \in kept, ~Overdue(j)
       PROVE  jobs[j].ended_at <= jobs[k].ended_at
  <2>1. j \in S /\ pos(j) < limit BY <1>7, <1>8, <1>13
  <2>2. k \in S /\ ~(pos(k) < limit) BY <1>11
  <2>3. limit \in Int BY <1>2, <1>9, FS_CardinalityType DEF limit
  <2>4. pos(j) \in Nat /\ pos(k) \in Nat BY <1>10, <2>1, <2>2
  <2> HIDE DEF pos
  <2>5. ~(pos(k) < pos(j)) BY <2>1, <2>2, <2>3, <2>4
  <2>6. ~byAge(rank, k, j) BY <1>4, <1>10, <2>1, <2>2, <2>5
  <2>7. jobs[j].ended_at \in Int /\ jobs[k].ended_at \in Int BY <1>1, <2>1, <2>2, JobsAreIds
  <2> QED BY <2>6, <2>7 DEF byAge
<1>14. Cardinality(kept) <= MAX_RETAINED_JOBS BY <1>10, <1>11
<1> QED BY <1>8, <1>12, <1>13, <1>14 DEF evicted

-----------------------------------------------------------------------------
(* The writes to one record.                                                *)

(* A record keeps its start, and what its first terminal mark said.         *)
Follows(old, new) ==
  /\ new.started_at = old.started_at
  /\ isTerminalJobState(old.state) =>
       new.state = old.state /\ new.ended_at = old.ended_at /\ new.exit_code = old.exit_code
  /\ old.last_updated_at <= new.last_updated_at

LEMMA RecordFields ==
  ASSUME NEW rec \in JobRecord
  PROVE  /\ rec.started_at \in Nat /\ rec.last_updated_at \in Nat /\ rec.ended_at \in Nat \cup {-1}
         /\ rec.ended_at \in Int /\ rec.seq \in Nat
<1>1. /\ rec.started_at \in Nat /\ rec.last_updated_at \in Nat /\ rec.ended_at \in Nat \cup {-1}
      /\ rec.seq \in Nat
  BY DEF JobRecord
<1> QED BY <1>1

LEMMA TimesAreNumbers == \A n \in Nat : n # -1 /\ n <= n
OBVIOUS

(* A terminal mark gives the code, the signal or the reason of its state.   *)
MarkOK(state, code, signal, reason) ==
  /\ state \in {"exited", "killed", "failed"} /\ code \in {Null, "a code"}
  /\ signal \in {Null, "SIGTERM", "queue-cancelled"} /\ reason \in {Null, "a reason"}
  /\ code # Null => state = "exited"
  /\ signal # Null => state = "killed"
  /\ state = "killed" => signal # Null
  /\ reason # Null => state = "failed"
  /\ state = "failed" => reason # Null

MarkOf(rec, stamp, state, code, signal, reason) ==
  [rec EXCEPT !.state = state, !.ended_at = stamp, !.last_updated_at = stamp,
              !.exit_code = code, !.signal = signal, !.diagnostic = reason]

LEMMA MarkIsOK ==
  ASSUME NEW stamp \in Nat, NEW j, NEW rec, RecordOK(rec, j, stamp), ~isTerminalJobState(rec.state),
         NEW state, NEW code, NEW signal, NEW reason, MarkOK(state, code, signal, reason)
  PROVE  LET new == MarkOf(rec, stamp, state, code, signal, reason)
         IN  /\ RecordOK(new, j, stamp) /\ Follows(rec, new)
             /\ new.identity_capture = rec.identity_capture
<1> DEFINE new == MarkOf(rec, stamp, state, code, signal, reason)
<1>1. rec \in JobRecord BY DEF RecordOK
<1>2. new \in JobRecord BY <1>1 DEF JobRecord, MarkOK, MarkOf
<1>3. /\ new.state = state /\ new.ended_at = stamp /\ new.last_updated_at = stamp
      /\ new.exit_code = code /\ new.signal = signal /\ new.diagnostic = reason
      /\ new.started_at = rec.started_at /\ new.seq = rec.seq
      /\ new.identity_capture = rec.identity_capture
  BY <1>1 DEF JobRecord, MarkOf
<1> HIDE DEF new
<1>4. stamp # -1 /\ stamp <= stamp /\ isTerminalJobState(state)
  <2>1. stamp # -1 /\ stamp <= stamp BY TimesAreNumbers
  <2>2. isTerminalJobState(state) BY DEF isTerminalJobState, MarkOK
  <2> QED BY <2>1, <2>2
<1>5. rec.started_at <= stamp /\ rec.last_updated_at <= stamp /\ rec.seq = j BY DEF RecordOK
<1>6. RecordOK(new, j, stamp) BY <1>2, <1>3, <1>4, <1>5 DEF RecordOK, MarkOK
<1>7. Follows(rec, new) BY <1>3, <1>5 DEF Follows
<1> QED BY <1>3, <1>6, <1>7 DEF new

LEMMA CapturesAre ==
  /\ "pending" \in {Null, "pending", "captured", "unavailable"}
  /\ "captured" \in {Null, "pending", "captured", "unavailable"}
  /\ "unavailable" \in {Null, "pending", "captured", "unavailable"}
OBVIOUS

CaptureOf(rec, capture) == [rec EXCEPT !.identity_capture = capture]

LEMMA CaptureIsOK ==
  ASSUME NEW stamp \in Nat, NEW j, NEW rec, RecordOK(rec, j, stamp),
         NEW capture \in {Null, "pending", "captured", "unavailable"}
  PROVE  LET new == CaptureOf(rec, capture)
         IN  /\ RecordOK(new, j, stamp) /\ Follows(rec, new)
             /\ new.identity_capture = capture
<1> DEFINE new == CaptureOf(rec, capture)
<1>1. rec \in JobRecord BY DEF RecordOK
<1>2. new \in JobRecord BY <1>1 DEF JobRecord, CaptureOf
<1>3. /\ new.state = rec.state /\ new.ended_at = rec.ended_at
      /\ new.last_updated_at = rec.last_updated_at
      /\ new.exit_code = rec.exit_code /\ new.signal = rec.signal /\ new.diagnostic = rec.diagnostic
      /\ new.started_at = rec.started_at /\ new.seq = rec.seq /\ new.identity_capture = capture
  BY <1>1 DEF JobRecord, CaptureOf
<1> HIDE DEF new
<1>4. rec.last_updated_at <= rec.last_updated_at BY <1>1, RecordFields
<1>5. RecordOK(new, j, stamp) BY <1>2, <1>3 DEF RecordOK
<1>6. Follows(rec, new) BY <1>3, <1>4 DEF Follows
<1> QED BY <1>3, <1>5, <1>6 DEF new

LEMMA RunningIsOK ==
  ASSUME NEW stamp \in Nat, NEW j, NEW rec, RecordOK(rec, j, stamp), rec.state = "starting"
  PROVE  LET new == [rec EXCEPT !.state = "running"]
         IN  /\ RecordOK(new, j, stamp) /\ Follows(rec, new)
             /\ new.identity_capture = rec.identity_capture
<1> DEFINE new == [rec EXCEPT !.state = "running"]
<1>1. rec \in JobRecord BY DEF RecordOK
<1>2. new \in JobRecord BY <1>1 DEF JobRecord
<1>3. /\ new.state = "running" /\ new.ended_at = rec.ended_at
      /\ new.last_updated_at = rec.last_updated_at
      /\ new.exit_code = rec.exit_code /\ new.signal = rec.signal /\ new.diagnostic = rec.diagnostic
      /\ new.started_at = rec.started_at /\ new.seq = rec.seq
      /\ new.identity_capture = rec.identity_capture
  BY <1>1 DEF JobRecord
<1> HIDE DEF new
<1>4. rec.last_updated_at <= rec.last_updated_at BY <1>1, RecordFields
<1>5. ~isTerminalJobState(rec.state) /\ ~isTerminalJobState(new.state)
  BY <1>3 DEF isTerminalJobState
<1>6. RecordOK(new, j, stamp) BY <1>2, <1>3, <1>5 DEF RecordOK
<1>7. Follows(rec, new) BY <1>3, <1>4, <1>5 DEF Follows
<1> QED BY <1>3, <1>6, <1>7 DEF new

LEMMA TouchIsOK ==
  ASSUME NEW stamp \in Nat, NEW j, NEW rec, RecordOK(rec, j, stamp)
  PROVE  LET new == [rec EXCEPT !.last_updated_at = stamp]
         IN  /\ RecordOK(new, j, stamp) /\ Follows(rec, new)
             /\ new.identity_capture = rec.identity_capture
<1> DEFINE new == [rec EXCEPT !.last_updated_at = stamp]
<1>1. rec \in JobRecord BY DEF RecordOK
<1>2. new \in JobRecord BY <1>1 DEF JobRecord
<1>3. /\ new.state = rec.state /\ new.ended_at = rec.ended_at /\ new.last_updated_at = stamp
      /\ new.exit_code = rec.exit_code /\ new.signal = rec.signal /\ new.diagnostic = rec.diagnostic
      /\ new.started_at = rec.started_at /\ new.seq = rec.seq
      /\ new.identity_capture = rec.identity_capture
  BY <1>1 DEF JobRecord
<1> HIDE DEF new
<1>4. rec.last_updated_at <= stamp /\ rec.ended_at <= stamp /\ stamp <= stamp
  BY <1>1, RecordFields DEF RecordOK
<1>5. RecordOK(new, j, stamp) BY <1>2, <1>3, <1>4 DEF RecordOK
<1>6. Follows(rec, new) BY <1>3, <1>4 DEF Follows
<1> QED BY <1>3, <1>5, <1>6 DEF new

LEMMA SignalIsOK ==
  ASSUME NEW stamp \in Nat, NEW j, NEW rec, RecordOK(rec, j, stamp), rec.state = "killed"
  PROVE  LET new == [rec EXCEPT !.signal = "SIGKILL"]
         IN  /\ RecordOK(new, j, stamp) /\ Follows(rec, new)
             /\ new.identity_capture = rec.identity_capture
<1> DEFINE new == [rec EXCEPT !.signal = "SIGKILL"]
<1>1. rec \in JobRecord BY DEF RecordOK
<1>2. new \in JobRecord BY <1>1 DEF JobRecord
<1>3. /\ new.state = rec.state /\ new.ended_at = rec.ended_at
      /\ new.last_updated_at = rec.last_updated_at
      /\ new.exit_code = rec.exit_code /\ new.signal = "SIGKILL" /\ new.diagnostic = rec.diagnostic
      /\ new.started_at = rec.started_at /\ new.seq = rec.seq
      /\ new.identity_capture = rec.identity_capture
  BY <1>1 DEF JobRecord
<1> HIDE DEF new
<1>4. rec.last_updated_at <= rec.last_updated_at /\ "SIGKILL" # Null BY <1>1, RecordFields DEF Null
<1>5. RecordOK(new, j, stamp) BY <1>2, <1>3, <1>4 DEF RecordOK
<1>6. Follows(rec, new) BY <1>3, <1>4 DEF Follows
<1> QED BY <1>3, <1>5, <1>6 DEF new

-----------------------------------------------------------------------------
(* The steps, by what they do to the records.                               *)

(* No record goes, and each follows from what it was.                       *)
Onward ==
  /\ clock <= clock'
  /\ \A k \in DOMAIN jobs :
       k \in DOMAIN jobs' /\ Follows(jobs[k], jobs'[k]) /\ chunks[k] <= chunks'[k]
  /\ \A k \in 1 .. created : k \notin DOMAIN jobs => k \notin DOMAIN jobs'

LEMMA JobsStandStill ==
  ASSUME CountersOK, RecordsOK, NEW k \in DOMAIN jobs
  PROVE  Follows(jobs[k], jobs[k]) /\ chunks[k] <= chunks[k] /\ chunks[k] \in 0 .. MaxChunks
<1>1. k \in Ids /\ RecordOK(jobs[k], k, clock) BY JobsAreIds
<1>2. jobs[k].last_updated_at \in Nat BY <1>1, RecordFields DEF RecordOK
<1>3. chunks[k] \in Nat /\ chunks[k] \in 0 .. MaxChunks BY <1>1, Bounds DEF CountersOK
<1>4. jobs[k].last_updated_at <= jobs[k].last_updated_at /\ chunks[k] <= chunks[k] BY <1>2, <1>3
<1> QED BY <1>3, <1>4 DEF Follows

LEMMA ClockKeeps ==
  ASSUME CountersOK, RecordsOK, jobs' = jobs, created' = created, chunks' = chunks, child' = child,
         clock' \in 0 .. MaxTime, clock <= clock'
  PROVE  CountersOK' /\ RecordsOK' /\ Onward
<1>1. CountersOK' BY DEF CountersOK
<1>2. ASSUME NEW j \in DOMAIN jobs PROVE RecordOK(jobs[j], j, clock')
  <2>1. RecordOK(jobs[j], j, clock) /\ clock \in Nat BY JobsAreIds
  <2>2. /\ jobs[j].started_at \in Nat /\ jobs[j].last_updated_at \in Nat
    BY <2>1, RecordFields DEF RecordOK
  <2>3. jobs[j].started_at <= clock' /\ jobs[j].last_updated_at <= clock'
    <3>1. clock' \in Nat BY Bounds
    <3> QED BY <2>1, <2>2, <3>1 DEF RecordOK
  <2> QED BY <2>1, <2>3 DEF RecordOK
<1>3. RecordsOK' BY <1>2 DEF RecordsOK
<1>4. Onward BY JobsStandStill DEF Onward
<1> QED BY <1>1, <1>3, <1>4

LEMMA UpdateKeeps ==
  ASSUME CountersOK, RecordsOK, NEW j \in DOMAIN jobs, NEW rec,
         NEW c \in {"no", "untold", "told"}, NEW n \in 0 .. MaxChunks,
         RecordOK(rec, j, clock), IdentityOK(rec, c), Follows(jobs[j], rec), chunks[j] <= n,
         jobs' = [jobs EXCEPT ![j] = rec], child' = [child EXCEPT ![j] = c],
         chunks' = [chunks EXCEPT ![j] = n], clock' = clock, created' = created
  PROVE  CountersOK' /\ RecordsOK' /\ Onward /\ DOMAIN jobs' = DOMAIN jobs
<1>1. j \in Ids /\ j \in Nat /\ j <= created /\ created \in Nat BY JobsAreIds
<1>2. CountersOK' BY <1>1 DEF CountersOK
<1>3. DOMAIN jobs' = DOMAIN jobs OBVIOUS
<1>4. jobs'[j] = rec /\ \A k \in DOMAIN jobs : k # j => jobs'[k] = jobs[k] OBVIOUS
<1>5. /\ child'[j] = c /\ chunks'[j] = n
      /\ \A k \in Ids : k # j => child'[k] = child[k] /\ chunks'[k] = chunks[k]
  BY <1>1 DEF CountersOK
<1>6. ASSUME NEW k \in DOMAIN jobs
      PROVE  /\ RecordOK(jobs'[k], k, clock) /\ IdentityOK(jobs'[k], child'[k])
             /\ Follows(jobs[k], jobs'[k]) /\ chunks[k] <= chunks'[k]
  <2>1. CASE k = j BY <1>4, <1>5, <2>1
  <2>2. CASE k # j
    <3>1. k \in Ids /\ RecordOK(jobs[k], k, clock) /\ IdentityOK(jobs[k], child[k])
      BY JobsAreIds
    <3> QED BY <1>4, <1>5, <2>2, <3>1, JobsStandStill
  <2> QED BY <2>1, <2>2
<1>7. \A k \in DOMAIN jobs : jobs'[k].started_at = jobs[k].started_at BY <1>6 DEF Follows
<1>8. \A k \in Ids : k > created => child'[k] = "no"
  <2>1. ~(j > created) BY <1>1
  <2> QED BY <1>5, <2>1 DEF RecordsOK
<1>9. jobs' = [k \in DOMAIN jobs' |-> jobs'[k]] OBVIOUS
<1>10. RecordsOK' BY <1>3, <1>6, <1>7, <1>8, <1>9 DEF RecordsOK
<1>11. clock <= clock' BY Bounds DEF CountersOK
<1>12. Onward BY <1>3, <1>6, <1>11 DEF Onward
<1> QED BY <1>2, <1>3, <1>10, <1>12

LEMMA AddKeeps ==
  ASSUME CountersOK, RecordsOK, NEW rec, RecordOK(rec, created + 1, clock),
         rec.identity_capture = Null, rec.started_at = clock, Adds(rec)
  PROVE  CountersOK' /\ RecordsOK' /\ Onward /\ DOMAIN jobs \subseteq DOMAIN jobs'
<1> DEFINE j == created + 1
<1>1. /\ created < MaxJobs /\ created' = created + 1 /\ jobs' = With(j, rec)
      /\ clock' = clock /\ chunks' = chunks /\ child' = child
  BY DEF Adds
<1>2. created \in Nat /\ clock \in Nat /\ MaxJobs \in Nat /\ j \in Ids /\ j > created
  BY <1>1, Bounds DEF CountersOK, Ids
<1>3. CountersOK' BY <1>1, <1>2 DEF CountersOK
<1>4. \A k \in DOMAIN jobs : k \in 1 .. created /\ k # j BY <1>2 DEF RecordsOK
<1> HIDE DEF j
<1>5. /\ DOMAIN jobs' = DOMAIN jobs \cup {j} /\ jobs'[j] = rec
      /\ \A k \in DOMAIN jobs : jobs'[k] = jobs[k]
      /\ jobs' = [k \in DOMAIN jobs' |-> jobs'[k]]
  BY <1>1, <1>4 DEF With
<1>6. DOMAIN jobs' \subseteq 1 .. created' BY <1>1, <1>2, <1>4, <1>5 DEF j
<1>7. ASSUME NEW k \in DOMAIN jobs' PROVE RecordOK(jobs'[k], k, clock) /\ IdentityOK(jobs'[k], child[k])
  <2>1. CASE k = j
    <3>1. child[j] = "no" BY <1>2 DEF RecordsOK
    <3>2. IdentityOK(rec, "no") BY DEF IdentityOK, Null
    <3> QED BY <1>5, <2>1, <3>1, <3>2 DEF j
  <2>2. CASE k \in DOMAIN jobs BY <1>5, <2>2, JobsAreIds
  <2> QED BY <1>5, <2>1, <2>2
<1>8. ASSUME NEW i \in DOMAIN jobs', NEW k \in DOMAIN jobs', i < k
      PROVE  jobs'[i].started_at <= jobs'[k].started_at
  <2>1. CASE i \in DOMAIN jobs /\ k \in DOMAIN jobs BY <1>5, <1>8, <2>1 DEF RecordsOK
  <2>2. CASE i \in DOMAIN jobs /\ k = j
    <3>1. jobs[i].started_at <= clock BY <2>2, JobsAreIds DEF RecordOK
    <3> QED BY <1>5, <2>2, <3>1
  <2>3. CASE i = j
    <3>1. k \in 1 .. created + 1 /\ i = created + 1 BY <1>1, <1>6, <2>3 DEF j
    <3> QED BY <1>2, <1>8, <3>1
  <2> QED BY <1>5, <2>1, <2>2, <2>3
<1>9. \A k \in Ids : k > created' => child'[k] = "no"
  <2>1. \A k \in Ids : k > created + 1 => k > created BY <1>2 DEF Ids
  <2> QED BY <1>1, <2>1 DEF RecordsOK
<1>10. RecordsOK' BY <1>1, <1>5, <1>6, <1>7, <1>8, <1>9 DEF RecordsOK
<1>11. clock <= clock' /\ \A k \in 1 .. created : k \notin DOMAIN jobs => k \notin DOMAIN jobs'
  <2>1. \A k \in 1 .. created : k # j BY <1>2 DEF j
  <2> QED BY <1>1, <1>2, <1>5, <2>1
<1>12. Onward
  <2>1. \A k \in DOMAIN jobs : Follows(jobs[k], jobs'[k]) /\ chunks[k] <= chunks'[k]
    BY <1>1, <1>5, JobsStandStill
  <2> QED BY <1>5, <1>11, <2>1 DEF Onward
<1> QED BY <1>3, <1>5, <1>10, <1>12

LEMMA DeleteKeeps ==
  ASSUME CountersOK, RecordsOK, NEW j \in DOMAIN jobs, DeleteJob(j)
  PROVE  /\ CountersOK' /\ RecordsOK'
         /\ DOMAIN jobs' = DOMAIN jobs \ {j}
         /\ \A k \in DOMAIN jobs' : jobs'[k] = jobs[k] /\ chunks'[k] = chunks[k]
         /\ clock' = clock /\ created' = created
<1>1. /\ jobs' = [k \in DOMAIN jobs \ {j} |-> jobs[k]] /\ clock' = clock /\ created' = created
      /\ chunks' = [chunks EXCEPT ![j] = 0] /\ child' = [child EXCEPT ![j] = "no"]
  BY DEF DeleteJob
<1>2. CountersOK'
  <2>1. 0 \in 0 .. MaxChunks BY Bounds
  <2>2. chunks' \in [Ids -> 0 .. MaxChunks] BY <1>1, <2>1 DEF CountersOK
  <2>3. child' \in [Ids -> {"no", "untold", "told"}] BY <1>1 DEF CountersOK
  <2> QED BY <1>1, <2>2, <2>3 DEF CountersOK
<1>3. /\ DOMAIN jobs' = DOMAIN jobs \ {j} /\ \A k \in DOMAIN jobs' : jobs'[k] = jobs[k]
      /\ jobs' = [k \in DOMAIN jobs' |-> jobs'[k]]
  BY <1>1
<1>4. ASSUME NEW k \in DOMAIN jobs' PROVE child'[k] = child[k] /\ chunks'[k] = chunks[k]
  <2>1. k \in Ids /\ k # j BY <1>3, JobsAreIds
  <2> QED BY <1>1, <2>1 DEF CountersOK
<1>5. \A k \in Ids : k > created => child'[k] = "no" BY <1>1 DEF RecordsOK, CountersOK
<1>6. RecordsOK' BY <1>1, <1>3, <1>4, <1>5 DEF RecordsOK
<1> QED BY <1>1, <1>2, <1>3, <1>4, <1>6

-----------------------------------------------------------------------------
(* The answers on a task.                                                   *)

(* An answer that is final is the record's, and the record is not expired.  *)
LEMMA FinalAnswers ==
  ASSUME NEW j, getTask(j).status \in {"completed", "failed", "cancelled"},
         j \in DOMAIN jobs => jobs[j] \in JobRecord
  PROVE  /\ j \in DOMAIN jobs /\ Ended(j) /\ ~isExpiredTerminalRecord(j)
         /\ getTask(j) = buildDetailedTaskResult(j)
<1>1. j \in DOMAIN jobs /\ ~isExpiredTerminalRecord(j) BY DEF getTask
<1>2. getTask(j) = buildDetailedTaskResult(j) BY <1>1 DEF getTask
<1>3. Ended(j)
  <2>1. jobs[j].state \in {"starting", "running", "exited", "killed", "failed"} BY <1>1 DEF JobRecord
  <2>2. CASE jobs[j].state \in {"starting", "running"}
    <3>1. getTask(j).status = "working"
      BY <1>2, <2>2 DEF buildDetailedTaskResult, mapJobStateToTaskStatus
    <3> QED BY <3>1
  <2> QED BY <2>1, <2>2 DEF Ended, isTerminalJobState
<1> QED BY <1>1, <1>2, <1>3

(* As long as the record goes on, its final answer does, but for its time   *)
(* to live.                                                                 *)
LEMMA AnswersGoOn ==
  ASSUME CountersOK, RecordsOK, CountersOK', RecordsOK', Onward, NEW j \in 1 .. created
  PROVE  AnswerStays(j)
<1>1. j \notin DOMAIN jobs => j \notin DOMAIN jobs' BY DEF Onward
<1>2. j \in DOMAIN jobs => jobs[j] \in JobRecord BY JobsAreIds DEF RecordOK
<1>3. ASSUME getTask(j).status \in {"completed", "failed", "cancelled"}
      PROVE  \/ Keeps(getTask(j), getTask(j)')
             \/ getTask(j)'.status = "not found" /\ clock' - jobs[j].ended_at >= TASK_TTL_MS
  <2>1. /\ j \in DOMAIN jobs /\ Ended(j) /\ ~isExpiredTerminalRecord(j)
        /\ getTask(j) = buildDetailedTaskResult(j)
    BY <1>2, <1>3, FinalAnswers
  <2>2. j \in DOMAIN jobs' /\ Follows(jobs[j], jobs'[j]) /\ chunks[j] <= chunks'[j]
    BY <2>1 DEF Onward
  <2>3. /\ jobs'[j].state = jobs[j].state /\ jobs'[j].ended_at = jobs[j].ended_at
        /\ jobs'[j].exit_code = jobs[j].exit_code /\ jobs'[j].started_at = jobs[j].started_at
        /\ jobs[j].last_updated_at <= jobs'[j].last_updated_at
    BY <2>1, <2>2 DEF Follows, Ended
  <2>4. CASE isExpiredTerminalRecord(j)'
    <3>1. getTask(j)'.status = "not found" BY <2>2, <2>4 DEF getTask
    <3>2. clock' - jobs[j].ended_at >= TASK_TTL_MS BY <2>3, <2>4 DEF isExpiredTerminalRecord
    <3> QED BY <3>1, <3>2
  <2>5. CASE ~isExpiredTerminalRecord(j)'
    <3>1. getTask(j)' = buildDetailedTaskResult(j)' BY <2>2, <2>5 DEF getTask
    <3> DEFINE status == mapJobStateToTaskStatus(jobs[j].state)
               old == buildDetailedTaskResult(j)
               new == buildDetailedTaskResult(j)'
    <3>2. /\ old.status = status /\ old.createdAt = jobs[j].started_at
          /\ old.lastUpdatedAt = jobs[j].last_updated_at /\ old.ttlMs = ttlMsFor(status)
          /\ old.result = IF status \in {"completed", "failed"}
                          THEN {[exitCode |-> jobs[j].exit_code, output |-> chunks[j]]} ELSE {}
      BY DEF buildDetailedTaskResult, buildGhantikaResultExtras
    <3>3. /\ new.status = status /\ new.createdAt = jobs[j].started_at
          /\ new.lastUpdatedAt = jobs'[j].last_updated_at /\ new.ttlMs = ttlMsFor(status)
          /\ new.result = IF status \in {"completed", "failed"}
                          THEN {[exitCode |-> jobs[j].exit_code, output |-> chunks'[j]]} ELSE {}
      BY <2>3 DEF buildDetailedTaskResult, buildGhantikaResultExtras
    <3> HIDE DEF status, old, new
    <3>4. \A f \in {"status", "createdAt", "ttlMs"} : old[f] = new[f]
      <4>1. old["status"] = new["status"] BY <3>2, <3>3
      <4>2. old["createdAt"] = new["createdAt"] BY <3>2, <3>3
      <4>3. old["ttlMs"] = new["ttlMs"] BY <3>2, <3>3
      <4> QED BY <4>1, <4>2, <4>3
    <3>5. \A r \in old.result : \E s \in new.result : r.exitCode = s.exitCode /\ r.output <= s.output
      <4>1. CASE status \in {"completed", "failed"}
        <5> DEFINE r == [exitCode |-> jobs[j].exit_code, output |-> chunks[j]]
                   s == [exitCode |-> jobs[j].exit_code, output |-> chunks'[j]]
        <5>1. old.result = {r} /\ new.result = {s} BY <3>2, <3>3, <4>1
        <5>2. r.exitCode = s.exitCode /\ r.output <= s.output BY <2>2
        <5> HIDE DEF r, s
        <5> QED BY <5>1, <5>2
      <4>2. CASE status \notin {"completed", "failed"} BY <3>2, <4>2
      <4> QED BY <4>1, <4>2
    <3>6. Keeps(old, new) BY <2>3, <3>2, <3>3, <3>4, <3>5 DEF Keeps
    <3> QED BY <2>1, <3>1, <3>6 DEF old, new
  <2> QED BY <2>4, <2>5
<1> QED BY <1>1, <1>3 DEF AnswerStays

(* A job whose record is deleted had expired; the others answer as before.  *)
LEMMA AnswersOutliveDeletion ==
  ASSUME CountersOK, RecordsOK, NEW j \in DOMAIN jobs, DeleteJob(j), NEW k \in 1 .. created
  PROVE  AnswerStays(k)
<1>1. /\ DOMAIN jobs' = DOMAIN jobs \ {j} /\ clock' = clock
      /\ \A i \in DOMAIN jobs' : jobs'[i] = jobs[i] /\ chunks'[i] = chunks[i]
  BY DeleteKeeps
<1>2. isExpiredTerminalRecord(j) BY DEF DeleteJob
<1>3. k \in DOMAIN jobs => jobs[k] \in JobRecord BY JobsAreIds DEF RecordOK
<1>4. ASSUME getTask(k).status \in {"completed", "failed", "cancelled"}
      PROVE  Keeps(getTask(k), getTask(k)')
  <2>1. /\ k \in DOMAIN jobs /\ ~isExpiredTerminalRecord(k)
        /\ getTask(k) = buildDetailedTaskResult(k)
    BY <1>3, <1>4, FinalAnswers
  <2>2. k # j BY <1>2, <2>1
  <2>3. k \in DOMAIN jobs' /\ jobs'[k] = jobs[k] /\ chunks'[k] = chunks[k] BY <1>1, <2>1, <2>2
  <2>4. ~isExpiredTerminalRecord(k)'
    <3>1. k \in strandedSlots' <=> k \in strandedSlots BY <2>2 DEF DeleteJob
    <3> QED BY <1>1, <2>1, <2>3, <3>1 DEF isExpiredTerminalRecord, Ended
  <2>5. getTask(k)' = buildDetailedTaskResult(k)' BY <2>3, <2>4 DEF getTask
  <2>6. buildDetailedTaskResult(k)' = buildDetailedTaskResult(k)
    BY <2>3 DEF buildDetailedTaskResult, buildGhantikaResultExtras
  <2> DEFINE old == buildDetailedTaskResult(k)
  <2>7. old.lastUpdatedAt = jobs[k].last_updated_at BY DEF buildDetailedTaskResult
  <2>8. jobs[k].last_updated_at <= jobs[k].last_updated_at BY <1>3, <2>1, RecordFields
  <2>9. \A r \in old.result : r.exitCode = r.exitCode /\ r.output <= r.output
    <3>1. chunks[k] <= chunks[k] BY <2>1, JobsStandStill
    <3>2. \A r \in old.result : r = [exitCode |-> jobs[k].exit_code, output |-> chunks[k]]
      BY DEF buildDetailedTaskResult, buildGhantikaResultExtras
    <3> QED BY <3>1, <3>2
  <2> HIDE DEF old
  <2>10. Keeps(old, old) BY <2>7, <2>8, <2>9 DEF Keeps
  <2> QED BY <2>1, <2>5, <2>6, <2>10 DEF old
<1>5. k \notin DOMAIN jobs => k \notin DOMAIN jobs' BY <1>1
<1> QED BY <1>4, <1>5 DEF AnswerStays

-----------------------------------------------------------------------------
(* The steps.                                                               *)

(* What every step does: it keeps the invariant, takes output only by age,  *)
(* and leaves every final answer.                                           *)
Kept == RecordsInv' /\ TakesTheOldest /\ \A k \in 1 .. created : AnswerStays(k)

(* A step that reclaims nothing.                                            *)
LEMMA NothingTaken ==
  ASSUME retentionEvicted' \subseteq retentionEvicted, created' = created
  PROVE  TakesTheOldest
<1>1. retentionEvicted' \ retentionEvicted = {} OBVIOUS
<1> QED BY <1>1 DEF TakesTheOldest

LEMMA QuietKeeps ==
  ASSUME RecordsInv, CountersOK', RecordsOK', Onward, DOMAIN jobs \subseteq DOMAIN jobs',
         created' = created, NoSweep, UNCHANGED <<childrenExited, reapPending, strandedSlots>>
  PROVE  Kept
<1>1. ReclaimOK' BY DEF RecordsInv, ReclaimOK, NoSweep
<1>2. TakesTheOldest BY NothingTaken DEF NoSweep
<1>3. \A k \in 1 .. created : AnswerStays(k) BY AnswersGoOn DEF RecordsInv
<1> QED BY <1>1, <1>2, <1>3 DEF Kept, RecordsInv

(* A sweep takes what a decision takes.                                     *)
LEMMA SweepKeeps ==
  ASSUME RecordsInv, CountersOK', RecordsOK', Onward, DOMAIN jobs \subseteq DOMAIN jobs',
         SweepRetention, UNCHANGED <<childrenExited, reapPending, strandedSlots>>
  PROVE  Kept
<1>1. PICK rank \in Injection(Ids, Ids) :
        /\ retentionEvicted' = retentionEvicted \cup decideRetentionEvictions(rank)
        /\ unguarded' = unguarded \cup (decideRetentionEvictions(rank) \ childrenExited)
  BY DEF SweepRetention
<1> DEFINE evicted == decideRetentionEvictions(rank)
<1>2. /\ evicted \subseteq Reclaimable
      /\ \A k \in Reclaimable \ evicted : ~Overdue(k)
      /\ Cardinality(Reclaimable \ evicted) <= MAX_RETAINED_JOBS
      /\ \A j \in evicted, k \in Reclaimable \ evicted :
           Overdue(j) \/ jobs[j].ended_at <= jobs[k].ended_at
  BY DecisionIsByAge DEF RecordsInv
<1> HIDE DEF evicted
<1>3. /\ retentionEvicted' = retentionEvicted \cup evicted
      /\ unguarded' = unguarded \cup (evicted \ childrenExited)
  BY <1>1 DEF evicted
<1>4. /\ evicted \subseteq DOMAIN jobs
      /\ evicted \cap (strandedSlots \cup reapPending \cup retentionEvicted) = {}
  BY <1>2 DEF Reclaimable
<1>5. ReclaimOK' BY <1>3, <1>4 DEF RecordsInv, ReclaimOK
<1>6. retentionEvicted' \ retentionEvicted = evicted BY <1>3, <1>4
<1>7. TakesTheOldest BY <1>2, <1>6 DEF TakesTheOldest
<1>8. \A k \in 1 .. created : AnswerStays(k) BY AnswersGoOn DEF RecordsInv
<1> QED BY <1>5, <1>7, <1>8 DEF Kept, RecordsInv

(* A step that writes one record and no more.                               *)
LEMMA WriteKeeps ==
  ASSUME RecordsInv, NEW j \in DOMAIN jobs, NEW rec,
         NEW c \in {"no", "untold", "told"}, NEW n \in 0 .. MaxChunks,
         RecordOK(rec, j, clock), IdentityOK(rec, c), Follows(jobs[j], rec), chunks[j] <= n,
         jobs' = [jobs EXCEPT ![j] = rec], child' = [child EXCEPT ![j] = c],
         chunks' = [chunks EXCEPT ![j] = n],
         UNCHANGED <<clock, created, childrenExited, reapPending, strandedSlots>>, NoSweep
  PROVE  Kept
<1>1. CountersOK /\ RecordsOK /\ clock' = clock /\ created' = created BY DEF RecordsInv
<1>2. CountersOK' /\ RecordsOK' /\ Onward /\ DOMAIN jobs' = DOMAIN jobs BY <1>1, UpdateKeeps
<1> QED BY <1>1, <1>2, QuietKeeps

(* A write that leaves the child and its output as they are.                *)
LEMMA MarkKeeps ==
  ASSUME RecordsInv, NEW j \in DOMAIN jobs, NEW rec,
         RecordOK(rec, j, clock), Follows(jobs[j], rec),
         rec.identity_capture = jobs[j].identity_capture,
         jobs' = [jobs EXCEPT ![j] = rec],
         UNCHANGED <<clock, created, chunks, child, childrenExited, reapPending, strandedSlots>>,
         NoSweep
  PROVE  Kept
<1>1. CountersOK /\ RecordsOK BY DEF RecordsInv
<1>2. j \in Ids /\ IdentityOK(jobs[j], child[j]) BY <1>1, JobsAreIds
<1>3. chunks[j] <= chunks[j] /\ chunks[j] \in 0 .. MaxChunks BY <1>1, JobsStandStill
<1>4. child[j] \in {"no", "untold", "told"} BY <1>1, <1>2 DEF CountersOK
<1>5. child' = [child EXCEPT ![j] = child[j]] /\ chunks' = [chunks EXCEPT ![j] = chunks[j]]
  BY <1>1, <1>2 DEF CountersOK
<1>6. IdentityOK(rec, child[j]) BY <1>2 DEF IdentityOK
<1> QED BY <1>3, <1>4, <1>5, <1>6, WriteKeeps

(* A step that writes no record.                                            *)
LEMMA StillKeeps ==
  ASSUME RecordsInv, UNCHANGED <<clock, jobs, created, chunks, child>>,
         ReclaimOK', retentionEvicted' = retentionEvicted
  PROVE  Kept
<1>1. CountersOK /\ RecordsOK /\ clock <= clock' /\ clock' \in 0 .. MaxTime
  BY Bounds DEF RecordsInv, CountersOK
<1>2. CountersOK' /\ RecordsOK' /\ Onward BY <1>1, ClockKeeps
<1>3. \A k \in 1 .. created : AnswerStays(k) BY <1>1, <1>2, AnswersGoOn
<1>4. TakesTheOldest BY NothingTaken
<1> QED BY <1>2, <1>3, <1>4 DEF Kept, RecordsInv

(* The terminal marks, first or not.                                        *)
LEMMA MarkedKeeps ==
  ASSUME RecordsInv, NEW j \in DOMAIN jobs,
         NEW state, NEW code, NEW signal, NEW reason, MarkOK(state, code, signal, reason),
         jobs' = Marked(j, state, code, signal, reason),
         UNCHANGED <<clock, created, chunks, child, childrenExited, reapPending, strandedSlots>>,
         NoSweep
  PROVE  Kept
<1>1. CountersOK /\ RecordsOK /\ ReclaimOK BY DEF RecordsInv
<1>2. RecordOK(jobs[j], j, clock) /\ clock \in Nat BY <1>1, JobsAreIds
<1>3. CASE Ended(j)
  <2>1. jobs' = jobs BY <1>3 DEF Marked
  <2>2. ReclaimOK' BY <1>1, <2>1 DEF ReclaimOK, NoSweep
  <2> QED BY <2>1, <2>2, StillKeeps DEF NoSweep
<1>4. CASE ~Ended(j)
  <2> DEFINE new == MarkOf(jobs[j], clock, state, code, signal, reason)
  <2>1. jobs' = [jobs EXCEPT ![j] = new] BY <1>4 DEF Marked, MarkOf
  <2>2. ~isTerminalJobState(jobs[j].state) BY <1>4 DEF Ended
  <2>3. /\ RecordOK(new, j, clock) /\ Follows(jobs[j], new)
        /\ new.identity_capture = jobs[j].identity_capture
    BY <1>2, <2>2, MarkIsOK
  <2> HIDE DEF new
  <2> QED BY <2>1, <2>3, MarkKeeps
<1> QED BY <1>3, <1>4

LEMMA CreationKeeps ==
  ASSUME RecordsInv, CreateJob \/ CreateFailedJob
  PROVE  Kept
<1>1. CountersOK /\ RecordsOK BY DEF RecordsInv
<1>2. created \in Nat /\ clock \in Nat BY <1>1, Bounds DEF CountersOK
<1>3. PICK rec : /\ Adds(rec) /\ RecordOK(rec, created + 1, clock)
                 /\ rec.identity_capture = Null /\ rec.started_at = clock
  <2> DEFINE starting == Fresh("starting", -1, Null)
             failed   == Fresh("failed", clock, "a reason")
  <2>1. starting \in JobRecord /\ failed \in JobRecord BY <1>2 DEF Fresh, JobRecord, Null
  <2>2. /\ starting.state = "starting" /\ starting.ended_at = -1
        /\ starting.started_at = clock /\ starting.last_updated_at = clock
        /\ starting.seq = created + 1 /\ starting.exit_code = Null /\ starting.signal = Null
        /\ starting.diagnostic = Null /\ starting.identity_capture = Null
    BY DEF Fresh
  <2>3. /\ failed.state = "failed" /\ failed.ended_at = clock
        /\ failed.started_at = clock /\ failed.last_updated_at = clock
        /\ failed.seq = created + 1 /\ failed.exit_code = Null /\ failed.signal = Null
        /\ failed.diagnostic = "a reason" /\ failed.identity_capture = Null
    BY DEF Fresh
  <2>4. Adds(starting) \/ Adds(failed) BY DEF CreateJob, CreateFailedJob
  <2> HIDE DEF starting, failed
  <2>5. clock <= clock /\ -1 <= clock /\ clock # -1 BY <1>2, TimesAreNumbers
  <2>6. RecordOK(starting, created + 1, clock)
    <3>1. ~isTerminalJobState(starting.state) BY <2>2 DEF isTerminalJobState
    <3> QED BY <2>1, <2>2, <2>5, <3>1 DEF RecordOK
  <2>7. RecordOK(failed, created + 1, clock)
    <3>1. isTerminalJobState(failed.state) /\ "a reason" # Null
      BY <2>3 DEF isTerminalJobState, Null
    <3> QED BY <2>1, <2>3, <2>5, <3>1 DEF RecordOK
  <2> QED BY <2>2, <2>3, <2>4, <2>6, <2>7
<1>4. CountersOK' /\ RecordsOK' /\ Onward /\ DOMAIN jobs \subseteq DOMAIN jobs'
  BY <1>1, <1>3, AddKeeps
<1> QED BY <1>3, <1>4, SweepKeeps DEF Adds

LEMMA ChildStepKeeps ==
  ASSUME RecordsInv, NEW j \in DOMAIN jobs,
         \/ SpawnChild(j) \/ OnSpawn(j) \/ OnError(j) \/ KilledInQueue(j)
         \/ \E b \in BOOLEAN : CaptureSettles(j, b) \/ AppendOutput(j, b)
  PROVE  Kept
<1>1. CountersOK /\ RecordsOK /\ ReclaimOK BY DEF RecordsInv
<1>2. /\ j \in Ids /\ clock \in Nat /\ RecordOK(jobs[j], j, clock)
      /\ IdentityOK(jobs[j], child[j])
  BY <1>1, JobsAreIds
<1>3. chunks[j] <= chunks[j] /\ chunks[j] \in 0 .. MaxChunks BY <1>1, JobsStandStill
<1>4. child[j] \in {"no", "untold", "told"} BY <1>1, <1>2 DEF CountersOK
<1>5. child = [child EXCEPT ![j] = child[j]] /\ chunks = [chunks EXCEPT ![j] = chunks[j]]
  BY <1>1, <1>2 DEF CountersOK
<1>6. CASE SpawnChild(j)
  <2> DEFINE rec == CaptureOf(jobs[j], "pending")
  <2>1. /\ jobs' = [jobs EXCEPT ![j] = rec] /\ child' = [child EXCEPT ![j] = "untold"]
        /\ chunks' = [chunks EXCEPT ![j] = chunks[j]]
        /\ UNCHANGED <<clock, created, childrenExited, reapPending, strandedSlots>> /\ NoSweep
    BY <1>5, <1>6 DEF SpawnChild, CaptureOf
  <2>2. /\ RecordOK(rec, j, clock) /\ Follows(jobs[j], rec)
        /\ rec.identity_capture = "pending"
    BY <1>2, CapturesAre, CaptureIsOK
  <2> HIDE DEF rec
  <2>3. IdentityOK(rec, "untold") BY <2>2 DEF IdentityOK
  <2>4. "untold" \in {"no", "untold", "told"} OBVIOUS
  <2> QED BY <1>3, <2>1, <2>2, <2>3, <2>4, WriteKeeps
<1>7. CASE OnSpawn(j)
  <2> DEFINE rec == [jobs[j] EXCEPT !.state = "running"]
  <2>1. /\ jobs' = [jobs EXCEPT ![j] = rec] /\ jobs[j].state = "starting"
        /\ UNCHANGED <<clock, created, chunks, child, childrenExited, reapPending, strandedSlots>>
        /\ NoSweep
    BY <1>7 DEF OnSpawn
  <2>2. /\ RecordOK(rec, j, clock) /\ Follows(jobs[j], rec)
        /\ rec.identity_capture = jobs[j].identity_capture
    BY <1>2, <2>1, RunningIsOK
  <2> HIDE DEF rec
  <2> QED BY <2>1, <2>2, MarkKeeps
<1>8. CASE OnError(j)
  <2>1. /\ jobs' = Marked(j, "failed", Null, Null, "a reason")
        /\ UNCHANGED <<clock, created, chunks, child, childrenExited, reapPending, strandedSlots>>
        /\ NoSweep
    BY <1>8 DEF OnError
  <2>2. MarkOK("failed", Null, Null, "a reason") BY DEF MarkOK, Null
  <2> QED BY <2>1, <2>2, MarkedKeeps
<1>9. ASSUME NEW b \in BOOLEAN, CaptureSettles(j, b) PROVE Kept
  <2>1. /\ jobs[j].identity_capture = "pending"
        /\ chunks' = [chunks EXCEPT ![j] = chunks[j]]
        /\ UNCHANGED <<clock, created, childrenExited, reapPending, strandedSlots>> /\ NoSweep
    BY <1>5, <1>9 DEF CaptureSettles
  <2>2. child[j] = "untold" BY <1>2, <1>4, <2>1 DEF IdentityOK, Null
  <2>3. CASE b
    <3> DEFINE rec == CaptureOf(jobs[j], "captured")
    <3>1. jobs' = [jobs EXCEPT ![j] = rec] /\ child' = [child EXCEPT ![j] = "told"]
      BY <1>9, <2>3 DEF CaptureSettles, CaptureOf
    <3>2. /\ RecordOK(rec, j, clock) /\ Follows(jobs[j], rec)
          /\ rec.identity_capture = "captured"
      BY <1>2, CapturesAre, CaptureIsOK
    <3> HIDE DEF rec
    <3>3. IdentityOK(rec, "told") /\ "told" \in {"no", "untold", "told"}
      BY <3>2 DEF IdentityOK
    <3> QED BY <1>3, <2>1, <3>1, <3>2, <3>3, WriteKeeps
  <2>4. CASE ~b
    <3> DEFINE rec == CaptureOf(jobs[j], "unavailable")
    <3>1. jobs' = [jobs EXCEPT ![j] = rec] /\ child' = [child EXCEPT ![j] = child[j]]
      BY <1>9, <2>4 DEF CaptureSettles, CaptureOf
    <3>2. /\ RecordOK(rec, j, clock) /\ Follows(jobs[j], rec)
          /\ rec.identity_capture = "unavailable"
      BY <1>2, CapturesAre, CaptureIsOK
    <3> HIDE DEF rec
    <3>3. IdentityOK(rec, child[j]) BY <2>2, <3>2 DEF IdentityOK
    <3> QED BY <1>3, <1>4, <2>1, <3>1, <3>2, <3>3, WriteKeeps
  <2> QED BY <2>3, <2>4
<1>10. ASSUME NEW b \in BOOLEAN, AppendOutput(j, b) PROVE Kept
  <2> DEFINE n == chunks[j] + 1
             rec == [jobs[j] EXCEPT !.last_updated_at = clock]
  <2>1. /\ chunks[j] < MaxChunks /\ chunks' = [chunks EXCEPT ![j] = n]
        /\ child' = [child EXCEPT ![j] = child[j]]
        /\ UNCHANGED <<clock, created, childrenExited, reapPending, strandedSlots>> /\ NoSweep
        /\ jobs' = [jobs EXCEPT ![j] = rec] \/ jobs' = jobs
    BY <1>5, <1>10 DEF AppendOutput
  <2>2. n \in 0 .. MaxChunks /\ chunks[j] <= n BY <1>3, <2>1, Bounds
  <2>3. /\ RecordOK(rec, j, clock) /\ Follows(jobs[j], rec)
        /\ rec.identity_capture = jobs[j].identity_capture
    BY <1>2, TouchIsOK
  <2> HIDE DEF n, rec
  <2>4. IdentityOK(rec, child[j]) BY <1>2, <2>3 DEF IdentityOK
  <2>5. CASE jobs' = [jobs EXCEPT ![j] = rec] BY <1>4, <2>1, <2>2, <2>3, <2>4, <2>5, WriteKeeps
  <2>6. CASE jobs' = jobs
    <3>1. jobs' = [jobs EXCEPT ![j] = jobs[j]] BY <1>1, <2>6 DEF RecordsOK
    <3>2. Follows(jobs[j], jobs[j]) BY <1>1, JobsStandStill
    <3> QED BY <1>2, <1>4, <2>1, <2>2, <3>1, <3>2, WriteKeeps
  <2> QED BY <2>1, <2>5, <2>6
<1>11. CASE KilledInQueue(j)
  <2>1. /\ jobs' = Marked(j, "killed", Null, "queue-cancelled", Null)
        /\ UNCHANGED <<clock, created, chunks, child, childrenExited, reapPending, strandedSlots>>
        /\ NoSweep
    BY <1>11 DEF KilledInQueue
  <2>2. MarkOK("killed", Null, "queue-cancelled", Null) BY DEF MarkOK, Null
  <2> QED BY <2>1, <2>2, MarkedKeeps
<1> QED BY <1>6, <1>7, <1>8, <1>9, <1>10, <1>11

LEMMA MarkStepKeeps ==
  ASSUME RecordsInv, NEW j \in DOMAIN jobs, KillSignaled(j) \/ UpdateKillSignal(j) \/ GateFires(j)
  PROVE  Kept
<1>1. CountersOK /\ RecordsOK BY DEF RecordsInv
<1>2. clock \in Nat /\ RecordOK(jobs[j], j, clock) BY <1>1, JobsAreIds
<1>3. /\ MarkOK("killed", Null, "SIGTERM", Null) /\ MarkOK("failed", Null, Null, "a reason")
      /\ MarkOK("exited", "a code", Null, Null)
  BY DEF MarkOK, Null
<1>4. CASE KillSignaled(j) \/ GateFires(j)
  <2>1. /\ UNCHANGED <<clock, created, chunks, child, childrenExited, reapPending, strandedSlots>>
        /\ NoSweep
        /\ \/ jobs' = Marked(j, "killed", Null, "SIGTERM", Null)
           \/ jobs' = Marked(j, "failed", Null, Null, "a reason")
           \/ jobs' = Marked(j, "exited", "a code", Null, Null)
    BY <1>4 DEF KillSignaled, Signaled, GateFires
  <2>2. CASE jobs' = Marked(j, "killed", Null, "SIGTERM", Null) BY <1>3, <2>1, <2>2, MarkedKeeps
  <2>3. CASE jobs' = Marked(j, "failed", Null, Null, "a reason") BY <1>3, <2>1, <2>3, MarkedKeeps
  <2>4. CASE jobs' = Marked(j, "exited", "a code", Null, Null) BY <1>3, <2>1, <2>4, MarkedKeeps
  <2> QED BY <2>1, <2>2, <2>3, <2>4
<1>5. CASE UpdateKillSignal(j)
  <2> DEFINE rec == [jobs[j] EXCEPT !.signal = "SIGKILL"]
  <2>1. /\ jobs' = [jobs EXCEPT ![j] = rec] /\ jobs[j].state = "killed"
        /\ UNCHANGED <<clock, created, chunks, child, childrenExited, reapPending, strandedSlots>>
        /\ NoSweep
    BY <1>5 DEF UpdateKillSignal
  <2>2. /\ RecordOK(rec, j, clock) /\ Follows(jobs[j], rec)
        /\ rec.identity_capture = jobs[j].identity_capture
    BY <1>2, <2>1, SignalIsOK
  <2> HIDE DEF rec
  <2> QED BY <2>1, <2>2, MarkKeeps
<1> QED BY <1>4, <1>5

(* The exit, the reap's outcome and a later release write no record.  What  *)
(* was reclaimed before the exit is unguarded already.                      *)
LEMMA SlotStepKeeps ==
  ASSUME RecordsInv, NEW j \in DOMAIN jobs,
         OnChildExit(j) \/ Released(j) \/ \E b \in BOOLEAN : ReapDecides(j, b)
  PROVE  Kept
<1>1. j \in Ids /\ ReclaimOK BY JobsAreIds DEF RecordsInv
<1>2. UNCHANGED <<clock, jobs, created, chunks, child>> /\ NoSweep
  BY DEF OnChildExit, Released, ReapDecides
<1>3. CASE OnChildExit(j)
  <2>1. /\ j \notin childrenExited /\ childrenExited' = childrenExited \cup {j}
        /\ reapPending' = reapPending \cup {j} /\ strandedSlots' = strandedSlots
    BY <1>3 DEF OnChildExit
  <2>2. j \in retentionEvicted => j \in unguarded BY <1>1, <2>1 DEF ReclaimOK
  <2>3. ReclaimOK' BY <1>1, <1>2, <2>1, <2>2 DEF ReclaimOK, NoSweep
  <2> QED BY <1>2, <2>3, StillKeeps DEF NoSweep
<1>4. CASE Released(j)
  <2>1. ReclaimOK' BY <1>1, <1>2, <1>4 DEF Released, ReclaimOK, NoSweep
  <2> QED BY <1>2, <2>1, StillKeeps DEF NoSweep
<1>5. ASSUME NEW b \in BOOLEAN, ReapDecides(j, b) PROVE Kept
  <2>1. /\ j \in reapPending /\ reapPending' = reapPending \ {j}
        /\ childrenExited' = childrenExited
        /\ strandedSlots' = strandedSlots \/ strandedSlots' = strandedSlots \cup {j}
    BY <1>5 DEF ReapDecides
  <2>2. ReclaimOK' BY <1>1, <1>2, <2>1 DEF ReclaimOK, NoSweep
  <2> QED BY <1>2, <2>2, StillKeeps DEF NoSweep
<1> QED BY <1>3, <1>4, <1>5

LEMMA DeletionKeeps ==
  ASSUME RecordsInv, NEW j \in DOMAIN jobs, DeleteJob(j)
  PROVE  Kept
<1>1. CountersOK /\ RecordsOK /\ ReclaimOK BY DEF RecordsInv
<1>2. CountersOK' /\ RecordsOK' /\ DOMAIN jobs' = DOMAIN jobs \ {j} /\ created' = created
  BY <1>1, DeleteKeeps
<1>3. /\ reapPending' = reapPending \ {j} /\ strandedSlots' = strandedSlots \ {j}
      /\ retentionEvicted' = retentionEvicted \ {j} /\ unguarded' = unguarded \ {j}
      /\ childrenExited' = childrenExited
  BY DEF DeleteJob
<1>4. ReclaimOK' BY <1>1, <1>2, <1>3 DEF ReclaimOK
<1>5. \A k \in 1 .. created : AnswerStays(k) BY <1>1, AnswersOutliveDeletion
<1>6. TakesTheOldest BY <1>2, <1>3, NothingTaken
<1> QED BY <1>2, <1>4, <1>5, <1>6 DEF Kept, RecordsInv

LEMMA StepKeeps ==
  ASSUME RecordsInv, [JobsNext]_jobsVars
  PROVE  Kept
<1>1. CountersOK /\ RecordsOK /\ ReclaimOK BY DEF RecordsInv
<1>2. CASE CreateJob \/ CreateFailedJob BY <1>2, CreationKeeps
<1>3. CASE RetentionTimer
  <2>1. /\ SweepRetention
        /\ UNCHANGED <<clock, jobs, created, chunks, child, childrenExited, reapPending, strandedSlots>>
    BY <1>3 DEF RetentionTimer
  <2>2. clock <= clock /\ clock \in 0 .. MaxTime BY <1>1, Bounds DEF CountersOK
  <2>3. CountersOK' /\ RecordsOK' /\ Onward BY <1>1, <2>1, <2>2, ClockKeeps
  <2> QED BY <2>1, <2>3, SweepKeeps
<1>4. CASE ClockTicks
  <2>1. clock < MaxTime /\ clock' = clock + 1 /\ UNCHANGED recVars BY <1>4 DEF ClockTicks
  <2>2. clock <= clock' /\ clock' \in 0 .. MaxTime BY <1>1, <2>1, Bounds DEF CountersOK
  <2>3. /\ UNCHANGED <<jobs, created, chunks, child>>
        /\ UNCHANGED <<childrenExited, reapPending, strandedSlots>> /\ NoSweep
    BY <2>1 DEF recVars, NoSweep
  <2>4. CountersOK' /\ RecordsOK' /\ Onward BY <1>1, <2>2, <2>3, ClockKeeps
  <2> QED BY <2>3, <2>4, QuietKeeps
<1>5. ASSUME NEW j \in DOMAIN jobs, JobStep(j) PROVE Kept
  <2>1. CASE \/ SpawnChild(j) \/ OnSpawn(j) \/ OnError(j) \/ KilledInQueue(j)
             \/ \E b \in BOOLEAN : CaptureSettles(j, b) \/ AppendOutput(j, b)
    BY <2>1, ChildStepKeeps
  <2>2. CASE KillSignaled(j) \/ UpdateKillSignal(j) \/ GateFires(j) BY <2>2, MarkStepKeeps
  <2>3. CASE OnChildExit(j) \/ Released(j) \/ \E b \in BOOLEAN : ReapDecides(j, b)
    BY <2>3, SlotStepKeeps
  <2>4. CASE DeleteJob(j) BY <2>4, DeletionKeeps
  <2> QED BY <1>5, <2>1, <2>2, <2>3, <2>4 DEF JobStep
<1>6. CASE UNCHANGED jobsVars
  <2>1. UNCHANGED recVars /\ clock' = clock BY <1>6 DEF jobsVars
  <2>2. /\ UNCHANGED <<jobs, created, chunks, child>>
        /\ UNCHANGED <<childrenExited, reapPending, strandedSlots>> /\ NoSweep
    BY <2>1 DEF recVars, NoSweep
  <2>3. clock <= clock' /\ clock' \in 0 .. MaxTime BY <1>1, <2>1, Bounds DEF CountersOK
  <2>4. CountersOK' /\ RecordsOK' /\ Onward BY <1>1, <2>2, <2>3, ClockKeeps
  <2> QED BY <2>2, <2>4, QuietKeeps
<1> QED BY <1>2, <1>3, <1>4, <1>5, <1>6 DEF JobsNext

-----------------------------------------------------------------------------
(* The theorems.                                                            *)

(* The records' invariant holds in every state: the marks of a record go    *)
(* with its state, its times are in order, and what is reclaimed of a job   *)
(* in trouble was reclaimed while its leader lived.                         *)
THEOREM RecordsInvariance == JobsSpec => []RecordsInv
<1>1. JobsInit => RecordsInv
  <2> SUFFICES ASSUME JobsInit PROVE RecordsInv OBVIOUS
  <2> USE DEF JobsInit
  <2>1. DOMAIN jobs = {} /\ jobs = [j \in DOMAIN jobs |-> jobs[j]] OBVIOUS
  <2>2. CountersOK
    <3>1. clock \in 0 .. MaxTime /\ created \in 0 .. MaxJobs /\ 0 \in 0 .. MaxChunks BY Bounds
    <3> QED BY <3>1 DEF CountersOK
  <2>3. RecordsOK BY <2>1 DEF RecordsOK
  <2>4. ReclaimOK BY DEF ReclaimOK
  <2> QED BY <2>2, <2>3, <2>4 DEF RecordsInv
<1>2. RecordsInv /\ [JobsNext]_jobsVars => RecordsInv' BY StepKeeps DEF Kept
<1> QED BY <1>1, <1>2, PTL DEF JobsSpec

(* Records and counters are well typed, the output of a job in trouble is   *)
(* kept, and the views of a record agree, for any number of jobs.           *)
THEOREM RecordsStayKept == JobsSpec => []RecordsAreKept
<1>1. RecordsInv => RecordsAreKept
  <2> SUFFICES ASSUME RecordsInv PROVE RecordsAreKept OBVIOUS
  <2>1. CountersOK /\ RecordsOK /\ ReclaimOK BY DEF RecordsInv
  <2>2. JobsTypeOK
    <3>1. \A j \in DOMAIN jobs : jobs[j] \in JobRecord /\ jobs[j].seq = j
      BY <2>1, JobsAreIds DEF RecordOK
    <3> QED BY <2>1, <3>1 DEF JobsTypeOK, CountersOK, RecordsOK, ReclaimOK
  <2>3. TroubleKeepsItsOutput BY <2>1 DEF ReclaimOK, TroubleKeepsItsOutput
  <2>4. ASSUME NEW j \in DOMAIN jobs
        PROVE  LET status == buildStatusProjection(j)
                   s == status.public
                   t == mapJobStateToTaskStatus(s.state)
               IN  /\ (ttlMsFor(t) = -1) <=> s.ended_at = -1
                   /\ s.exit_code # Null => t = "completed"
                   /\ s.diagnostic # Null <=> t = "failed"
                   /\ s.signal # Null <=> t = "cancelled"
                   /\ status.birth_identity = "captured" <=> jobs[j].identity_capture = "captured"
                   /\ s.ended_at <= jobs[j].last_updated_at
    <3> DEFINE status == buildStatusProjection(j)
               s == status.public
               t == mapJobStateToTaskStatus(s.state)
    <3>1. /\ j \in Ids /\ RecordOK(jobs[j], j, clock) /\ IdentityOK(jobs[j], child[j])
      BY <2>1, JobsAreIds
    <3>2. /\ s.state = jobs[j].state /\ s.ended_at = jobs[j].ended_at
          /\ s.exit_code = jobs[j].exit_code /\ s.signal = jobs[j].signal
          /\ s.diagnostic = jobs[j].diagnostic
          /\ status.birth_identity = birthIdentityProjection(j)
      BY DEF buildStatusProjection, toPublicProjection
    <3>3. /\ jobs[j].state \in {"starting", "running"} => t = "working"
          /\ jobs[j].state = "exited" => t = "completed"
          /\ jobs[j].state = "failed" => t = "failed"
          /\ jobs[j].state = "killed" => t = "cancelled"
      BY <3>2 DEF mapJobStateToTaskStatus
    <3>4. jobs[j].state \in {"starting", "running", "exited", "killed", "failed"}
      BY <3>1 DEF RecordOK, JobRecord
    <3>5. child[j] \in {"no", "untold", "told"} BY <2>1, <3>1 DEF CountersOK
    <3>6. birthIdentityProjection(j) = "captured" <=> jobs[j].identity_capture = "captured"
      BY <3>1, <3>5 DEF birthIdentityProjection, IdentityOK, Null
    <3> HIDE DEF status, s, t
    <3>7. TASK_TTL_MS # -1 BY Bounds
    <3>8. (ttlMsFor(t) = -1) <=> s.ended_at = -1
      BY <3>1, <3>2, <3>3, <3>4, <3>7 DEF ttlMsFor, RecordOK, isTerminalJobState
    <3>9. s.exit_code # Null => t = "completed" BY <3>1, <3>2, <3>3 DEF RecordOK
    <3>10. s.diagnostic # Null <=> t = "failed" BY <3>1, <3>2, <3>3, <3>4 DEF RecordOK
    <3>11. s.signal # Null <=> t = "cancelled" BY <3>1, <3>2, <3>3, <3>4 DEF RecordOK
    <3>12. s.ended_at <= jobs[j].last_updated_at BY <3>1, <3>2 DEF RecordOK
    <3>13. status.birth_identity = "captured" <=> jobs[j].identity_capture = "captured"
      BY <3>2, <3>6
    <3> QED BY <3>8, <3>9, <3>10, <3>11, <3>12, <3>13 DEF status, s, t
  <2>5. ASSUME NEW i \in DOMAIN jobs, NEW j \in DOMAIN jobs
        PROVE  compareMostRecentFirst(i, j) <=> i > j
    <3>1. /\ i \in Nat /\ j \in Nat /\ jobs[i].seq = i /\ jobs[j].seq = j
          /\ jobs[i].started_at \in Nat /\ jobs[j].started_at \in Nat
      BY <2>1, JobsAreIds, RecordFields DEF RecordOK
    <3>2. CASE i < j
      <4>1. jobs[i].started_at <= jobs[j].started_at BY <2>1, <3>2 DEF RecordsOK
      <4> QED BY <3>1, <3>2, <4>1 DEF compareMostRecentFirst
    <3>3. CASE j < i
      <4>1. jobs[j].started_at <= jobs[i].started_at BY <2>1, <3>3 DEF RecordsOK
      <4> QED BY <3>1, <3>3, <4>1 DEF compareMostRecentFirst
    <3>4. CASE i = j BY <3>1, <3>4 DEF compareMostRecentFirst
    <3> QED BY <3>1, <3>2, <3>3, <3>4
  <2>6. ViewsAgree BY <2>4, <2>5 DEF ViewsAgree
  <2> QED BY <2>2, <2>3, <2>6 DEF RecordsAreKept
<1> QED BY <1>1, RecordsInvariance, PTL

(* A sweep takes the output of the jobs that ended first or are overdue,    *)
(* and leaves no more than the limit; and a task's final answer stays until *)
(* its time to live has passed, and never comes back.                       *)
THEOREM AnswersOutlive == JobsSpec => AnswersOutliveRecords
<1>1. RecordsInv /\ [JobsNext]_jobsVars => [TakesTheOldest]_jobsVars BY StepKeeps DEF Kept
<1>2. RecordsInv /\ [JobsNext]_jobsVars => [\A j \in 1 .. created : AnswerStays(j)]_jobsVars
  BY StepKeeps DEF Kept
<1> QED BY <1>1, <1>2, RecordsInvariance, PTL
    DEF JobsSpec, AnswersOutliveRecords, ReclaimsTheOldest, FinalAnswersStay

-----------------------------------------------------------------------------
(* The observers: what holds while one is asked.                            *)

(* What happened while the observer was asked was seen by the history.      *)
WhatWasThere ==
  /\ held \subseteq Pids \X Nat
  /\ \A p \in Pids : IF Lives(p) THEN <<p, life[p]>> \in held ELSE p \in absent
  /\ Present(Pids) = {} => bare

ObsTypes ==
  /\ op \in {"batch", "confirm", "gate", "atOnce", "text"}
  /\ phase \in {"top", "reading", "asleep", "over"}
  /\ life \in [Pids -> Nat] /\ now \in Nat /\ retryUntil \in Nat /\ remaining \subseteq Pids
  /\ op = "text" => text \in Texts

(* The bounds that are still to come are within the allowance.              *)
Allowance == IF op = "confirm" THEN ConfirmTimeout + PgrepTimeout + SettleGrace
             ELSE ReadTimeout + SettleGrace

CallsAreBounded ==
  /\ phase \in {"reading", "asleep"} =>
       call.until \in Nat /\ now <= call.until /\ call.until <= Allowance
  /\ phase = "asleep" => op \in {"batch", "confirm"}
  /\ op = "confirm" => /\ phase = "top" => now <= ConfirmTimeout
                       /\ phase = "asleep" => call.until <= ConfirmTimeout
  /\ phase = "top" => op \in {"batch", "confirm"} \/ now = 0

WasThere(row) == \E h \in held : h[1] = row.pid /\ StartedAt(h[2]) = row.start

BatchKnows ==
  op = "batch" =>
    /\ foundRows = listed /\ \A row \in listed : WasThere(row)
    /\ phase = "reading" => call.asked = remaining

(* A reply is of a moment of the call.                                      *)
PsIsTrue(reply) ==
  \/ reply.kind \in {"error", "killed", "exit1"}
  \/ /\ reply.kind = "output"
     /\ \A line \in reply.lines : \E h \in held :
          h[1] \in call.asked
            /\ line \in {RowOf(h[1], StartedAt(h[2])), Garbled(RowOf(h[1], StartedAt(h[2])))}

PgrepIsTrue(reply) ==
  \/ reply.kind \in {"error", "killed"}
  \/ reply.kind = "exit1" /\ bare
  \/ reply.kind = "output" /\ reply.lines # {}

ProcIsTrue(reply) ==
  \E p \in Pids :
    /\ call.asked = {p}
    /\ \/ reply.kind = "killed"
       \/ reply.kind = "error" /\ (reply.code = "ENOENT" => p \in absent)
       \/ /\ reply.kind = "output"
          /\ \E h \in held : h[1] = p /\ reply.raw = StatOf(<<Char("n")>>, h[2])

RepliesAreTrue ==
  phase = "reading" =>
    /\ op \in {"batch", "confirm", "gate"}
    /\ call = [asked |-> call.asked, reply |-> call.reply, ownTimeout |-> call.ownTimeout,
               until |-> call.until]
    /\ op = "gate" => \E p \in Pids : call.asked = {p}
    /\ call.reply = None
         \/ CASE op = "batch"   -> PsIsTrue(call.reply)
              [] op = "confirm" -> PgrepIsTrue(call.reply)
              [] op = "gate"    -> ProcIsTrue(call.reply)

ObsInv ==
  /\ ObsTypes /\ WhatWasThere /\ CallsAreBounded /\ BatchKnows /\ RepliesAreTrue
  /\ ObservationsHold

-----------------------------------------------------------------------------
(* The calendar.  A day is one of an era of 400 years, of a year of it      *)
(* counted from March, and of a month of that year, and of one only.        *)

(* Years are counted from March here, in eras of 400 years.                 *)
LeapsAfter(yoe) == (yoe + 1) % 4 = 0 /\ ((yoe + 1) % 100 # 0 \/ yoe = 399)

IsDayOfEra(yoe, doy) == yoe \in 0 .. 399 /\ doy \in 0 .. 365 /\ (doy = 365 => LeapsAfter(yoe))

DayOfEra(yoe, doy) == 365 * yoe + yoe \div 4 - yoe \div 100 + doy

DaysOfEra == 146097
Epoch     == 719468

(* What the leap rules count before a year is split at its era.             *)
LEMMA YearSplit ==
  ASSUME NEW y \in Int
  PROVE  /\ y \div 4 = 100 * (y \div 400) + ((y % 400) \div 4)
         /\ y \div 100 = 4 * (y \div 400) + ((y % 400) \div 100)
         /\ y = 400 * (y \div 400) + (y % 400) /\ y % 400 \in 0 .. 399 /\ y \div 400 \in Int
BY SMT

(* A year of an era is of a century, of four years of it, and one of these. *)
LEMMA YearParts ==
  ASSUME NEW yoe \in 0 .. 399
  PROVE  \E c \in 0 .. 3, q \in 0 .. 24, r \in 0 .. 3 :
           /\ yoe = 100 * c + 4 * q + r /\ yoe \div 4 = 25 * c + q /\ yoe \div 100 = c
<1> DEFINE c == yoe \div 100
           q == (yoe \div 4) - 25 * c
           r == yoe - 4 * (yoe \div 4)
<1>1. c \in 0 .. 3 BY SMT
<1>2. q \in 0 .. 24 BY SMT
<1>3. r \in 0 .. 3 BY SMT
<1>4. yoe = 100 * c + 4 * q + r BY SMT
<1>5. yoe \div 4 = 25 * c + q BY SMT
<1> QED BY <1>1, <1>2, <1>3, <1>4, <1>5, Zenon

(* getUTCFullYear finds the year a day of an era was counted from.          *)
LEMMA YearFound ==
  ASSUME NEW yoe, NEW doy, IsDayOfEra(yoe, doy)
  PROVE  /\ DayOfEra(yoe, doy) \in Nat /\ DayOfEra(yoe, doy) < DaysOfEra
         /\ YearOfEra(DayOfEra(yoe, doy)) = yoe
<1>1. yoe \in 0 .. 399 /\ doy \in 0 .. 365 BY DEF IsDayOfEra
<1>2. PICK c \in 0 .. 3, q \in 0 .. 24, r \in 0 .. 3 :
           /\ yoe = 100 * c + 4 * q + r /\ yoe \div 4 = 25 * c + q /\ yoe \div 100 = c
  BY <1>1, YearParts
<1>3. DayOfEra(yoe, doy) = 36524 * c + 1461 * q + 365 * r + doy BY <1>1, <1>2, SMT DEF DayOfEra
<1>4. CASE doy # 365
  <2>1. doy \in Nat /\ doy < 365 BY <1>1, <1>4, SMT
  <2>2. YearOfEra(DayOfEra(yoe, doy)) = 100 * c + 4 * q + r BY <1>2, <1>3, <2>1, SMT DEF YearOfEra
  <2>3. DayOfEra(yoe, doy) \in Nat /\ DayOfEra(yoe, doy) < 146097 BY <1>2, <1>3, <2>1, SMT
  <2> QED BY <1>2, <2>2, <2>3, SMT DEF DaysOfEra
<1>5. CASE doy = 365
  <2>1. LeapsAfter(yoe) BY <1>5 DEF IsDayOfEra
  <2>2. (100 * c + 4 * q + r + 1) % 4 = 0 BY <1>2, <2>1, SMT DEF LeapsAfter
  <2>3. r = 3 BY <1>2, <2>2, SMT
  <2>4. q = 24 => (yoe + 1) % 100 = 0 BY <1>2, <2>3, SMT
  <2>5. q = 24 => c = 3 BY <1>2, <2>1, <2>3, <2>4, SMT DEF LeapsAfter
  <2>6. YearOfEra(DayOfEra(yoe, doy)) = 100 * c + 4 * q + 3
    BY <1>2, <1>3, <1>5, <2>3, <2>5, SMT DEF YearOfEra
  <2>7. DayOfEra(yoe, doy) \in Nat /\ DayOfEra(yoe, doy) < 146097 BY <1>2, <1>3, <1>5, SMT
  <2> QED BY <1>2, <2>3, <2>6, <2>7, SMT DEF DaysOfEra
<1> QED BY <1>4, <1>5, SMT DEF DaysOfEra

(* Every day of an era is a day of one of its years.                        *)
LEMMA EveryDayIsOne ==
  ASSUME NEW doe \in Nat, doe < DaysOfEra
  PROVE  \E yoe, doy : IsDayOfEra(yoe, doy) /\ DayOfEra(yoe, doy) = doe
<1> DEFINE c == IF doe < 36524 THEN 0 ELSE IF doe < 73048 THEN 1 ELSE IF doe < 109572 THEN 2 ELSE 3
           rest == doe - 36524 * c
<1>1. c \in 0 .. 3 /\ rest \in Nat /\ rest <= 36524 /\ (rest = 36524 => c = 3) /\ doe = 36524 * c + rest BY SMT DEF DaysOfEra
<1> HIDE DEF c, rest
<1> DEFINE q == rest \div 1461
           left == rest - 1461 * q
<1>2. q \in 0 .. 24 /\ left \in Nat /\ left <= 1460 /\ rest = 1461 * q + left BY <1>1, SMT
<1> HIDE DEF q, left
<1>3. q = 24 /\ left = 1460 => c = 3 BY <1>1, <1>2, SMT
<1> DEFINE r == IF left = 1460 THEN 3 ELSE left \div 365
           doy == left - 365 * r
<1>4. r \in 0 .. 3 /\ doy \in 0 .. 365 /\ (doy = 365 <=> left = 1460) /\ left = 365 * r + doy
      /\ (left = 1460 => r = 3)
  BY <1>2, SMT
<1> HIDE DEF r, doy
<1> DEFINE yoe == 100 * c + 4 * q + r
<1>5. yoe \in 0 .. 399 BY <1>1, <1>2, <1>4, SMT
<1>6. yoe \div 4 = 25 * c + q /\ yoe \div 100 = c BY <1>1, <1>2, <1>4, SMT
<1>7. doe = 365 * yoe + (25 * c + q) - c + doy BY <1>1, <1>2, <1>4, SMT
<1>8. doy = 365 => LeapsAfter(yoe)
  <2> SUFFICES ASSUME doy = 365 PROVE LeapsAfter(yoe) BY SMT
  <2>1. left = 1460 /\ r = 3 BY <1>4, SMT
  <2>2. yoe + 1 = 100 * c + 4 * q + 4 BY <1>1, <1>2, <2>1, SMT
  <2>3. (yoe + 1) % 4 = 0 BY <2>2, <1>1, <1>2, SMT
  <2>4. CASE q # 24
    <3>1. (100 * c + 4 * q + 4) % 100 # 0 BY <2>4, <1>1, <1>2, SMT
    <3> QED BY <2>2, <2>3, <3>1, SMT DEF LeapsAfter
  <2>5. CASE q = 24
    <3>1. yoe = 399 BY <1>3, <2>1, <2>5, SMT
    <3> QED BY <2>3, <3>1, SMT DEF LeapsAfter
  <2> QED BY <2>4, <2>5, SMT
<1> HIDE DEF yoe
<1>9. DayOfEra(yoe, doy) = doe BY <1>6, <1>7, SMT DEF DayOfEra
<1> QED BY <1>4, <1>5, <1>8, <1>9, SMT DEF IsDayOfEra

(* Months are counted from March too.                                       *)
MonthStart(mp) == (153 * mp + 2) \div 5

(* The month is found from the day of the year.                             *)
LEMMA MonthFound ==
  ASSUME NEW mp \in 0 .. 11, NEW d \in 1 .. 31, d - 1 < MonthStart(mp + 1) - MonthStart(mp)
  PROVE  (5 * (MonthStart(mp) + d - 1) + 2) \div 153 = mp
BY SMT DEF MonthStart

(* Every day of a year is one of a month.                                   *)
LEMMA EveryDayHasAMonth ==
  ASSUME NEW doy \in 0 .. 365
  PROVE  \E mp \in 0 .. 11, d \in 1 .. 31 :
           doy = MonthStart(mp) + d - 1 /\ d - 1 < MonthStart(mp + 1) - MonthStart(mp)
<1>1. PICK mp \in 0 .. 11 : MonthStart(mp) <= doy /\ doy < MonthStart(mp + 1) BY SMT DEF MonthStart
<1>2. MonthStart(mp) \in Nat /\ MonthStart(mp + 1) \in Nat /\ MonthStart(mp + 1) - MonthStart(mp) <= 31
  BY SMT DEF MonthStart
<1> DEFINE d == doy - MonthStart(mp) + 1
<1>3. d \in 1 .. 31 /\ doy = MonthStart(mp) + d - 1 /\ d - 1 < MonthStart(mp + 1) - MonthStart(mp)
  BY <1>1, <1>2, SMT
<1> QED BY <1>1, <1>3, SMT

MarchYear(year, month) == IF month < 2 THEN year - 1 ELSE year
MarchMonth(month) == (month + 10) % 12

(* Date.UTC counts the days of the eras, then those of the last one.        *)
LEMMA DayIs ==
  ASSUME NEW year \in Int, NEW month \in 0 .. 11, NEW d \in Int, NEW y, y = MarchYear(year, month)
  PROVE  DayOf(year, month, 1) + d - 1 + Epoch
           = DaysOfEra * (y \div 400) + DayOfEra(y % 400, MonthStart(MarchMonth(month)) + d - 1)
<1>1. y \in Int BY SMT DEF MarchYear
<1>2. /\ y \div 4 = 100 * (y \div 400) + ((y % 400) \div 4)
      /\ y \div 100 = 4 * (y \div 400) + ((y % 400) \div 100)
      /\ y = 400 * (y \div 400) + (y % 400) /\ y % 400 \in 0 .. 399 /\ y \div 400 \in Int
  BY <1>1, SMT
<1> DEFINE m == MonthStart(MarchMonth(month))
<1>3. m \in Int /\ MarchMonth(month) \in 0 .. 11 BY SMT DEF MonthStart, MarchMonth
<1>4. DayOf(year, month, 1) = 365 * y + y \div 4 - y \div 100 + y \div 400 + m - 719468
  BY <1>1, SMT DEF DayOf, MarchYear, MarchMonth, MonthStart
<1> HIDE DEF m
<1>5. DayOfEra(y % 400, m + d - 1)
        = 365 * (y % 400) + ((y % 400) \div 4) - ((y % 400) \div 100) + (m + d - 1)
  BY DEF DayOfEra
<1> DEFINE e == y \div 400
           o == y % 400
           a == o \div 4
           b == o \div 100
<1>6. e \in Int /\ o \in Int /\ a \in Int /\ b \in Int BY <1>2, SMT
<1>7. DayOf(year, month, 1) = 365 * (400 * e + o) + (100 * e + a) - (4 * e + b) + e + m - 719468
  BY <1>2, <1>4
<1>8. DayOfEra(y % 400, m + d - 1) = 365 * o + a - b + (m + d - 1) BY <1>5
<1> HIDE DEF e, o, a, b
<1>9. DayOf(year, month, 1) + d - 1 + 719468 = 146097 * e + (365 * o + a - b + (m + d - 1))
  BY <1>3, <1>6, <1>7, SMT
<1> QED BY <1>8, <1>9, SMT DEF e, m, DaysOfEra, Epoch

Printed(yoe, e, mp, d, day, sec) ==
  [year |-> yoe + 400 * e + (IF (mp + 2) % 12 < 2 THEN 1 ELSE 0),
   month |-> (mp + 2) % 12, day |-> d,
   hours |-> sec \div 3600, minutes |-> (sec % 3600) \div 60,
   seconds |-> sec % 60, weekday |-> (day + 4) % 7]

IsMoment(yoe, doy, e, mp, d, day, sec) ==
  /\ day \in Int /\ sec \in Int /\ e \in Int /\ IsDayOfEra(yoe, doy)
  /\ mp \in 0 .. 11 /\ d \in 1 .. 31
  /\ doy = MonthStart(mp) + d - 1 /\ d - 1 < MonthStart(mp + 1) - MonthStart(mp)
  /\ day + Epoch = DaysOfEra * e + DayOfEra(yoe, doy)

(* The getters of Date, for a moment that is counted so.                    *)
LEMMA FieldsAre ==
  ASSUME NEW yoe, NEW doy, NEW e, NEW mp, NEW d, NEW day, NEW sec,
         IsMoment(yoe, doy, e, mp, d, day, sec)
  PROVE  Fields([day |-> day, sec |-> sec]) = Printed(yoe, e, mp, d, day, sec)
<1>0. /\ day \in Int /\ sec \in Int /\ e \in Int /\ IsDayOfEra(yoe, doy)
      /\ mp \in 0 .. 11 /\ d \in 1 .. 31
      /\ doy = MonthStart(mp) + d - 1 /\ d - 1 < MonthStart(mp + 1) - MonthStart(mp)
      /\ day + Epoch = DaysOfEra * e + DayOfEra(yoe, doy)
  BY DEF IsMoment
<1>1. yoe \in 0 .. 399 /\ doy \in 0 .. 365 BY <1>0 DEF IsDayOfEra
<1> DEFINE doe == (day + 719468) % 146097
<1>2. /\ DayOfEra(yoe, doy) \in Nat /\ DayOfEra(yoe, doy) < DaysOfEra
      /\ YearOfEra(DayOfEra(yoe, doy)) = yoe
  BY <1>0, YearFound
<1>3. doe = DayOfEra(yoe, doy) /\ (day + 719468) \div 146097 = e BY <1>0, <1>2, SMT DEF DaysOfEra, Epoch
<1>4. YearOfEra(doe) = yoe BY <1>2, <1>3
<1>5. DayOfYear(doe) = doy BY <1>0, <1>1, <1>3, <1>4, SMT DEF DayOfEra, DayOfYear
<1>6. MonthOfYear(doy) = mp BY <1>0, MonthFound DEF MonthOfYear
<1>7. doy - (153 * mp + 2) \div 5 + 1 = d BY <1>0, <1>1, SMT DEF MonthStart
<1> DEFINE at == [day |-> day, sec |-> sec]
<1>8. at.day = day /\ at.sec = sec BY SMT
<1> HIDE DEF at
<1> DEFINE era == (day + 719468) \div 146097
           f(y, n, o, p) == [year |-> y + 400 * n + (IF (p + 2) % 12 < 2 THEN 1 ELSE 0),
                    month |-> (p + 2) % 12, day |-> o - (153 * p + 2) \div 5 + 1,
                    hours |-> sec \div 3600, minutes |-> (sec % 3600) \div 60,
                    seconds |-> sec % 60, weekday |-> (day + 4) % 7]
<1>9. Fields(at) = f(YearOfEra(doe), era, DayOfYear(doe), MonthOfYear(DayOfYear(doe)))
  BY <1>8, SMT DEF Fields
<1>10. f(YearOfEra(doe), era, DayOfYear(doe), MonthOfYear(DayOfYear(doe))) = f(yoe, e, doy, mp)
  <2> HIDE DEF f, era, doe
  <2>1. YearOfEra(doe) = yoe BY <1>4
  <2>2. DayOfYear(doe) = doy BY <1>5
  <2>3. MonthOfYear(doy) = mp BY <1>6
  <2>4. era = e BY <1>3, SMT DEF era
  <2> QED BY <2>1, <2>2, <2>3, <2>4, SMT
<1>11. f(yoe, e, doy, mp) =
         [year |-> yoe + 400 * e + (IF (mp + 2) % 12 < 2 THEN 1 ELSE 0),
            month |-> (mp + 2) % 12, day |-> d,
            hours |-> sec \div 3600, minutes |-> (sec % 3600) \div 60,
            seconds |-> sec % 60, weekday |-> (day + 4) % 7]
  BY <1>7, SMT
<1> HIDE DEF f
<1> QED BY <1>9, <1>10, <1>11, SMT DEF at, Printed

(* The leap years of the calendar are those of the count.                   *)
LEMMA LeapYears ==
  ASSUME NEW y \in Int, NEW yoe, yoe = y % 400
  PROVE  Leap(y + 1) <=> LeapsAfter(yoe)
<1> DEFINE e == y \div 400
<1>1. e \in Int /\ yoe \in Nat /\ yoe < 400 /\ y = 400 * e + yoe BY SMT
<1> HIDE DEF e
<1>2. (y + 1) % 4 = (yoe + 1) % 4 BY <1>1, SMT
<1>3. (y + 1) % 100 = (yoe + 1) % 100 BY <1>1, SMT
<1>4. (y + 1) % 400 = 0 <=> yoe = 399 BY <1>1, SMT
<1>5. yoe = 399 => (yoe + 1) % 100 = 0 BY SMT
<1> HIDE DEF e
<1> QED BY <1>2, <1>3, <1>4, <1>5 DEF Leap, LeapsAfter

(* A day of the month is one exactly if it is one of the count.             *)
LEMMA DatesAreDays ==
  ASSUME NEW year \in Int, NEW month \in 0 .. 11, NEW d \in 1 .. 31,
         NEW y, y = MarchYear(year, month), NEW mp, mp = MarchMonth(month)
  PROVE  d \in 1 .. DaysIn(month, year)
           <=> /\ d - 1 < MonthStart(mp + 1) - MonthStart(mp)
               /\ IsDayOfEra(y % 400, MonthStart(mp) + d - 1)
<1>1. y \in Int /\ y % 400 \in 0 .. 399 /\ mp \in 0 .. 11 BY SMT DEF MarchYear, MarchMonth
<1>2. CASE month = 1
  <2>1. mp = 11 /\ MonthStart(mp) = 337 /\ MonthStart(mp + 1) = 367 /\ y + 1 = year
    BY <1>2, SMT DEF MarchYear, MarchMonth, MonthStart
  <2>2. Leap(year) <=> LeapsAfter(y % 400) BY <1>1, <2>1, LeapYears
  <2>3. DaysIn(month, year) = IF Leap(year) THEN 29 ELSE 28 BY <1>2 DEF DaysIn
  <2>4. IsDayOfEra(y % 400, 337 + d - 1) <=> d <= 29 /\ (d = 29 => LeapsAfter(y % 400))
    BY <1>1, SMT DEF IsDayOfEra
  <2> QED BY <2>1, <2>2, <2>3, <2>4, SMT
<1>3. CASE month # 1
  <2>1. mp \in 0 .. 10 /\ MonthStart(mp) \in 0 .. 306 BY <1>3, SMT DEF MarchMonth, MonthStart
  <2>2. d \in 1 .. DaysIn(month, year) <=> d - 1 < MonthStart(mp + 1) - MonthStart(mp)
    BY <1>3, SMT DEF MarchMonth, MonthStart, DaysIn
  <2>3. d - 1 < MonthStart(mp + 1) - MonthStart(mp) => IsDayOfEra(y % 400, MonthStart(mp) + d - 1)
    <3>1. MonthStart(mp) + d - 1 \in Nat /\ MonthStart(mp) + d - 1 < 337 BY <2>1, SMT
    <3> QED BY <1>1, <3>1, SMT DEF IsDayOfEra
  <2> QED BY <2>2, <2>3
<1> QED BY <1>2, <1>3

DateAt(year, month, d, day, sec) ==
  [year |-> year, month |-> month, day |-> d,
   hours |-> sec \div 3600, minutes |-> (sec % 3600) \div 60,
   seconds |-> sec % 60, weekday |-> (day + 4) % 7]

(* A date of the calendar is read back as it is.                            *)
LEMMA DateReadBack ==
  ASSUME NEW year \in Int, NEW month \in 0 .. 11, NEW d \in 1 .. DaysIn(month, year),
         NEW day, day = DayOf(year, month, 1) + d - 1, NEW sec \in Int
  PROVE  /\ day \in Int
         /\ Fields([day |-> day, sec |-> sec]) = DateAt(year, month, d, day, sec)
<1> DEFINE y == MarchYear(year, month)
           mp == MarchMonth(month)
           yoe == y % 400
           e == y \div 400
           doy == MonthStart(mp) + d - 1
<1>1. d \in 1 .. 31 BY SMT DEF DaysIn
<1>2. d - 1 < MonthStart(mp + 1) - MonthStart(mp) /\ IsDayOfEra(yoe, doy) BY <1>1, DatesAreDays
<1>3. day + Epoch = DaysOfEra * e + DayOfEra(yoe, doy) BY <1>1, DayIs
<1>4. y \in Int /\ e \in Int /\ mp \in 0 .. 11 /\ yoe + 400 * e = y BY SMT DEF MarchYear, MarchMonth
<1>5. day \in Int
  <2>1. DayOf(year, month, 1) \in Int BY SMT DEF DayOf
  <2> QED BY <1>1, <2>1, SMT
<1>6. (mp + 2) % 12 = month BY SMT DEF MarchMonth
<1>7. yoe + 400 * e + (IF (mp + 2) % 12 < 2 THEN 1 ELSE 0) = year BY <1>4, <1>6, SMT DEF MarchYear
<1>9. doy = MonthStart(mp) + d - 1 OBVIOUS
<1> HIDE DEF y, mp, yoe, e, doy
<1>8. Fields([day |-> day, sec |-> sec]) = Printed(yoe, e, mp, d, day, sec)
  <2>1. IsMoment(yoe, doy, e, mp, d, day, sec) BY <1>1, <1>2, <1>3, <1>4, <1>5, <1>9 DEF IsMoment
  <2> QED BY <2>1, FieldsAre
<1> QED BY <1>5, <1>6, <1>7, <1>8, SMT DEF Printed, DateAt

(* Every day is one of a date.                                              *)
LEMMA EveryDayHasADate ==
  ASSUME NEW day \in Int
  PROVE  \E year \in Int, month \in 0 .. 11 : \E d \in 1 .. DaysIn(month, year) :
           day = DayOf(year, month, 1) + d - 1
<1> DEFINE z == day + Epoch
           e == z \div DaysOfEra
           doe == z % DaysOfEra
<1>1. z \in Int /\ e \in Int /\ doe \in Nat /\ doe < DaysOfEra /\ z = DaysOfEra * e + doe BY SMT DEF DaysOfEra, Epoch
<1> HIDE DEF z, e, doe
<1>2. PICK yoe, doy : IsDayOfEra(yoe, doy) /\ DayOfEra(yoe, doy) = doe BY <1>1, EveryDayIsOne
<1>3. yoe \in 0 .. 399 /\ doy \in 0 .. 365 BY <1>2 DEF IsDayOfEra
<1>4. PICK mp \in 0 .. 11, d \in 1 .. 31 :
           doy = MonthStart(mp) + d - 1 /\ d - 1 < MonthStart(mp + 1) - MonthStart(mp)
  BY <1>3, EveryDayHasAMonth
<1> DEFINE month == (mp + 2) % 12
           y == 400 * e + yoe
           year == y + (IF month < 2 THEN 1 ELSE 0)
<1>5. month \in 0 .. 11 /\ MarchMonth(month) = mp BY <1>4, SMT DEF MarchMonth
<1>6. y \in Int /\ year \in Int /\ MarchYear(year, month) = y BY <1>1, <1>3, <1>5, SMT DEF MarchYear
<1>7. y % 400 = yoe /\ y \div 400 = e BY <1>1, <1>3, SMT
<1> HIDE DEF month, y, year
<1>8. d \in 1 .. DaysIn(month, year) BY <1>2, <1>4, <1>5, <1>6, <1>7, DatesAreDays
<1>9. DayOf(year, month, 1) + d - 1 + Epoch = DaysOfEra * e + doe BY <1>2, <1>4, <1>5, <1>6, <1>7, DayIs
<1>10. DayOf(year, month, 1) \in Int BY <1>5, <1>6, SMT DEF DayOf
<1>11. day = DayOf(year, month, 1) + d - 1 BY <1>1, <1>4, <1>9, <1>10, SMT DEF z, Epoch
<1> QED BY <1>5, <1>6, <1>8, <1>11, SMT

(* Zeller's weekday is that of the day.                                     *)
LEMMA WeekdayIs ==
  ASSUME NEW row, row.year \in Int, row.month \in 0 .. 11, row.day \in 1 .. 31
  PROVE  (DayOf(row.year, row.month, 1) + row.day - 1 + 4) % 7 = Zeller(row)
<1> DEFINE y == MarchYear(row.year, row.month)
           a == y \div 4
           b == y \div 100
           c == y \div 400
           m == IF row.month < 2 THEN row.month + 13 ELSE row.month + 1
           k == (13 * (m + 1)) \div 5
           s == MonthStart(MarchMonth(row.month))
           d == row.day
           n == y + a - b + c
<1>1. y \in Int /\ a \in Int /\ b \in Int /\ c \in Int /\ k \in Int /\ s \in Int /\ d \in Int
  BY SMT DEF MarchYear, MonthStart, MarchMonth
<1>2. DayOf(row.year, row.month, 1) = 365 * y + a - b + c + s - 719468
  BY <1>1, SMT DEF DayOf, MarchYear, MarchMonth, MonthStart
<1>3. Zeller(row) = (d + k + y + a - b + c + 6) % 7
  BY SMT DEF Zeller, MarchYear
<1>4. s - k + 10 \in Int /\ (s - k + 10) % 7 = 0
  <2>1. CASE row.month = 0 BY <2>1, SMT DEF MonthStart, MarchMonth
  <2>2. CASE row.month = 1 BY <2>2, SMT DEF MonthStart, MarchMonth
  <2>3. CASE row.month \in 2 .. 6 BY <2>3, SMT DEF MonthStart, MarchMonth
  <2>4. CASE row.month \in 7 .. 11 BY <2>4, SMT DEF MonthStart, MarchMonth
  <2> QED BY <2>1, <2>2, <2>3, <2>4, SMT
<1> HIDE DEF y, a, b, c, m, k, s, d
<1>5. n \in Int BY <1>1
<1>6. DayOf(row.year, row.month, 1) + d - 1 + 4 = n + 364 * y + s + d - 719465 BY <1>1, <1>2, SMT
<1>7. d + k + y + a - b + c + 6 = n + d + k + 6 BY <1>1, SMT
<1> HIDE DEF n
<1>8. PICK j \in Int : s - k + 10 = 7 * j
  <2>1. (s - k + 10) \div 7 \in Int /\ s - k + 10 = 7 * ((s - k + 10) \div 7) BY <1>4, SMT
  <2> QED BY <2>1
<1>9. n + 364 * y + s + d - 719465 = (n + d + k + 6) + 7 * (52 * y + j - 102783) BY <1>1, <1>5, <1>8, SMT
<1>10. \A a1, b1 \in Int : (a1 + 7 * b1) % 7 = a1 % 7 BY SMT
<1>11. n + d + k + 6 \in Int /\ 52 * y + j - 102783 \in Int BY <1>1, <1>5
<1>12. (n + 364 * y + s + d - 719465) % 7 = (n + d + k + 6) % 7 BY <1>9, <1>10, <1>11
<1> QED BY <1>3, <1>6, <1>7, <1>12 DEF d

-----------------------------------------------------------------------------
(* What ps prints of a moment is read as that moment.                       *)

(* No process started before 1970, so no year is below 100.                 *)
LEMMA YearsAreLate ==
  ASSUME NEW year \in Int, NEW month \in 0 .. 11, NEW d \in 1 .. 31, DayOf(year, month, 1) + d - 1 >= 0
  PROVE  year >= 100
<1> DEFINE y == MarchYear(year, month)
<1>1. y \in Int /\ y <= year BY SMT DEF MarchYear
<1>2. DayOf(year, month, 1) <= 365 * y + y \div 4 - y \div 100 + y \div 400 + 400 - 719468
  BY <1>1, SMT DEF DayOf, MarchYear
<1> HIDE DEF y
<1>3. y < 100 => y \div 4 <= 24 /\ y \div 400 <= 0 /\ - (y \div 100) <= 100 - y BY <1>1, SMT
<1>4. DayOf(year, month, 1) \in Int BY SMT DEF DayOf
<1>5. y < 100 => DayOf(year, month, 1) + d - 1 < 0 BY <1>1, <1>2, <1>3, <1>4, SMT
<1> QED BY <1>1, <1>4, <1>5, SMT

OfADay(sec) == sec \in Nat /\ sec < 86400

(* A moment is read back.                                                   *)
LEMMA MomentReadBack ==
  ASSUME NEW pid \in Nat \ {0}, NEW day \in Nat, NEW sec \in Nat, OfADay(sec)
  PROVE  parsePidLstartRow(RowOf(pid, [day |-> day, sec |-> sec]))
           = {[pid |-> pid, start |-> [day |-> day, sec |-> sec]]}
<1>0. day \in Int /\ sec \in Int OBVIOUS
<1>1. PICK year \in Int, month \in 0 .. 11 : \E d \in 1 .. DaysIn(month, year) :
         day = DayOf(year, month, 1) + d - 1
  BY <1>0, EveryDayHasADate
<1>2. PICK d \in 1 .. DaysIn(month, year) : day = DayOf(year, month, 1) + d - 1 BY <1>1
<1>3. d \in 1 .. 31 BY <1>2, SMT DEF DaysIn
<1>4. DayOf(year, month, 1) \in Int BY <1>1, SMT DEF DayOf
<1>5. year >= 100
  <2>1. DayOf(year, month, 1) + d - 1 >= 0 BY <1>2, SMT
  <2> QED BY <1>1, <1>3, <2>1, YearsAreLate
<1> DEFINE row == RowOf(pid, [day |-> day, sec |-> sec])
<1>6. Fields([day |-> day, sec |-> sec]) =
        DateAt(year, month, d, day, sec)
  BY <1>0, <1>1, <1>2, DateReadBack
<1>7. /\ row.tokens = 6 /\ row.pid = pid /\ row.weekday = (day + 4) % 7 /\ row.month = month
      /\ row.day = d /\ row.hours = sec \div 3600 /\ row.minutes = (sec % 3600) \div 60
      /\ row.seconds = sec % 60 /\ row.year = year
  BY <1>6, SMT DEF RowOf, DateAt
<1> HIDE DEF row
<1>8. WellShaped(row) BY <1>1, <1>3, <1>5, <1>7, SMT DEF WellShaped
<1>9. UTC(row) = [day |-> day, sec |-> sec]
  <2>1. row.hours * 3600 + row.minutes * 60 + row.seconds = sec BY <1>7, SMT
  <2>2. sec \div 86400 = 0 /\ sec % 86400 = sec BY SMT DEF OfADay
  <2>3. DayOf(year, month, 1) + d - 1 + 0 = day BY <1>2, <1>3, <1>4, SMT
  <2> QED BY <1>5, <1>7, <2>1, <2>2, <2>3, SMT DEF UTC
<1>10. RoundTrips(row) BY <1>6, <1>7, <1>9, SMT DEF RoundTrips, DateAt
<1> QED BY <1>7, <1>8, <1>9, <1>10, SMT DEF parsePidLstartRow, row

(* A row without a month is not read.                                       *)
LEMMA GarbledIsNotRead == ASSUME NEW pid, NEW at PROVE parsePidLstartRow(Garbled(RowOf(pid, at))) = {}
<1>1. Garbled(RowOf(pid, at)).month = -1 BY SMT DEF Garbled, RowOf
<1> QED BY <1>1, SMT DEF parsePidLstartRow, WellShaped

-----------------------------------------------------------------------------
(* A row is taken exactly if it is a moment of the calendar.                *)

DayNo(row) == DayOf(row.year, row.month, 1) + row.day - 1

SecondsOf(h, m, s) == h * 3600 + m * 60 + s

SecondNo(row) == SecondsOf(row.hours, row.minutes, row.seconds)

TokensOf(row) ==
  [year |-> row.year, month |-> row.month, day |-> row.day, hours |-> row.hours,
   minutes |-> row.minutes, seconds |-> row.seconds, weekday |-> row.weekday]

TwoDigits == 0 .. 99

IsClock(h, m, s) == h < 24 /\ m < 60 /\ s < 60

SplitsInto(n, h, m, s) == n \div 3600 = h /\ (n % 3600) \div 60 = m /\ n % 60 = s

(* Hours, minutes and seconds of two digits make a number of seconds,       *)
LEMMA SecondsAdd ==
  ASSUME NEW h \in TwoDigits, NEW m \in TwoDigits, NEW s \in TwoDigits
  PROVE  SecondsOf(h, m, s) \in Nat
BY SMT DEF SecondsOf, TwoDigits

(* and those of a clock are found again in it.                              *)
LEMMA SecondsSplit ==
  ASSUME NEW h \in TwoDigits, NEW m \in TwoDigits, NEW s \in TwoDigits, IsClock(h, m, s)
  PROVE  OfADay(SecondsOf(h, m, s)) /\ SplitsInto(SecondsOf(h, m, s), h, m, s)
<1> DEFINE n == h * 3600 + m * 60 + s
<1>1. h < 24 /\ m < 60 /\ s < 60 /\ h \in Nat /\ m \in Nat /\ s \in Nat BY SMT DEF IsClock, TwoDigits
<1>2. OfADay(n) BY <1>1, SMT DEF OfADay
<1>3. n \div 3600 = h /\ n % 3600 = m * 60 + s BY <1>1, SMT
<1>4. (m * 60 + s) \div 60 = m BY <1>1, SMT
<1>5. n % 60 = s
  <2>1. n = 60 * (60 * h + m) + s BY <1>1, SMT
  <2> QED BY <1>1, <2>1, SMT
<1> QED BY <1>2, <1>3, <1>4, <1>5, SMT DEF SecondsOf, SplitsInto

(* What a well-shaped row holds.                                            *)
LEMMA ShapeOfRows ==
  ASSUME NEW row \in Rows, WellShaped(row)
  PROVE  /\ row.tokens = 6 /\ row.pid \in Nat \ {0} /\ row.weekday \in 0 .. 6 /\ row.month \in 0 .. 11
         /\ row.day \in 0 .. 99 /\ row.hours \in TwoDigits /\ row.minutes \in TwoDigits
         /\ row.seconds \in TwoDigits /\ row.year \in Nat
<1>1. /\ row.tokens \in Nat /\ row.pid \in Nat /\ row.weekday \in -1 .. 6 /\ row.month \in -1 .. 11
      /\ row.day \in -1 .. 99 /\ row.hours \in -1 .. 99 /\ row.minutes \in -1 .. 99
      /\ row.seconds \in -1 .. 99 /\ (row.year = -1 \/ (row.year \in Nat /\ row.year < 10000))
  BY SMT DEF Rows
<1>2. /\ row.tokens = 6 /\ row.pid > 0 /\ row.weekday # -1 /\ row.month # -1 /\ row.day # -1
      /\ row.hours # -1 /\ row.minutes # -1 /\ row.seconds # -1 /\ row.year # -1
  BY DEF WellShaped
<1>3. row.weekday \in 0 .. 6 BY <1>1, <1>2, SMT
<1>4. row.month \in 0 .. 11 BY <1>1, <1>2, SMT
<1>5. row.day \in 0 .. 99 BY <1>1, <1>2, SMT
<1>6. row.hours \in TwoDigits BY <1>1, <1>2, SMT DEF TwoDigits
<1>7. row.minutes \in TwoDigits BY <1>1, <1>2, SMT DEF TwoDigits
<1>8. row.seconds \in TwoDigits BY <1>1, <1>2, SMT DEF TwoDigits
<1>9. row.year \in Nat BY <1>1, <1>2
<1> QED BY <1>1, <1>2, <1>3, <1>4, <1>5, <1>6, <1>7, <1>8, <1>9, SMT

(* The moment Date.UTC makes of a row, dates that are none included.        *)
LEMMA MomentOfRows ==
  ASSUME NEW row \in Rows, WellShaped(row)
  PROVE  /\ UTC(row).day \in Int /\ UTC(row).sec \in Nat /\ OfADay(UTC(row).sec)
         /\ UTC(row) = [day |-> UTC(row).day, sec |-> UTC(row).sec]
         /\ row.year >= 100 => UTC(row).day = DayNo(row) + SecondNo(row) \div 86400
         /\ row.year < 100 => UTC(row).day >= DayOf(1900 + row.year, row.month, 1) + row.day - 1
         /\ UTC(row).sec = SecondNo(row) % 86400
<1>1. /\ row.month \in 0 .. 11 /\ row.day \in 0 .. 99 /\ row.hours \in TwoDigits
      /\ row.minutes \in TwoDigits /\ row.seconds \in TwoDigits /\ row.year \in Nat
  BY ShapeOfRows
<1>2. SecondNo(row) \in Nat BY <1>1, SecondsAdd DEF SecondNo
<1>3. \A y \in Int : DayOf(y, row.month, 1) \in Int BY <1>1, SMT DEF DayOf
<1>4. SecondNo(row) \div 86400 \in Nat /\ SecondNo(row) % 86400 \in Nat /\ OfADay(SecondNo(row) % 86400)
  BY <1>2, SMT DEF OfADay
<1> DEFINE year == IF row.year < 100 THEN 1900 + row.year ELSE row.year
<1>5. year \in Int BY <1>1, SMT
<1>6. UTC(row) = [day |-> DayOf(year, row.month, 1) + row.day - 1 + SecondNo(row) \div 86400,
                  sec |-> SecondNo(row) % 86400]
  BY SMT DEF UTC, SecondNo, SecondsOf
<1>7. DayOf(year, row.month, 1) \in Int BY <1>3, <1>5, SMT
<1>8. CASE row.year >= 100
  <2>1. year = row.year BY <1>1, <1>8, SMT
  <2> HIDE DEF year
  <2> QED BY <1>1, <1>4, <1>6, <1>7, <1>8, <2>1, SMT DEF DayNo
<1>9. CASE row.year < 100
  <2>1. year = 1900 + row.year BY <1>1, <1>9, SMT
  <2> HIDE DEF year
  <2> QED BY <1>1, <1>4, <1>6, <1>7, <1>9, <2>1, SMT DEF DayNo
<1> QED BY <1>1, <1>8, <1>9, SMT

(* A moment of the calendar survives the round trip.                        *)
LEMMA DatesAreTaken ==
  ASSUME NEW row \in Rows, WellShaped(row), IsADate(row)
  PROVE  RoundTrips(row)
<1>1. /\ row.pid \in Nat \ {0} /\ row.month \in 0 .. 11 /\ row.day \in 0 .. 99 /\ row.hours \in TwoDigits
      /\ row.minutes \in TwoDigits /\ row.seconds \in TwoDigits /\ row.year \in Nat
  BY ShapeOfRows
<1>2. /\ row.day \in 1 .. DaysIn(row.month, row.year) /\ row.weekday = Zeller(row)
      /\ row.hours < 24 /\ row.minutes < 60 /\ row.seconds < 60 /\ row.year >= 100
  BY DEF IsADate
<1>3. SecondNo(row) \in Nat /\ SecondNo(row) \div 86400 = 0 /\ SecondNo(row) % 86400 = SecondNo(row)
  <2>1. SecondNo(row) \in Nat BY <1>1, SecondsAdd DEF SecondNo
  <2>2. OfADay(SecondNo(row)) BY <1>1, <1>2, SecondsSplit DEF SecondNo, IsClock
  <2> QED BY <2>1, <2>2, SMT DEF OfADay
<1>4. row.day \in 1 .. 31 BY <1>2, SMT DEF DaysIn
<1>5. DayNo(row) \in Int
  <2>1. DayOf(row.year, row.month, 1) \in Int BY <1>1, SMT DEF DayOf
  <2> QED BY <1>4, <2>1, SMT DEF DayNo
<1>6. UTC(row) = [day |-> DayNo(row), sec |-> SecondNo(row)]
  <2>1. UTC(row).day = DayNo(row) + SecondNo(row) \div 86400 /\ UTC(row).sec = SecondNo(row) % 86400
        /\ UTC(row) = [day |-> UTC(row).day, sec |-> UTC(row).sec]
    BY <1>2, MomentOfRows, SMT
  <2> QED BY <1>3, <1>5, <2>1, SMT
<1>7. Fields([day |-> DayNo(row), sec |-> SecondNo(row)])
        = DateAt(row.year, row.month, row.day, DayNo(row), SecondNo(row))
  <2>1. row.year \in Int /\ SecondNo(row) \in Int BY <1>1, <1>3, SMT
  <2>2. DayNo(row) = DayOf(row.year, row.month, 1) + row.day - 1 BY DEF DayNo
  <2> QED BY <1>1, <1>2, <2>1, <2>2, DateReadBack
<1>8. (DayNo(row) + 4) % 7 = row.weekday
  <2>1. row.year \in Int BY <1>1, SMT
  <2>2. (DayOf(row.year, row.month, 1) + row.day - 1 + 4) % 7 = Zeller(row)
    BY <1>1, <1>4, <2>1, WeekdayIs
  <2> QED BY <1>2, <2>2 DEF DayNo
<1>9. /\ SecondNo(row) \div 3600 = row.hours /\ (SecondNo(row) % 3600) \div 60 = row.minutes
      /\ SecondNo(row) % 60 = row.seconds
  <2>1. SplitsInto(SecondNo(row), row.hours, row.minutes, row.seconds)
    BY <1>1, <1>2, SecondsSplit DEF SecondNo, IsClock
  <2> QED BY <2>1, SMT DEF SplitsInto
<1> QED BY <1>6, <1>7, <1>8, <1>9, SMT DEF RoundTrips, DateAt

(* A year below 100 is taken as one of 1900 and so never read back.         *)
LEMMA LaterYears ==
  ASSUME NEW year \in Nat, NEW month \in 0 .. 11
  PROVE  DayOf(1900 + year, month, 1) > DayOf(year, month, 1)
<1> DEFINE y == MarchYear(year, month)
           a == (153 * MarchMonth(month) + 2) \div 5
<1>1. y \in Int /\ MarchYear(1900 + year, month) = 1900 + y BY SMT DEF MarchYear
<1>2. a \in Int BY SMT DEF MarchMonth
<1>3. DayOf(year, month, 1) = 365 * y + y \div 4 - y \div 100 + y \div 400 + a - 719468
  BY <1>1, <1>2, SMT DEF DayOf, MarchYear, MarchMonth
<1>4. DayOf(1900 + year, month, 1)
        = 365 * (1900 + y) + (1900 + y) \div 4 - (1900 + y) \div 100 + (1900 + y) \div 400 + a - 719468
  BY <1>1, <1>2, SMT DEF DayOf, MarchYear, MarchMonth
<1> HIDE DEF y, a
<1>5. (1900 + y) \div 4 = 475 + y \div 4 /\ (1900 + y) \div 100 = 19 + y \div 100
      /\ (1900 + y) \div 400 >= y \div 400
      /\ y \div 4 \in Int /\ y \div 100 \in Int /\ y \div 400 \in Int /\ (1900 + y) \div 400 \in Int
  BY <1>1, SMT
<1> QED BY <1>1, <1>2, <1>3, <1>4, <1>5, SMT

(* Nothing else does.                                                       *)
LEMMA OnlyDatesAreTaken ==
  ASSUME NEW row \in Rows, WellShaped(row), RoundTrips(row)
  PROVE  IsADate(row) /\ RowOf(row.pid, UTC(row)) = row
<1>1. /\ row.tokens = 6 /\ row.pid \in Nat \ {0} /\ row.month \in 0 .. 11 /\ row.day \in 0 .. 99
      /\ row.hours \in TwoDigits /\ row.minutes \in TwoDigits /\ row.seconds \in TwoDigits /\ row.year \in Nat
  BY ShapeOfRows
<1> DEFINE n == UTC(row).day
           sec == UTC(row).sec
<1>2. n \in Int /\ sec \in Nat /\ OfADay(sec) /\ UTC(row) = [day |-> n, sec |-> sec] BY MomentOfRows
<1>3. Fields([day |-> n, sec |-> sec]) = TokensOf(row) BY <1>2, SMT DEF RoundTrips, TokensOf
<1>4. PICK year \in Int, month \in 0 .. 11 : \E d \in 1 .. DaysIn(month, year) :
         n = DayOf(year, month, 1) + d - 1
  BY <1>2, EveryDayHasADate
<1>5. PICK d \in 1 .. DaysIn(month, year) : n = DayOf(year, month, 1) + d - 1 BY <1>4
<1> HIDE DEF n, sec
<1>6. Fields([day |-> n, sec |-> sec]) = DateAt(year, month, d, n, sec)
  <2>1. sec \in Int BY <1>2, SMT
  <2> QED BY <1>4, <1>5, <2>1, DateReadBack
<1>7. TokensOf(row) = DateAt(year, month, d, n, sec) BY <1>3, <1>6
<1>8. /\ row.year = year /\ row.month = month /\ row.day = d /\ row.hours = sec \div 3600
      /\ row.minutes = (sec % 3600) \div 60 /\ row.seconds = sec % 60 /\ row.weekday = (n + 4) % 7
  BY <1>7, SMT DEF TokensOf, DateAt
<1>9. d \in 1 .. 31 BY <1>5, SMT DEF DaysIn
<1>10. n = DayNo(row) BY <1>5, <1>8 DEF DayNo
<1>11. row.hours < 24 /\ row.minutes < 60 /\ row.seconds < 60
  BY <1>2, <1>8, SMT DEF OfADay
<1>12. row.weekday = Zeller(row)
  <2>1. row.year \in Int /\ row.day \in 1 .. 31 BY <1>8, <1>9, SMT
  <2>2. (DayOf(row.year, row.month, 1) + row.day - 1 + 4) % 7 = Zeller(row)
    BY <1>1, <2>1, WeekdayIs
  <2> QED BY <1>8, <1>10, <2>2 DEF DayNo
<1>13. row.year >= 100
  <2> SUFFICES ASSUME row.year < 100 PROVE FALSE BY <1>1, SMT
  <2>1. n >= DayOf(1900 + row.year, row.month, 1) + row.day - 1 BY MomentOfRows, SMT DEF n
  <2>2. DayOf(1900 + row.year, row.month, 1) > DayOf(row.year, row.month, 1)
    BY <1>1, LaterYears
  <2>3. DayOf(1900 + row.year, row.month, 1) \in Int /\ DayOf(row.year, row.month, 1) \in Int
    BY <1>1, SMT DEF DayOf
  <2> QED BY <1>1, <1>10, <2>1, <2>2, <2>3, SMT DEF DayNo
<1>14. IsADate(row) BY <1>5, <1>8, <1>11, <1>12, <1>13, SMT DEF IsADate
<1>15. RowOf(row.pid, UTC(row)) =
         [tokens |-> 6, pid |-> row.pid, weekday |-> row.weekday, month |-> row.month,
          day |-> row.day, hours |-> row.hours, minutes |-> row.minutes, seconds |-> row.seconds,
          year |-> row.year]
  BY <1>2, <1>3, SMT DEF RowOf, TokensOf
<1>16. row = [tokens |-> 6, pid |-> row.pid, weekday |-> row.weekday, month |-> row.month,
          day |-> row.day, hours |-> row.hours, minutes |-> row.minutes, seconds |-> row.seconds,
          year |-> row.year]
  BY <1>1, SMT DEF Rows
<1> QED BY <1>14, <1>15, <1>16

(* parsePidLstartRow, for every row.                                        *)
LEMMA RowsAreUnderstood ==
  ASSUME NEW row \in Rows
  PROVE  /\ parsePidLstartRow(row) # {} <=> WellShaped(row) /\ IsADate(row)
         /\ \A r \in parsePidLstartRow(row) : RowOf(r.pid, r.start) = row
<1>1. CASE WellShaped(row) /\ RoundTrips(row)
  <2>1. parsePidLstartRow(row) = {[pid |-> row.pid, start |-> UTC(row)]} BY <1>1 DEF parsePidLstartRow
  <2>2. IsADate(row) /\ RowOf(row.pid, UTC(row)) = row BY <1>1, OnlyDatesAreTaken
  <2> QED BY <1>1, <2>1, <2>2, SMT
<1>2. CASE ~(WellShaped(row) /\ RoundTrips(row))
  <2>1. parsePidLstartRow(row) = {} BY <1>2 DEF parsePidLstartRow
  <2> QED BY <1>2, <2>1, DatesAreTaken
<1> QED BY <1>1, <1>2

-----------------------------------------------------------------------------
(* A line of /proc: the ticks stand behind the last closing parenthesis,    *)
(* whatever the name before it holds.                                       *)

(* Blanks stand at the odd places behind the name.                          *)
LEMMA EvenAndOdd ==
  ASSUME NEW k \in Int
  PROVE  (2 * k) % 2 = 0 /\ (2 * k - 1) % 2 = 1
BY SMT

(* Neither a numeral nor a blank is a parenthesis.                          *)
LEMMA TokensDiffer ==
  ASSUME NEW m
  PROVE  CloseParen # Numeral(m) /\ Space # Numeral(m) /\ CloseParen # Space
<1>1. /\ DOMAIN CloseParen = {"chars"} /\ DOMAIN Space = {"chars"} /\ DOMAIN Numeral(m) = {"digits"}
      /\ CloseParen.chars = "close" /\ Space.chars = "blank"
  BY SMT DEF Char, Numeral, CloseParen, Space
<1> QED BY <1>1

(* The fields behind the name, at every other place.                        *)
LEMMA PlacesBefore ==
  ASSUME NEW c \in Nat, NEW k \in Nat
  PROVE  Cardinality({c + 2 * i : i \in 1 .. k}) = k
<1> DEFINE T == {c + 2 * i : i \in 1 .. k}
           f == [i \in 1 .. k |-> c + 2 * i]
<1>1. IsFiniteSet(1 .. k) /\ Cardinality(1 .. k) = k BY FS_Interval
<1>2. f \in Surjection(1 .. k, T) BY DEF Surjection
<1>3. \A i \in 1 .. k, j \in 1 .. k : c + 2 * i = c + 2 * j => i = j OBVIOUS
<1>4. f \in Injection(1 .. k, T) BY <1>3 DEF Injection, IsInjective
<1>5. ExistsBijection(1 .. k, T) BY <1>2, <1>4 DEF ExistsBijection, Bijection
<1> HIDE DEF T
<1>6. Cardinality(T) = k BY <1>1, <1>5, FS_Bijection
<1> QED BY <1>6 DEF T

(* Sequences of three and of one.                                           *)
LEMMA ThreeTokens ==
  ASSUME NEW S, NEW x \in S, NEW y \in S, NEW z \in S
  PROVE  <<x, y, z>> \in Seq(S) /\ Len(<<x, y, z>>) = 3
BY SMT

LEMMA OneToken ==
  ASSUME NEW S, NEW x \in S
  PROVE  <<x>> \in Seq(S) /\ Len(<<x>>) = 1 /\ <<x>>[1] = x
BY SMT

(* A sequence with one more behind it.                                      *)
LEMMA OneMore ==
  ASSUME NEW S, NEW s \in Seq(S), NEW u \in Seq(S), Len(u) = 1
  PROVE  s \o u \in Seq(S) /\ Len(s \o u) = Len(s) + 1 /\ (s \o u)[Len(s) + 1] = u[1]
<1>1. /\ s \o u \in Seq(S) /\ Len(s \o u) = Len(s) + Len(u)
      /\ \A i \in 1 .. Len(s) + Len(u) : (s \o u)[i] = IF i <= Len(s) THEN s[i] ELSE u[i - Len(s)]
  BY ConcatProperties
<1>2. Len(s) \in Nat BY LenProperties
<1>3. Len(s) + 1 \in 1 .. Len(s) + Len(u) /\ ~(Len(s) + 1 <= Len(s)) /\ Len(s) + 1 - Len(s) = 1
  BY <1>2, SMT
<1> QED BY <1>1, <1>3

(* parseLinuxStatStartTimeTicks, for every name and all ticks.              *)
LEMMA StatsAreUnderstood ==
  ASSUME NEW S, NEW name \in Seq(S), NEW ticks \in Nat
  PROVE  parseLinuxStatStartTimeTicks(StatOf(name, ticks)) = {Numeral(ticks)}
<1> DEFINE raw  == StatOf(name, ticks)
           n    == Len(name)
           c    == n + 4
           len  == 2 * START_FIELD + 4
           tail == [i \in 1 .. len |->
                      IF i % 2 = 1 THEN Space
                      ELSE IF i = 2 * START_FIELD + 2 THEN Numeral(ticks) ELSE Numeral(0)]
           front == <<Numeral(1), Space, OpenParen>> \o name \o <<CloseParen>>
<1>1. n \in Nat /\ START_FIELD \in Nat /\ len \in Nat /\ c \in Nat /\ c >= 1 BY TextAssumption, SMT
<1> DEFINE U == S \cup {Space, OpenParen, CloseParen} \cup {Numeral(k) : k \in Nat}
<1>2. /\ Space \in U /\ OpenParen \in U /\ CloseParen \in U
      /\ \A k \in Nat : Numeral(k) \in U
      /\ name \in Seq(U)
  <2>1. S \subseteq U OBVIOUS
  <2> QED BY <2>1, SeqMonotonic
<1> HIDE DEF U
<1>3. front \in Seq(U) /\ Len(front) = c /\ front[c] = CloseParen
  <2> DEFINE ab == <<Numeral(1), Space, OpenParen>>
             e  == <<CloseParen>>
  <2>1. ab \in Seq(U) /\ Len(ab) = 3 BY <1>2, ThreeTokens
  <2>2. e \in Seq(U) /\ Len(e) = 1 /\ e[1] = CloseParen BY <1>2, OneToken
  <2> HIDE DEF ab, e
  <2> DEFINE v == ab \o name
  <2>3. v \in Seq(U) /\ Len(v) = Len(ab) + Len(name) BY <1>2, <2>1, ConcatProperties
  <2> HIDE DEF v
  <2>4. v \o e \in Seq(U) /\ Len(v \o e) = Len(v) + 1 /\ (v \o e)[Len(v) + 1] = e[1]
    BY <2>2, <2>3, OneMore
  <2>5. Len(v) + 1 = c BY <1>1, <2>1, <2>3, SMT
  <2> HIDE DEF c
  <2> QED BY <2>2, <2>4, <2>5 DEF ab, e, v
<1>4. tail \in Seq(U) /\ Len(tail) = len
  <2>1. \A i \in 1 .. len : tail[i] \in U BY <1>1, <1>2
  <2>2. tail \in [1 .. len -> U] BY <2>1
  <2> HIDE DEF tail, len
  <2> QED BY <1>1, <2>2, SMT
<1>5. /\ Len(raw) = c + len /\ DOMAIN raw = 1 .. c + len
      /\ \A i \in 1 .. c : raw[i] = front[i]
      /\ \A j \in 1 .. len : raw[c + j] = tail[j]
  <2>1. raw = front \o tail BY DEF StatOf
  <2> HIDE DEF raw, front, tail, len, c
  <2>2. /\ raw \in Seq(U) /\ Len(raw) = c + len
        /\ \A i \in 1 .. c + len : raw[i] = IF i <= c THEN front[i] ELSE tail[i - c]
    BY <1>3, <1>4, <2>1, ConcatProperties
  <2> QED BY <1>1, <2>2, SMT
<1>6. raw[c] = CloseParen /\ \A j \in 1 .. len : raw[c + j] # CloseParen
  <2>1. \A j \in 1 .. len : tail[j] # CloseParen BY <1>1, TokensDiffer
  <2> HIDE DEF raw, front, tail, len, c
  <2> QED BY <1>1, <1>3, <1>5, <2>1, SMT
<1> HIDE DEF raw, front
<1>7. LastParen(raw) = c
  <2> HIDE DEF tail, len, c
  <2> DEFINE at == {i \in DOMAIN raw : raw[i] = CloseParen}
  <2>1. c \in at BY <1>1, <1>5, <1>6, SMT
  <2>2. ASSUME NEW j \in at PROVE j <= c
    <3> SUFFICES ASSUME j > c PROVE FALSE BY <1>1, <1>5, SMT
    <3>1. j \in 1 .. c + len BY <1>5
    <3>2. j - c \in 1 .. len /\ c + (j - c) = j BY <1>1, <3>1, SMT
    <3>3. raw[c + (j - c)] # CloseParen BY <1>6, <3>2
    <3> QED BY <3>2, <3>3
  <2>3. at \subseteq Int BY <1>1, <1>5, SMT
  <2> HIDE DEF at
  <2>4. \A i \in at : (\A j \in at : j <= i) => i = c BY <1>1, <2>1, <2>2, <2>3, SMT
  <2>5. at # {} /\ (CHOOSE i \in at : \A j \in at : j <= i) = c BY <2>1, <2>2, <2>4
  <2> QED BY <2>5 DEF LastParen, at
<1>8. \A j \in 1 .. len : tail[j] # Space <=> \E k \in 1 .. START_FIELD + 2 : j = 2 * k
  <2> SUFFICES ASSUME NEW j \in 1 .. len
               PROVE  tail[j] # Space <=> \E k \in 1 .. START_FIELD + 2 : j = 2 * k
    OBVIOUS
  <2>1. CASE j % 2 = 1
    <3>1. tail[j] = Space BY <2>1
    <3>2. \A k \in Int : j # 2 * k BY <1>1, <2>1, SMT
    <3> QED BY <1>1, <3>1, <3>2, SMT
  <2>2. CASE j % 2 # 1
    <3>1. tail[j] \in {Numeral(ticks), Numeral(0)} BY <2>2
    <3>2. tail[j] # Space BY <3>1, TokensDiffer
    <3>3. j \div 2 \in 1 .. START_FIELD + 2 /\ j = 2 * (j \div 2) BY <1>1, <2>2, SMT
    <3> QED BY <3>2, <3>3
  <2> QED BY <2>1, <2>2
<1>9. tail[2 * (START_FIELD + 1)] = Numeral(ticks)
  <2>1. 2 * (START_FIELD + 1) \in 1 .. len /\ 2 * (START_FIELD + 1) = 2 * START_FIELD + 2
        /\ (2 * (START_FIELD + 1)) % 2 # 1
    BY <1>1, SMT
  <2> QED BY <2>1
<1> HIDE DEF tail
<1> DEFINE at(k) == c + 2 * k
<1>10. TailFields(raw) = {at(k) : k \in 1 .. START_FIELD + 2}
  <2>1. ASSUME NEW i \in TailFields(raw) PROVE \E k \in 1 .. START_FIELD + 2 : i = at(k)
    <3>1. i \in c + 1 .. c + len /\ raw[i] # Space BY <1>5, <1>7, <2>1 DEF TailFields
    <3>2. i - c \in 1 .. len /\ i = c + (i - c) BY <1>1, <3>1, SMT
    <3>3. tail[i - c] # Space BY <1>5, <3>1, <3>2
    <3>4. PICK k \in 1 .. START_FIELD + 2 : i - c = 2 * k BY <1>8, <3>2, <3>3
    <3> QED BY <3>2, <3>4
  <2>2. ASSUME NEW k \in 1 .. START_FIELD + 2 PROVE at(k) \in TailFields(raw)
    <3>1. 2 * k \in 1 .. len BY <1>1, SMT
    <3>2. raw[c + 2 * k] # Space BY <1>5, <1>8, <3>1
    <3>3. c + 2 * k \in c + 1 .. c + len BY <1>1, <3>1, SMT
    <3> QED BY <1>5, <1>7, <3>2, <3>3 DEF TailFields
  <2> QED BY <2>1, <2>2
<1>11. ASSUME NEW k \in 1 .. START_FIELD + 2
       PROVE  Cardinality({h \in TailFields(raw) : h < at(k)}) = k - 1
  <2>1. {h \in TailFields(raw) : h < at(k)} = {c + 2 * i : i \in 1 .. k - 1}
    <3>1. ASSUME NEW i \in 1 .. START_FIELD + 2 PROVE c + 2 * i < c + 2 * k <=> i \in 1 .. k - 1
      BY <1>1, SMT
    <3>2. 1 .. k - 1 \subseteq 1 .. START_FIELD + 2 BY <1>1, SMT
    <3> QED BY <1>10, <3>1, <3>2
  <2>2. k - 1 \in Nat BY <1>1, SMT
  <2>3. Cardinality({c + 2 * i : i \in 1 .. k - 1}) = k - 1 BY <1>1, <2>2, PlacesBefore
  <2> QED BY <2>1, <2>3
<1> DEFINE m == START_FIELD + 1
<1>12. m \in 1 .. START_FIELD + 2 /\ at(m) \in TailFields(raw) /\ m - 1 = START_FIELD
  <2>1. m \in 1 .. START_FIELD + 2 /\ m - 1 = START_FIELD BY <1>1, SMT
  <2> HIDE DEF m, at
  <2> QED BY <1>10, <2>1
<1>13. raw[at(m)] = Numeral(ticks) /\ Numeral(ticks) \in [digits : Nat]
  <2>1. 2 * m \in 1 .. len BY <1>1, SMT
  <2>2. Numeral(ticks) \in [digits : Nat] BY SMT DEF Numeral
  <2> QED BY <1>5, <1>9, <2>1, <2>2
<1> DEFINE Js == {j \in TailFields(raw) :
                    /\ Cardinality({h \in TailFields(raw) : h < j}) = START_FIELD
                    /\ raw[j] \in [digits : Nat]}
<1>14. Js = {at(m)}
  <2>1. at(m) \in Js BY <1>11, <1>12, <1>13
  <2>2. ASSUME NEW j \in Js PROVE j = at(m)
    <3>1. PICK k \in 1 .. START_FIELD + 2 : j = at(k) BY <1>10
    <3>2. k - 1 = START_FIELD BY <1>11, <3>1
    <3>3. k = m BY <1>1, <3>2, SMT
    <3> QED BY <3>1, <3>3
  <2> QED BY <2>1, <2>2
<1>15. parseLinuxStatStartTimeTicks(raw) = {raw[j] : j \in Js}
  BY <1>1, <1>7, SMT DEF parseLinuxStatStartTimeTicks
<1> HIDE DEF Js, at, m
<1> QED BY <1>13, <1>14, <1>15 DEF raw

-----------------------------------------------------------------------------
(* An elapsed time is the seconds it was printed from.                      *)

(* Whole units and what is left of them.                                    *)
LEMMA ByDays ==
  ASSUME NEW s \in Nat
  PROVE  /\ s \div 86400 \in Nat /\ s % 86400 \in Nat /\ s % 86400 < 86400
         /\ s = 86400 * (s \div 86400) + (s % 86400)
BY SMT

LEMMA ByHours ==
  ASSUME NEW s \in Nat
  PROVE  /\ s \div 3600 \in Nat /\ s % 3600 \in Nat /\ s % 3600 < 3600
         /\ s = 3600 * (s \div 3600) + (s % 3600)
BY SMT

LEMMA ByMinutes ==
  ASSUME NEW s \in Nat
  PROVE  /\ s \div 60 \in Nat /\ s % 60 \in Nat /\ s % 60 < 60
         /\ s = 60 * (s \div 60) + (s % 60)
BY SMT

WholeDays(s)    == s \div 86400
HoursIn(s)   == (s % 86400) \div 3600
MinutesIn(s) == (s % 3600) \div 60
SecondsIn(s) == s % 60

WholeOf(d, h, m, s) == d * 86400 + h * 3600 + m * 60 + s

(* Days, hours, minutes and seconds are those of the elapsed time.          *)
LEMMA PartsOfElapsed ==
  ASSUME NEW s \in Nat
  PROVE  /\ WholeDays(s) \in Nat /\ HoursIn(s) \in TwoDigits
         /\ MinutesIn(s) \in TwoDigits /\ SecondsIn(s) \in TwoDigits
         /\ WholeOf(WholeDays(s), HoursIn(s), MinutesIn(s), SecondsIn(s)) = s
<1> DEFINE days == s \div 86400
           t == s % 86400
           h == t \div 3600
           w == t % 3600
           m == w \div 60
           r == w % 60
<1>1. days \in Nat /\ t \in Nat /\ t < 86400 /\ s = 86400 * days + t BY ByDays, SMT
<1> HIDE DEF days, t
<1>2. h \in Nat /\ w \in Nat /\ w < 3600 /\ t = 3600 * h + w BY <1>1, ByHours, SMT
<1> HIDE DEF h, w
<1>3. m \in Nat /\ r \in Nat /\ r < 60 /\ w = 60 * m + r BY <1>2, ByMinutes, SMT
<1> HIDE DEF m, r
<1>4. h < 24 /\ m < 60 BY <1>1, <1>2, <1>3, SMT
<1>5. s % 3600 = w
  <2>1. s = 3600 * (24 * days + h) + w BY <1>1, <1>2, SMT
  <2> QED BY <1>1, <1>2, <2>1, SMT
<1>6. s % 60 = r
  <2>1. s = 60 * (1440 * days + 60 * h + m) + r BY <1>1, <1>2, <1>3, SMT
  <2> QED BY <1>1, <1>2, <1>3, <2>1, SMT
<1>7. h \in TwoDigits /\ m \in TwoDigits /\ r \in TwoDigits BY <1>2, <1>3, <1>4, SMT DEF TwoDigits
<1>8. days * 86400 + h * 3600 + m * 60 + r = s BY <1>1, <1>2, <1>3, SMT
<1> QED BY <1>1, <1>5, <1>6, <1>7, <1>8, SMT
  DEF days, t, h, m, r, WholeDays, HoursIn, MinutesIn, SecondsIn, WholeOf

Plausible(s) == s \in Nat /\ s \div 86400 <= MAX_PLAUSIBLE_ETIME_DAYS

(* The parts of hh:mm:ss.                                                   *)
LEMMA ThreeParts ==
  ASSUME NEW h, NEW m, NEW r
  PROVE  LET t == <<h>> \o <<m, r>>
         IN  /\ Len(t) = 3 /\ DOMAIN t = 1 .. 3 /\ t[1] = h /\ t[2] = m /\ t[3] = r /\ Head(t) = h
             /\ SubSeq(t, 2, 3)[1] = m /\ SubSeq(t, 2, 3)[2] = r
BY SMT

IsRead(raw, d, h, low) ==
  /\ d = (IF raw.days = -1 THEN 0 ELSE raw.days) /\ d <= MAX_PLAUSIBLE_ETIME_DAYS
  /\ Len(raw.parts) \in {2, 3} /\ \A i \in DOMAIN raw.parts : raw.parts[i] \in TwoDigits
  /\ h = (IF Len(raw.parts) = 3 THEN Head(raw.parts) ELSE 0)
  /\ low = SubSeq(raw.parts, Len(raw.parts) - 1, Len(raw.parts))

(* What parseEtime makes of a text with these parts.                        *)
LEMMA ParsedAs ==
  ASSUME NEW raw, NEW d, NEW h, NEW low, IsRead(raw, d, h, low)
  PROVE  parseEtime(raw) = {WholeOf(d, h, low[1], low[2])}
BY SMT DEF IsRead, parseEtime, WholeOf, TwoDigits

(* parseEtime, for every elapsed time within the plausible days.            *)
LEMMA ElapsedIsUnderstood ==
  ASSUME NEW s, Plausible(s)
  PROVE  parseEtime(EtimeOf(s)) = {s}
<1> DEFINE days == WholeDays(s)
           h    == HoursIn(s)
           m    == MinutesIn(s)
           r    == SecondsIn(s)
           raw  == EtimeOf(s)
<1>1. s \in Nat /\ days <= MAX_PLAUSIBLE_ETIME_DAYS BY DEF Plausible, WholeDays
<1>2. days \in Nat /\ h \in TwoDigits /\ m \in TwoDigits /\ r \in TwoDigits
      /\ WholeOf(days, h, m, r) = s
  BY <1>1, PartsOfElapsed
<1>3. raw = [days |-> IF days = 0 THEN -1 ELSE days,
             parts |-> IF days = 0 /\ h = 0 THEN <<m, r>> ELSE <<h>> \o <<m, r>>]
  BY SMT DEF EtimeOf, WholeDays, HoursIn, MinutesIn, SecondsIn
<1> HIDE DEF raw, days, h, m, r
<1>5. raw.days = (IF days = 0 THEN -1 ELSE days)
      /\ raw.parts = IF days = 0 /\ h = 0 THEN <<m, r>> ELSE <<h>> \o <<m, r>>
  BY <1>3, SMT
<1> HIDE DEF raw
<1> DEFINE d == IF raw.days = -1 THEN 0 ELSE raw.days
<1>6. d = days BY <1>2, <1>5, SMT
<1>7. CASE days = 0 /\ h = 0
  <2>1. raw.parts = <<m, r>> BY <1>5, <1>7
  <2>2. Len(raw.parts) = 2 /\ DOMAIN raw.parts = 1 .. 2 /\ raw.parts[1] = m /\ raw.parts[2] = r BY <2>1
  <2>3. SubSeq(raw.parts, 1, 2)[1] = m /\ SubSeq(raw.parts, 1, 2)[2] = r BY <2>1, SMT
  <2>4. SubSeq(raw.parts, Len(raw.parts) - 1, Len(raw.parts)) = SubSeq(raw.parts, 1, 2)
        /\ Len(raw.parts) # 3 /\ 1 .. 2 = {1, 2}
    BY <2>2, SMT
  <2>5. \A i \in DOMAIN raw.parts : raw.parts[i] \in TwoDigits BY <1>2, <2>2, <2>4
  <2>6. parseEtime(raw) = {WholeOf(days, 0, SubSeq(raw.parts, 1, 2)[1], SubSeq(raw.parts, 1, 2)[2])}
    <3>1. IsRead(raw, days, 0, SubSeq(raw.parts, 1, 2)) BY <1>1, <1>6, <2>2, <2>4, <2>5 DEF IsRead
    <3> QED BY <3>1, ParsedAs
  <2> QED BY <1>2, <1>7, <2>3, <2>6 DEF raw
<1>8. CASE ~(days = 0 /\ h = 0)
  <2>1. raw.parts = <<h>> \o <<m, r>> BY <1>5, <1>8
  <2>2. Len(raw.parts) = 3 /\ DOMAIN raw.parts = 1 .. 3
        /\ raw.parts[1] = h /\ raw.parts[2] = m /\ raw.parts[3] = r /\ Head(raw.parts) = h
        /\ SubSeq(raw.parts, 2, 3)[1] = m /\ SubSeq(raw.parts, 2, 3)[2] = r
    BY <2>1, ThreeParts
  <2>4. SubSeq(raw.parts, Len(raw.parts) - 1, Len(raw.parts)) = SubSeq(raw.parts, 2, 3)
        /\ 1 .. 3 = {1, 2, 3}
    BY <2>2, SMT
  <2>5. \A i \in DOMAIN raw.parts : raw.parts[i] \in TwoDigits BY <1>2, <2>2, <2>4
  <2>6. parseEtime(raw) = {WholeOf(days, h, SubSeq(raw.parts, 2, 3)[1], SubSeq(raw.parts, 2, 3)[2])}
    <3>1. IsRead(raw, days, h, SubSeq(raw.parts, 2, 3)) BY <1>1, <1>6, <2>2, <2>4, <2>5 DEF IsRead
    <3> QED BY <3>1, ParsedAs
  <2> QED BY <1>2, <2>2, <2>6 DEF raw
<1> QED BY <1>7, <1>8 DEF raw

(* The three parsers, for every text of a "text" behaviour.                 *)
LEMMA AllTextsAreUnderstood ==
  ASSUME op = "text" => text \in Texts
  PROVE  TextsAreUnderstood
<1> SUFFICES ASSUME op = "text" PROVE TextsAreUnderstood BY DEF TextsAreUnderstood
<1>1. \/ text.form = "row" /\ text.raw \in Rows
      \/ text.form = "stat" /\ text.name \in Seq(Tokens) /\ text.ticks \in Nat
      \/ text.form = "etime" /\ Plausible(text.elapsed)
  BY TextsAssumption, SMT DEF Plausible
<1>2. CASE text.form = "row" /\ text.raw \in Rows
  BY <1>2, RowsAreUnderstood DEF TextsAreUnderstood
<1>3. CASE text.form = "stat" /\ text.name \in Seq(Tokens) /\ text.ticks \in Nat
  BY <1>3, StatsAreUnderstood DEF TextsAreUnderstood
<1>4. CASE text.form = "etime" /\ Plausible(text.elapsed)
  BY <1>4, ElapsedIsUnderstood DEF TextsAreUnderstood
<1> QED BY <1>1, <1>2, <1>3, <1>4

-----------------------------------------------------------------------------
(* The observers, step by step.                                             *)

(* Math.min of two and of three.                                            *)
LEMMA EarliestOfTwo ==
  ASSUME NEW x \in Int, NEW y \in Int
  PROVE  AtMost({x, y}) \in {x, y} /\ AtMost({x, y}) <= x /\ AtMost({x, y}) <= y
<1> DEFINE b == IF x <= y THEN x ELSE y
<1>1. b \in {x, y} /\ \A other \in {x, y} : b <= other BY SMT
<1>2. AtMost({x, y}) \in {x, y} /\ \A other \in {x, y} : AtMost({x, y}) <= other
  BY <1>1 DEF AtMost
<1> QED BY <1>2, SMT

LEMMA EarliestOfThree ==
  ASSUME NEW x \in Int, NEW y \in Int, NEW z \in Int
  PROVE  LET m == AtMost({x, y} \cup {z})
         IN  m \in {x, y, z} /\ m \in Int /\ m <= x /\ m <= y /\ m <= z
<1> DEFINE b == IF x <= y /\ x <= z THEN x ELSE IF y <= z THEN y ELSE z
           s == {x, y} \cup {z}
<1>1. b \in s /\ \A other \in s : b <= other BY SMT
<1>2. AtMost(s) \in s /\ \A other \in s : AtMost(s) <= other BY <1>1 DEF AtMost
<1> QED BY <1>2, SMT

(* The bounds are numbers of milliseconds.                                  *)
LEMMA Times ==
  /\ ReadTimeout \in Nat \ {0} /\ RetryBound \in Nat \ {0} /\ PollInterval \in Nat \ {0}
  /\ PgrepTimeout \in Nat \ {0} /\ ConfirmTimeout \in Nat \ {0} /\ SettleGrace \in Nat /\ MaxLife \in Nat
BY TimesAssumption

(* A row of a process that was there is read as its start; no other is read. *)
LEMMA StartIsRead ==
  ASSUME NEW p \in Pids, NEW l \in Nat
  PROVE  parsePidLstartRow(RowOf(p, StartedAt(l))) = {[pid |-> p, start |-> StartedAt(l)]}
<1>1. p \in Nat \ {0} BY PidsAssumption
<1>2. 59 + l \div 86400 \in Nat /\ l % 86400 \in Nat /\ OfADay(l % 86400)
  <2>1. l \div 86400 \in Nat /\ l % 86400 \in Nat /\ l % 86400 < 86400 BY ByDays, SMT
  <2> QED BY <2>1, SMT DEF OfADay
<1> DEFINE day == 59 + l \div 86400
           sec == l % 86400
<1>3. StartedAt(l) = [day |-> day, sec |-> sec] BY SMT DEF StartedAt
<1> HIDE DEF day, sec
<1>4. day \in Nat /\ sec \in Nat /\ OfADay(sec) BY <1>2, SMT DEF day, sec
<1>5. parsePidLstartRow(RowOf(p, [day |-> day, sec |-> sec]))
        = {[pid |-> p, start |-> [day |-> day, sec |-> sec]]}
  BY <1>1, <1>4, MomentReadBack
<1> QED BY <1>3, <1>5

(* A row of a reply is of an asked pid whose process was there.             *)
LEMMA RowsWereThere ==
  ASSUME held \subseteq Pids \X Nat, NEW reply, reply.kind = "output", PsIsTrue(reply),
         NEW row \in parseLstartBatchOutput(reply.lines)
  PROVE  row.pid \in call.asked /\ WasThere(row)
<1>1. PICK line \in reply.lines : row \in parsePidLstartRow(line) BY DEF parseLstartBatchOutput
<1>2. PICK h \in held : /\ h[1] \in call.asked
                        /\ line \in {RowOf(h[1], StartedAt(h[2])), Garbled(RowOf(h[1], StartedAt(h[2])))}
  BY <1>1 DEF PsIsTrue
<1>3. h[1] \in Pids /\ h[2] \in Nat BY <1>2
<1>4. line = RowOf(h[1], StartedAt(h[2])) BY <1>1, <1>2, GarbledIsNotRead
<1>5. row = [pid |-> h[1], start |-> StartedAt(h[2])] BY <1>1, <1>3, <1>4, StartIsRead
<1>6. row.pid = h[1] /\ row.start = StartedAt(h[2]) BY <1>5
<1> QED BY <1>2, <1>6 DEF WasThere

(* Nothing was asked yet.                                                   *)
LEMMA ObsInitially == ObsInit => ObsInv
<1> SUFFICES ASSUME ObsInit PROVE ObsInv OBVIOUS
<1>1. /\ op \in {"batch", "confirm", "gate", "atOnce", "text"} /\ (op = "text" => text \in Texts)
      /\ life \in [Pids -> Nat] /\ now = 0 /\ phase = "top" /\ remaining = Pids /\ foundRows = {}
      /\ retryUntil = 0 /\ listed = {} /\ call = None
  BY SMT DEF ObsInit
<1>2. ObsTypes BY <1>1, SMT DEF ObsTypes
<1>3. WhatWasThere
  <2>1. /\ held = {<<p, life[p]>> : p \in {q \in Pids : Lives(q)}}
        /\ absent = {p \in Pids : ~Lives(p)} /\ bare = (absent = Pids)
    BY DEF ObsInit
  <2>2. held \subseteq Pids \X Nat BY <1>1, <2>1
  <2>3. \A p \in Pids : IF Lives(p) THEN <<p, life[p]>> \in held ELSE p \in absent BY <2>1
  <2>4. Present(Pids) = {} => bare BY <2>1 DEF Present
  <2> QED BY <2>2, <2>3, <2>4 DEF WhatWasThere
<1>4. CallsAreBounded BY <1>1, Times, SMT DEF CallsAreBounded
<1>5. BatchKnows BY <1>1 DEF BatchKnows
<1>6. RepliesAreTrue BY <1>1 DEF RepliesAreTrue
<1>7. ObservationsHold
  <2>1. EndsInTime BY <1>1, Times, SMT DEF EndsInTime
  <2> QED BY <1>1, <2>1 DEF ObservationsHold, BatchKeepsWhatItRead, VerdictsWereTrueOnce
<1> QED BY <1>2, <1>3, <1>4, <1>5, <1>6, <1>7 DEF ObsInv

(* Before a call is over only the clock can go wrong.                       *)
LEMMA HoldsBeforeTheEnd ==
  ASSUME phase # "over", EndsInTime
  PROVE  ObservationsHold
BY DEF ObservationsHold, BatchKeepsWhatItRead, VerdictsWereTrueOnce

(* A process starts or ends: the history only grows.                        *)
LEMMA LifeTurnsKeeps == ASSUME ObsInv, NEW p \in Pids, LifeTurns(p) PROVE ObsInv'
<1>1. /\ phase # "over" /\ op # "text" /\ life' = [life EXCEPT ![p] = @ + 1]
      /\ held' = held \cup {<<q, life'[q]>> : q \in {q \in Pids : life'[q] % 2 = 1}}
      /\ absent' = absent \cup {q \in Pids : life'[q] % 2 = 0}
      /\ bare' = (bare \/ \A q \in Pids : life'[q] % 2 = 0)
      /\ UNCHANGED <<op, text, now, phase, remaining, foundRows, retryUntil, call, result, listed>>
  BY DEF LifeTurns
<1>2. ObsTypes /\ WhatWasThere /\ CallsAreBounded /\ BatchKnows /\ RepliesAreTrue /\ EndsInTime
  BY DEF ObsInv, ObservationsHold
<1>3. life' \in [Pids -> Nat] BY <1>1, <1>2, SMT DEF ObsTypes
<1>4. ObsTypes' BY <1>1, <1>2, <1>3 DEF ObsTypes
<1>5. held \subseteq held' /\ absent \subseteq absent' /\ (bare => bare') BY <1>1
<1>6. WhatWasThere'
  <2>1. \A q \in Pids : life'[q] % 2 = 1 \/ life'[q] % 2 = 0 BY <1>3, SMT
  <2>2. held' \subseteq Pids \X Nat BY <1>1, <1>2, <1>3 DEF WhatWasThere
  <2>3. \A q \in Pids : IF Lives(q)' THEN <<q, life'[q]>> \in held' ELSE q \in absent'
    BY <1>1, <2>1 DEF Lives
  <2>4. Present(Pids)' = {} => bare' BY <1>1, <2>1 DEF Present, Lives
  <2> QED BY <2>2, <2>3, <2>4 DEF WhatWasThere
<1>7. CallsAreBounded' BY <1>1, <1>2 DEF CallsAreBounded, Allowance
<1>8. BatchKnows' BY <1>1, <1>2, <1>5 DEF BatchKnows, WasThere
<1>9. RepliesAreTrue'
  <2>1. ASSUME NEW r, PsIsTrue(r) PROVE PsIsTrue(r)' BY <1>1, <1>5, <2>1 DEF PsIsTrue
  <2>2. ASSUME NEW r, PgrepIsTrue(r) PROVE PgrepIsTrue(r)' BY <1>1, <1>5, <2>2 DEF PgrepIsTrue
  <2>3. ASSUME NEW r, ProcIsTrue(r) PROVE ProcIsTrue(r)' BY <1>1, <1>5, <2>3 DEF ProcIsTrue
  <2> QED BY <1>1, <1>2, <2>1, <2>2, <2>3 DEF RepliesAreTrue
<1>10. ObservationsHold'
  <2>1. EndsInTime' BY <1>1, <1>2 DEF EndsInTime
  <2> QED BY <1>1, <2>1 DEF ObservationsHold, BatchKeepsWhatItRead, VerdictsWereTrueOnce
<1> QED BY <1>4, <1>6, <1>7, <1>8, <1>9, <1>10 DEF ObsInv

(* What every step of an observer leaves alone.                             *)
LEMMA HistoryStays ==
  ASSUME WhatWasThere, UNCHANGED <<life, held, absent, bare>>
  PROVE  WhatWasThere'
BY DEF WhatWasThere, Lives, Present

LEMMA TypesStay ==
  ASSUME ObsTypes, UNCHANGED <<op, text, life, now, remaining, retryUntil>>,
         phase' \in {"top", "reading", "asleep", "over"}
  PROVE  ObsTypes'
BY DEF ObsTypes

(* Time passes, never beyond the bound of the call.                         *)
LEMMA TickKeeps == ASSUME ObsInv, Tick PROVE ObsInv'
<1>1. /\ phase \in {"reading", "asleep"} /\ now < call.until /\ now' = now + 1
      /\ UNCHANGED <<op, text, life, phase, remaining, foundRows, retryUntil, call, result,
                     held, absent, bare, listed>>
  BY DEF Tick
<1>2. ObsTypes /\ WhatWasThere /\ CallsAreBounded /\ BatchKnows /\ RepliesAreTrue
  BY DEF ObsInv
<1>3. now \in Nat /\ call.until \in Nat /\ call.until <= Allowance
  BY <1>1, <1>2 DEF ObsTypes, CallsAreBounded
<1>4. now' \in Nat /\ now' <= call.until BY <1>1, <1>3, SMT
<1>5. ObsTypes' BY <1>1, <1>2, <1>4 DEF ObsTypes
<1>6. WhatWasThere' BY <1>1, <1>2, HistoryStays
<1>7. CallsAreBounded'
  <2>1. phase # "top" BY <1>1
  <2> QED BY <1>1, <1>2, <1>4, <2>1 DEF CallsAreBounded, Allowance
<1>8. BatchKnows' BY <1>1, <1>2 DEF BatchKnows, WasThere
<1>9. RepliesAreTrue' BY <1>1, <1>2 DEF RepliesAreTrue, PsIsTrue, PgrepIsTrue, ProcIsTrue
<1>10. ObservationsHold'
  <2>1. now' <= Allowance
    <3>1. Allowance \in Nat BY Times, SMT DEF Allowance
    <3> QED BY <1>3, <1>4, <3>1, SMT
  <2>2. EndsInTime' BY <1>1, <2>1, SMT DEF EndsInTime, Allowance
  <2>3. phase' # "over" BY <1>1
  <2> QED BY <2>2, <2>3 DEF ObservationsHold, BatchKeepsWhatItRead, VerdictsWereTrueOnce
<1> QED BY <1>5, <1>6, <1>7, <1>8, <1>9, <1>10 DEF ObsInv

(* Whatever an observer may answer is of this moment.                       *)
LEMMA RepliesThatMayCome ==
  ASSUME ObsTypes, WhatWasThere, BatchKnows, NEW r \in Replies, phase = "reading",
         op \in {"batch", "confirm", "gate"}, op = "gate" => \E p \in Pids : call.asked = {p}
  PROVE  CASE op = "batch"   -> PsIsTrue(r)
           [] op = "confirm" -> PgrepIsTrue(r)
           [] op = "gate"    -> ProcIsTrue(r)
<1>1. CASE r \in Failures
  <2>1. r.kind = "killed" \/ (r.kind = "error" /\ r.code = "EACCES") BY <1>1 DEF Failures
  <2> QED BY <2>1 DEF PsIsTrue, PgrepIsTrue, ProcIsTrue
<1>2. CASE op = "batch" /\ r \in PsReplies(call.asked)
  <2>1. call.asked \subseteq Pids BY <1>2 DEF BatchKnows, ObsTypes
  <2>2. \A p \in Present(call.asked) : <<p, life[p]>> \in held BY <2>1 DEF Present, WhatWasThere
  <2>3. CASE r = [kind |-> "exit1"] BY <1>2, <2>3 DEF PsIsTrue
  <2>4. ASSUME NEW bad \in SUBSET Present(call.asked),
               r = [kind |-> "output",
                    lines |-> {LET row == RowOf(p, StartedAt(life[p]))
                               IN  IF p \in bad THEN Garbled(row) ELSE row : p \in Present(call.asked)}]
        PROVE  PsIsTrue(r)
    <3>1. r.kind = "output" BY <2>4
    <3>2. ASSUME NEW line \in r.lines
          PROVE  \E h \in held :
                   h[1] \in call.asked
                     /\ line \in {RowOf(h[1], StartedAt(h[2])), Garbled(RowOf(h[1], StartedAt(h[2])))}
      <4>1. PICK p \in Present(call.asked) :
              line = IF p \in bad THEN Garbled(RowOf(p, StartedAt(life[p])))
                     ELSE RowOf(p, StartedAt(life[p]))
        BY <2>4, <3>2
      <4>2. <<p, life[p]>> \in held /\ p \in call.asked BY <2>2, <4>1 DEF Present
      <4> DEFINE h == <<p, life[p]>>
      <4>3. h[1] = p /\ h[2] = life[p] OBVIOUS
      <4> HIDE DEF h
      <4>4. line \in {RowOf(h[1], StartedAt(h[2])), Garbled(RowOf(h[1], StartedAt(h[2])))}
        BY <4>1, <4>3
      <4> QED BY <4>2, <4>3, <4>4 DEF h
    <3> QED BY <3>1, <3>2 DEF PsIsTrue
  <2> QED BY <1>2, <2>3, <2>4 DEF PsReplies
<1>3. CASE op = "confirm" /\ r \in PgrepReplies
  <2>1. CASE Present(Pids) = {} BY <1>3, <2>1 DEF PgrepReplies, PgrepIsTrue, WhatWasThere
  <2>2. CASE Present(Pids) # {} BY <1>3, <2>2 DEF PgrepReplies, PgrepIsTrue
  <2> QED BY <2>1, <2>2
<1>4. CASE op = "gate" /\ r \in UNION {ProcReplies(p) : p \in call.asked}
  <2>1. PICK p \in Pids : call.asked = {p} BY <1>4
  <2>2. r \in ProcReplies(p) BY <1>4, <2>1
  <2>3. CASE Lives(p)
    <3>1. r = [kind |-> "output", raw |-> StatOf(<<Char("n")>>, life[p])] BY <2>2, <2>3 DEF ProcReplies
    <3>2. <<p, life[p]>> \in held BY <2>3 DEF WhatWasThere
    <3> DEFINE h == <<p, life[p]>>
    <3>3. h[1] = p /\ h[2] = life[p] OBVIOUS
    <3> HIDE DEF h
    <3>4. \E g \in held : g[1] = p /\ r.raw = StatOf(<<Char("n")>>, g[2])
      BY <3>1, <3>2, <3>3 DEF h
    <3>5. ProcIsTrue(r) BY <2>1, <3>1, <3>4 DEF ProcIsTrue
    <3> QED BY <1>4, <3>5
  <2>4. CASE ~Lives(p)
    <3>1. r = [kind |-> "error", code |-> "ENOENT"] BY <2>2, <2>4 DEF ProcReplies
    <3>2. p \in absent BY <2>4 DEF WhatWasThere
    <3>3. ProcIsTrue(r) BY <2>1, <3>1, <3>2 DEF ProcIsTrue
    <3> QED BY <1>4, <3>3
  <2> QED BY <2>3, <2>4
<1> QED BY <1>1, <1>2, <1>3, <1>4 DEF Replies

(* The answer arrives.                                                      *)
LEMMA AnswersKeeps == ASSUME ObsInv, Answers PROVE ObsInv'
<1>1. /\ phase = "reading" /\ call.reply = None
      /\ UNCHANGED <<op, text, life, now, phase, remaining, foundRows, retryUntil, result,
                     held, absent, bare, listed>>
  BY DEF Answers
<1>2. PICK r \in Replies : call' = [call EXCEPT !.reply = r] BY DEF Answers
<1>3. ObsTypes /\ WhatWasThere /\ CallsAreBounded /\ BatchKnows /\ RepliesAreTrue /\ EndsInTime
  BY DEF ObsInv, ObservationsHold
<1>4. op \in {"batch", "confirm", "gate"} /\ (op = "gate" => \E p \in Pids : call.asked = {p})
  BY <1>1, <1>3 DEF RepliesAreTrue
<1>5. call = [asked |-> call.asked, reply |-> call.reply, ownTimeout |-> call.ownTimeout,
              until |-> call.until]
  BY <1>1, <1>3 DEF RepliesAreTrue
<1>6. call' = [asked |-> call.asked, reply |-> r, ownTimeout |-> call.ownTimeout,
               until |-> call.until]
  BY <1>2, <1>5
<1>7. ObsTypes' BY <1>1, <1>3, TypesStay DEF ObsTypes
<1>8. WhatWasThere' BY <1>1, <1>3, HistoryStays
<1>9. CallsAreBounded' BY <1>1, <1>3, <1>6 DEF CallsAreBounded, Allowance
<1>10. BatchKnows' BY <1>1, <1>3, <1>6 DEF BatchKnows, WasThere
<1>11. RepliesAreTrue'
  <2>1. (CASE op = "batch"   -> PsIsTrue(r)
           [] op = "confirm" -> PgrepIsTrue(r)
           [] op = "gate"    -> ProcIsTrue(r))
    BY <1>1, <1>3, <1>4, RepliesThatMayCome
  <2>2. call'.asked = call.asked /\ call'.reply = r /\ call'.ownTimeout = call.ownTimeout
          /\ call'.until = call.until
    BY <1>6
  <2>3. CASE op = "batch"
    <3>1. PsIsTrue(r)' BY <2>1, <2>2, <2>3, <1>1 DEF PsIsTrue
    <3> QED BY <1>1, <1>4, <1>6, <2>2, <2>3, <3>1 DEF RepliesAreTrue
  <2>4. CASE op = "confirm"
    <3>1. PgrepIsTrue(r)' BY <2>1, <2>2, <2>4, <1>1 DEF PgrepIsTrue
    <3> QED BY <1>1, <1>4, <1>6, <2>2, <2>4, <3>1 DEF RepliesAreTrue
  <2>5. CASE op = "gate"
    <3>1. ProcIsTrue(r)' BY <2>1, <2>2, <2>5, <1>1 DEF ProcIsTrue
    <3> QED BY <1>1, <1>4, <1>6, <2>2, <2>5, <3>1 DEF RepliesAreTrue
  <2> QED BY <1>4, <2>3, <2>4, <2>5
<1>12. ObservationsHold'
  <2>1. EndsInTime' BY <1>1, <1>3 DEF EndsInTime
  <2> QED BY <1>1, <2>1 DEF ObservationsHold, BatchKeepsWhatItRead, VerdictsWereTrueOnce
<1> QED BY <1>7, <1>8, <1>9, <1>10, <1>11, <1>12 DEF ObsInv

(* A call begins within its allowance.                                      *)
LEMMA AskKeeps ==
  ASSUME ObsInv, phase = "top", op \in {"batch", "confirm", "gate"},
         NEW asked, NEW timeout \in Nat, NEW grace \in Nat, Ask(asked, timeout, grace),
         op = "batch" => asked = remaining, op = "gate" => \E p \in Pids : asked = {p},
         now + timeout + grace <= Allowance,
         UNCHANGED <<op, text, life, now, remaining, foundRows, retryUntil, result,
                     held, absent, bare, listed>>
  PROVE  ObsInv'
<1>1. /\ call' = [asked |-> asked, reply |-> None, ownTimeout |-> now + timeout,
                  until |-> now + timeout + grace]
      /\ phase' = "reading"
  BY DEF Ask
<1>2. ObsTypes /\ WhatWasThere /\ CallsAreBounded /\ BatchKnows /\ EndsInTime
  BY DEF ObsInv, ObservationsHold
<1>3. ObsTypes' BY <1>1, <1>2, TypesStay
<1>4. WhatWasThere' BY <1>2, HistoryStays
<1>5. CallsAreBounded'
  <2>1. call'.until = now + timeout + grace BY <1>1
  <2>2. now \in Nat BY <1>2 DEF ObsTypes
  <2>3. call'.until \in Nat /\ now <= call'.until /\ call'.until <= Allowance BY <2>1, <2>2, SMT
  <2> QED BY <1>1, <2>3 DEF CallsAreBounded, Allowance
<1>6. BatchKnows' BY <1>1, <1>2 DEF BatchKnows, WasThere
<1>7. RepliesAreTrue' BY <1>1 DEF RepliesAreTrue
<1>8. ObservationsHold'
  <2>1. EndsInTime' BY <1>2 DEF EndsInTime
  <2> QED BY <1>1, <2>1 DEF ObservationsHold, BatchKeepsWhatItRead, VerdictsWereTrueOnce
<1> QED BY <1>3, <1>4, <1>5, <1>6, <1>7, <1>8 DEF ObsInv

(* A call ends: what remains is that its answer is right.                   *)
LEMMA EndKeeps ==
  ASSUME ObsInv, phase' = "over", UNCHANGED <<op, text, life, now, held, absent, bare>>,
         remaining' \subseteq Pids, retryUntil' \in Nat,
         op = "batch" => foundRows' = listed' /\ \A row \in listed' : WasThere(row),
         BatchKeepsWhatItRead', VerdictsWereTrueOnce'
  PROVE  ObsInv'
<1>1. ObsTypes /\ WhatWasThere /\ EndsInTime BY DEF ObsInv, ObservationsHold
<1>2. ObsTypes' BY <1>1 DEF ObsTypes
<1>3. WhatWasThere' BY <1>1, HistoryStays
<1>4. CallsAreBounded' BY DEF CallsAreBounded
<1>5. BatchKnows' BY DEF BatchKnows, WasThere
<1>6. RepliesAreTrue' BY DEF RepliesAreTrue
<1>7. EndsInTime' BY <1>1 DEF EndsInTime
<1> QED BY <1>2, <1>3, <1>4, <1>5, <1>6, <1>7 DEF ObsInv, ObservationsHold

(* A call waits for its next attempt, within its allowance.                 *)
LEMMA SleepKeeps ==
  ASSUME ObsInv, phase' = "asleep", op \in {"batch", "confirm"},
         UNCHANGED <<op, text, life, now, result, held, absent, bare>>,
         remaining' \subseteq Pids, retryUntil' \in Nat,
         call'.until \in Nat, now <= call'.until, call'.until <= Allowance,
         op = "confirm" => call'.until <= ConfirmTimeout,
         op = "batch" => foundRows' = listed' /\ \A row \in listed' : WasThere(row)
  PROVE  ObsInv'
<1>1. ObsTypes /\ WhatWasThere /\ EndsInTime BY DEF ObsInv, ObservationsHold
<1>2. ObsTypes' BY <1>1 DEF ObsTypes
<1>3. WhatWasThere' BY <1>1, HistoryStays
<1>4. CallsAreBounded' BY DEF CallsAreBounded, Allowance
<1>5. BatchKnows' BY DEF BatchKnows, WasThere
<1>6. RepliesAreTrue' BY DEF RepliesAreTrue
<1>7. ObservationsHold'
  <2>1. EndsInTime' BY <1>1 DEF EndsInTime
  <2> QED BY <2>1 DEF ObservationsHold, BatchKeepsWhatItRead, VerdictsWereTrueOnce
<1> QED BY <1>2, <1>3, <1>4, <1>5, <1>6, <1>7 DEF ObsInv

(* The next attempt is due.                                                 *)
LEMMA WakesKeeps == ASSUME ObsInv, Wakes PROVE ObsInv'
<1>1. /\ phase = "asleep" /\ now = call.until /\ phase' = "top"
      /\ UNCHANGED <<op, text, life, now, remaining, foundRows, retryUntil, call, result,
                     held, absent, bare, listed>>
  BY DEF Wakes
<1>2. ObsTypes /\ WhatWasThere /\ CallsAreBounded /\ BatchKnows /\ EndsInTime
  BY DEF ObsInv, ObservationsHold
<1>3. ObsTypes' BY <1>1, <1>2, TypesStay
<1>4. WhatWasThere' BY <1>1, <1>2, HistoryStays
<1>5. CallsAreBounded'
  <2>1. op \in {"batch", "confirm"} /\ (op = "confirm" => now <= ConfirmTimeout)
    BY <1>1, <1>2 DEF CallsAreBounded
  <2> QED BY <1>1, <2>1 DEF CallsAreBounded
<1>6. BatchKnows' BY <1>1, <1>2 DEF BatchKnows, WasThere
<1>7. RepliesAreTrue' BY <1>1 DEF RepliesAreTrue
<1>8. ObservationsHold'
  <2>1. EndsInTime' BY <1>1, <1>2 DEF EndsInTime
  <2> QED BY <1>1, <2>1 DEF ObservationsHold, BatchKeepsWhatItRead, VerdictsWereTrueOnce
<1> QED BY <1>3, <1>4, <1>5, <1>6, <1>7, <1>8 DEF ObsInv

(* The batch asks, or gives up with what it has.                            *)
LEMMA BatchTopKeeps == ASSUME ObsInv, BatchTop PROVE ObsInv'
<1>1. /\ op = "batch" /\ phase = "top"
      /\ UNCHANGED <<op, text, life, now, remaining, foundRows, retryUntil, held, absent, bare, listed>>
  BY DEF BatchTop
<1>2. ObsTypes /\ BatchKnows BY DEF ObsInv
<1>3. foundRows = listed /\ \A row \in listed : WasThere(row) BY <1>1, <1>2 DEF BatchKnows
<1>4. now \in Nat /\ remaining \subseteq Pids /\ retryUntil \in Nat BY <1>2 DEF ObsTypes
<1>5. CASE Over([status |-> "ok", rows |-> foundRows])
  <2>1. phase' = "over" /\ result'.status = "ok" /\ result'.rows = foundRows BY <1>5 DEF Over
  <2>2. BatchKeepsWhatItRead' BY <1>1, <1>3, <2>1 DEF BatchKeepsWhatItRead, WasThere
  <2>3. VerdictsWereTrueOnce' BY <1>1 DEF VerdictsWereTrueOnce
  <2> QED BY <1>1, <1>3, <1>4, <2>1, <2>2, <2>3, EndKeeps
<1>6. CASE /\ ~(AggregateLeft <= SettleGrace)
           /\ Ask(remaining, EffectiveTimeout, SettleGrace) /\ result' = result
  <2>1. AggregateLeft \in Int /\ SettleGrace \in Nat /\ ReadTimeout \in Nat BY <1>4, Times, SMT DEF AggregateLeft
  <2>2. AggregateLeft - SettleGrace \in Nat BY <1>6, <2>1, SMT
  <2>3. EffectiveTimeout \in {ReadTimeout, AggregateLeft - SettleGrace}
          /\ EffectiveTimeout <= AggregateLeft - SettleGrace
    <3> DEFINE x == ReadTimeout
               y == AggregateLeft - SettleGrace
    <3>1. x \in Int /\ y \in Int BY <2>1, <2>2, SMT
    <3> HIDE DEF x, y
    <3>2. AtMost({x, y}) \in {x, y} /\ AtMost({x, y}) <= y
      BY <3>1, EarliestOfTwo
    <3> QED BY <3>2 DEF x, y, EffectiveTimeout
  <2>4. EffectiveTimeout \in Nat BY <2>1, <2>2, <2>3, SMT
  <2>5. now + EffectiveTimeout + SettleGrace <= Allowance
    BY <1>1, <1>4, <2>1, <2>3, <2>4, SMT DEF AggregateLeft, Allowance
  <2> QED BY <1>1, <1>6, <2>1, <2>4, <2>5, AskKeeps
<1> QED BY <1>5, <1>6 DEF BatchTop

(* A failed attempt undoes nothing.                                         *)
LEMMA BatchFailsKeeps ==
  ASSUME ObsInv, op = "batch", NEW reply, BatchFails(reply),
         UNCHANGED <<op, text, life, now, held, absent, bare>>
  PROVE  ObsInv'
<1>1. /\ Over(IF foundRows = {} THEN Failure(reply.kind # "error")
              ELSE [status |-> "ok", rows |-> foundRows])
      /\ UNCHANGED <<remaining, foundRows, retryUntil, call, listed>>
  BY DEF BatchFails
<1>2. ObsTypes /\ BatchKnows BY DEF ObsInv
<1>3. foundRows = listed /\ \A row \in listed : WasThere(row) BY <1>2 DEF BatchKnows
<1>4. remaining' \subseteq Pids /\ retryUntil' \in Nat BY <1>1, <1>2 DEF ObsTypes
<1>5. phase' = "over" BY <1>1 DEF Over
<1>6. BatchKeepsWhatItRead'
  <2>1. CASE foundRows = {}
    <3>1. result'.status = "observer-failure" BY <1>1, <2>1 DEF Over, Failure
    <3> QED BY <1>1, <1>3, <2>1, <3>1 DEF BatchKeepsWhatItRead
  <2>2. CASE foundRows # {}
    <3>1. result'.status = "ok" /\ result'.rows = foundRows BY <1>1, <2>2 DEF Over
    <3> QED BY <1>1, <1>3, <3>1 DEF BatchKeepsWhatItRead, WasThere
  <2> QED BY <2>1, <2>2
<1>7. VerdictsWereTrueOnce' BY DEF VerdictsWereTrueOnce
<1> QED BY <1>1, <1>3, <1>4, <1>5, <1>6, <1>7, EndKeeps

(* The rows of an attempt are added, and no other is asked for.             *)
LEMMA BatchListedKeeps ==
  ASSUME ObsInv, op = "batch", NEW reply, BatchListed(reply), PsIsTrue(reply), call.asked = remaining,
         UNCHANGED <<op, text, life, now, held, absent, bare>>
  PROVE  ObsInv'
<1> DEFINE rows  == IF reply.kind = "exit1" THEN {} ELSE parseLstartBatchOutput(reply.lines)
           newly == {row \in rows : row.pid \in remaining}
           until == IF retryUntil = 0 THEN now + RetryBound ELSE retryUntil
           left  == {until - now, AggregateLeft}
           missing == remaining \ {row.pid : row \in newly}
<1>1. /\ reply.kind \in {"output", "exit1"}
      /\ listed' = listed \cup rows
      /\ foundRows' = foundRows \cup newly
      /\ \/ missing = {} /\ Over(BatchOver) /\ UNCHANGED <<remaining, retryUntil, call>>
         \/ /\ remaining' = missing /\ retryUntil' = until
            /\ \/ Over(BatchOver)
               \/ /\ ~(\E b \in left : b <= 0)
                  /\ phase' = "asleep" /\ result' = result
                  /\ call' = [until |-> now + AtMost(left \cup {PollInterval})]
  BY DEF BatchListed
<1>2. ObsTypes /\ WhatWasThere /\ BatchKnows BY DEF ObsInv
<1>3. now \in Nat /\ remaining \subseteq Pids /\ retryUntil \in Nat BY <1>2 DEF ObsTypes
<1>4. \A row \in rows : row.pid \in remaining /\ WasThere(row)
  <2>1. CASE reply.kind = "exit1" BY <2>1
  <2>2. CASE reply.kind = "output"
    <3>1. \A row \in parseLstartBatchOutput(reply.lines) : row.pid \in call.asked /\ WasThere(row)
      BY <1>2, <2>2, RowsWereThere DEF WhatWasThere
    <3> QED BY <2>2, <3>1
  <2> QED BY <1>1, <2>1, <2>2
<1>5. newly = rows BY <1>4
<1>6. foundRows' = listed' /\ \A row \in listed' : WasThere(row) BY <1>1, <1>2, <1>4, <1>5 DEF BatchKnows
<1>7. missing \subseteq Pids BY <1>3
<1>8. until \in Nat BY <1>3, Times, SMT
<1> HIDE DEF rows, newly, until, missing
<1>9. remaining' \subseteq Pids /\ retryUntil' \in Nat BY <1>1, <1>3, <1>7, <1>8
<1>10. CASE Over(BatchOver)
  <2>1. phase' = "over" /\ result'.status = "ok" /\ result'.rows = foundRows' BY <1>10 DEF Over, BatchOver
  <2>2. BatchKeepsWhatItRead' BY <1>6, <2>1 DEF BatchKeepsWhatItRead, WasThere
  <2>3. VerdictsWereTrueOnce' BY DEF VerdictsWereTrueOnce
  <2> QED BY <1>6, <1>9, <2>1, <2>2, <2>3, EndKeeps
<1>11. CASE /\ ~(\E b \in left : b <= 0)
            /\ phase' = "asleep" /\ result' = result
            /\ call' = [until |-> now + AtMost(left \cup {PollInterval})]
  <2>1. AggregateLeft \in Int /\ until - now \in Int /\ PollInterval \in Int
    BY <1>3, <1>8, Times, SMT DEF AggregateLeft
  <2>2. AggregateLeft > 0 /\ until - now > 0 BY <1>11, <2>1, SMT
  <2>3. LET m == AtMost(left \cup {PollInterval})
        IN  m \in {until - now, AggregateLeft, PollInterval} /\ m \in Int /\ m <= AggregateLeft
    <3> DEFINE x == until - now
               y == AggregateLeft
               z == PollInterval
    <3>1. x \in Int /\ y \in Int /\ z \in Int BY <2>1
    <3> HIDE DEF x, y, z
    <3>2. LET m == AtMost({x, y} \cup {z})
          IN  m \in {x, y, z} /\ m \in Int /\ m <= x /\ m <= y /\ m <= z
      BY <3>1, EarliestOfThree
    <3> QED BY <3>2 DEF x, y, z
  <2> DEFINE m == AtMost(left \cup {PollInterval})
  <2>4. m \in Nat /\ m <= AggregateLeft BY <2>1, <2>2, <2>3, Times, SMT
  <2>5. call'.until = now + m BY <1>11
  <2> HIDE DEF m
  <2>6. call'.until \in Nat /\ now <= call'.until /\ call'.until <= Allowance
    BY <1>3, <2>1, <2>4, <2>5, Times, SMT DEF AggregateLeft, Allowance
  <2> QED BY <1>6, <1>9, <1>11, <2>6, SleepKeeps
<1> QED BY <1>1, <1>10, <1>11

(* The attempt of a batch has an outcome.                                   *)
LEMMA BatchSettlesKeeps == ASSUME ObsInv, BatchSettles PROVE ObsInv'
<1>1. op = "batch" /\ UNCHANGED <<op, text, life, now, held, absent, bare>> BY DEF BatchSettles
<1>2. PICK reply \in Settled : BatchFails(reply) \/ BatchListed(reply) BY DEF BatchSettles
<1>3. phase = "reading" /\ ((reply = call.reply /\ reply # None) \/ reply = [kind |-> "bound"])
  BY <1>2 DEF Settled
<1>4. call.asked = remaining /\ (call.reply = None \/ PsIsTrue(call.reply))
  BY <1>1, <1>3 DEF ObsInv, BatchKnows, RepliesAreTrue
<1>5. CASE BatchFails(reply) BY <1>1, <1>5, BatchFailsKeeps
<1>6. CASE BatchListed(reply)
  <2>1. reply.kind # "bound" BY <1>6 DEF BatchListed
  <2>2. PsIsTrue(reply) BY <1>3, <1>4, <2>1
  <2> QED BY <1>1, <1>4, <1>6, <2>2, BatchListedKeeps
<1> QED BY <1>2, <1>5, <1>6

(* pgrep is asked again.                                                    *)
LEMMA ConfirmAsksKeeps == ASSUME ObsInv, ConfirmAsks PROVE ObsInv'
<1>1. /\ op = "confirm" /\ phase = "top" /\ Ask(Pids, PgrepTimeout, SettleGrace)
      /\ UNCHANGED <<op, text, life, now, remaining, foundRows, retryUntil, result, held, absent,
                     bare, listed>>
  BY DEF ConfirmAsks
<1>2. now \in Nat /\ now <= ConfirmTimeout BY <1>1 DEF ObsInv, ObsTypes, CallsAreBounded
<1>3. now + PgrepTimeout + SettleGrace <= Allowance BY <1>1, <1>2, Times, SMT DEF Allowance
<1>4. PgrepTimeout \in Nat /\ SettleGrace \in Nat BY Times
<1> QED BY <1>1, <1>3, <1>4, AskKeeps

(* The group is gone, time is up, or pgrep is asked again.                  *)
LEMMA ConfirmSettlesKeeps == ASSUME ObsInv, ConfirmSettles PROVE ObsInv'
<1>1. /\ op = "confirm"
      /\ UNCHANGED <<op, text, life, now, remaining, foundRows, retryUntil, held, absent, bare,
                     listed>>
  BY DEF ConfirmSettles
<1>2. PICK reply \in Settled :
          \/ ~SeesSomebody(reply) /\ Over([dead |-> TRUE])
          \/ Over([dead |-> FALSE])
          \/ /\ ~(now >= ConfirmTimeout)
             /\ phase' = "asleep" /\ result' = result
             /\ call' = [until |-> now + AtMost({PollInterval, ConfirmTimeout - now})]
  BY DEF ConfirmSettles
<1>3. ObsTypes /\ RepliesAreTrue /\ WhatWasThere BY DEF ObsInv
<1>4. phase = "reading" /\ ((reply = call.reply /\ reply # None) \/ reply = [kind |-> "bound"])
  BY <1>2 DEF Settled
<1>5. call.reply = None \/ PgrepIsTrue(call.reply) BY <1>1, <1>3, <1>4 DEF RepliesAreTrue
<1>6. now \in Nat /\ remaining' \subseteq Pids /\ retryUntil' \in Nat BY <1>1, <1>3 DEF ObsTypes
<1>7. BatchKeepsWhatItRead' BY <1>1 DEF BatchKeepsWhatItRead
<1>8. CASE ~SeesSomebody(reply) /\ Over([dead |-> TRUE])
  <2>1. reply # [kind |-> "bound"] BY <1>8 DEF SeesSomebody
  <2>2. bare BY <1>4, <1>5, <1>8, <2>1 DEF PgrepIsTrue, SeesSomebody
  <2>3. phase' = "over" /\ VerdictsWereTrueOnce' BY <1>1, <1>8, <2>2 DEF Over, VerdictsWereTrueOnce
  <2> QED BY <1>1, <1>6, <1>7, <2>3, EndKeeps
<1>9. CASE Over([dead |-> FALSE])
  <2>1. phase' = "over" /\ result'.dead = FALSE BY <1>9 DEF Over
  <2>2. VerdictsWereTrueOnce' BY <1>1, <2>1 DEF VerdictsWereTrueOnce
  <2> QED BY <1>1, <1>6, <1>7, <2>1, <2>2, EndKeeps
<1>10. CASE /\ ~(now >= ConfirmTimeout)
            /\ phase' = "asleep" /\ result' = result
            /\ call' = [until |-> now + AtMost({PollInterval, ConfirmTimeout - now})]
  <2> DEFINE x == PollInterval
             y == ConfirmTimeout - now
             m == AtMost({x, y})
  <2>1. x \in Int /\ y \in Int /\ x >= 0 /\ y >= 0 BY <1>6, <1>10, Times, SMT
  <2>2. call'.until = now + m BY <1>10
  <2>3. m \in {x, y} /\ m <= y
    <3> HIDE DEF x, y
    <3> QED BY <2>1, EarliestOfTwo
  <2>4. m \in Nat /\ m <= ConfirmTimeout - now
    <3> HIDE DEF m
    <3> QED BY <2>1, <2>3, SMT
  <2> HIDE DEF m
  <2>5. /\ call'.until \in Nat /\ now <= call'.until /\ call'.until <= Allowance
        /\ call'.until <= ConfirmTimeout
    BY <1>1, <1>6, <2>2, <2>4, Times, SMT DEF Allowance
  <2> QED BY <1>1, <1>6, <1>10, <2>5, SleepKeeps
<1> QED BY <1>2, <1>8, <1>9, <1>10

(* The gate reads one line of /proc.                                        *)
LEMMA GateAsksKeeps == ASSUME ObsInv, GateAsks PROVE ObsInv'
<1>1. /\ op = "gate" /\ phase = "top"
      /\ UNCHANGED <<op, text, life, now, remaining, foundRows, retryUntil, result, held, absent,
                     bare, listed>>
  BY DEF GateAsks
<1>2. PICK p \in Pids : Ask({p}, ReadTimeout, 0) BY DEF GateAsks
<1>3. now = 0 BY <1>1 DEF ObsInv, CallsAreBounded
<1>4. now + ReadTimeout + 0 <= Allowance BY <1>1, <1>3, Times, SMT DEF Allowance
<1>5. ReadTimeout \in Nat /\ 0 \in Nat BY Times
<1> QED BY <1>1, <1>2, <1>4, <1>5, AskKeeps

(* The name a job runs under does not move the ticks.                       *)
LEMMA TicksAreRead ==
  ASSUME NEW l \in Nat
  PROVE  interpretProcStatOutput(StatOf(<<Char("n")>>, l)) = [status |-> "found", value |-> Numeral(l)]
<1> DEFINE name == <<Char("n")>>
<1>1. name \in Seq({Char("n")}) OBVIOUS
<1> HIDE DEF name
<1>2. parseLinuxStatStartTimeTicks(StatOf(name, l)) = {Numeral(l)} BY <1>1, StatsAreUnderstood
<1>3. interpretProcStatOutput(StatOf(name, l)) = [status |-> "found", value |-> Numeral(l)]
  BY <1>2 DEF interpretProcStatOutput, FoundOr
<1> QED BY <1>3 DEF name

(* The verdict on the one pid.                                              *)
LEMMA GateSettlesKeeps == ASSUME ObsInv, GateSettles PROVE ObsInv'
<1>1. /\ op = "gate"
      /\ UNCHANGED <<op, text, life, now, remaining, foundRows, retryUntil, call, held, absent,
                     bare, listed>>
  BY DEF GateSettles
<1>2. PICK reply \in Settled : Over(GateOf(readLinuxStartTimeTicks(reply))) BY DEF GateSettles
<1>3. ObsTypes /\ RepliesAreTrue /\ WhatWasThere BY DEF ObsInv
<1>4. phase = "reading" /\ ((reply = call.reply /\ reply # None) \/ reply = [kind |-> "bound"])
  BY <1>2 DEF Settled
<1>5. call.reply = None \/ ProcIsTrue(call.reply) BY <1>1, <1>3, <1>4 DEF RepliesAreTrue
<1>6. PICK p \in Pids : call.asked = {p} BY <1>1, <1>3, <1>4 DEF RepliesAreTrue
<1>7. phase' = "over" /\ result' = GateOf(readLinuxStartTimeTicks(reply)) BY <1>2 DEF Over
<1>8. remaining' \subseteq Pids /\ retryUntil' \in Nat BY <1>1, <1>3 DEF ObsTypes
<1>9. BatchKeepsWhatItRead' BY <1>1 DEF BatchKeepsWhatItRead
<1>10. /\ result'.action = "skip" => p \in absent
       /\ result'.action = "refuse" => \E h \in held : h[1] = p /\ h[2] # birthIdentity
       /\ result'.action = "proceed" /\ result'.confirmed => <<p, birthIdentity>> \in held
  <2>1. CASE reply.kind \in {"killed", "bound"}
    <3>1. readLinuxStartTimeTicks(reply) = Failure(TRUE) BY <2>1 DEF readLinuxStartTimeTicks
    <3>2. GateOf(Failure(TRUE)) = [action |-> "proceed", confirmed |-> FALSE] BY DEF GateOf, Failure
    <3>3. result' = [action |-> "proceed", confirmed |-> FALSE] BY <1>7, <3>1, <3>2
    <3>4. result'.action = "proceed" /\ result'.confirmed = FALSE BY <3>3
    <3> QED BY <3>4
  <2>2. CASE reply.kind = "error" /\ reply.code # "ENOENT"
    <3>1. readLinuxStartTimeTicks(reply) = Failure(FALSE)
      BY <2>2 DEF readLinuxStartTimeTicks, classifyProcStatReadFailure
    <3>2. GateOf(Failure(FALSE)) = [action |-> "proceed", confirmed |-> FALSE] BY DEF GateOf, Failure
    <3>3. result' = [action |-> "proceed", confirmed |-> FALSE] BY <1>7, <3>1, <3>2
    <3>4. result'.action = "proceed" /\ result'.confirmed = FALSE BY <3>3
    <3> QED BY <3>4
  <2>3. CASE reply.kind = "error" /\ reply.code = "ENOENT"
    <3>1. ProcIsTrue(reply) BY <1>4, <1>5, <2>3
    <3>2. p \in absent BY <1>6, <2>3, <3>1 DEF ProcIsTrue
    <3>3. readLinuxStartTimeTicks(reply) = NotFound
      BY <2>3 DEF readLinuxStartTimeTicks, classifyProcStatReadFailure
    <3>4. GateOf(NotFound) = [action |-> "skip"] BY DEF GateOf, NotFound
    <3> QED BY <1>7, <3>2, <3>3, <3>4
  <2>4. CASE reply.kind = "output"
    <3>1. ProcIsTrue(reply) BY <1>4, <1>5, <2>4
    <3>2. PICK h \in held : h[1] = p /\ reply.raw = StatOf(<<Char("n")>>, h[2])
      BY <1>6, <2>4, <3>1 DEF ProcIsTrue
    <3>3. h = <<p, h[2]>> /\ h[2] \in Nat BY <1>3, <3>2 DEF WhatWasThere
    <3>4. readLinuxStartTimeTicks(reply) = [status |-> "found", value |-> Numeral(h[2])]
      BY <2>4, <3>2, <3>3, TicksAreRead DEF readLinuxStartTimeTicks
    <3>5. Numeral(h[2]) = Numeral(birthIdentity) <=> h[2] = birthIdentity
      <4>1. \A m : Numeral(m).digits = m BY DEF Numeral
      <4> QED BY <4>1
    <3>6. result' = IF h[2] = birthIdentity THEN [action |-> "proceed", confirmed |-> TRUE]
                    ELSE [action |-> "refuse"]
      BY <1>7, <3>4, <3>5 DEF GateOf
    <3>7. CASE h[2] = birthIdentity
      <4>1. result'.action = "proceed" BY <3>6, <3>7
      <4>2. <<p, birthIdentity>> \in held BY <3>3, <3>7
      <4> QED BY <4>1, <4>2
    <3>8. CASE h[2] # birthIdentity
      <4>1. result'.action = "refuse" BY <3>6, <3>8
      <4> QED BY <3>2, <3>8, <4>1
    <3> QED BY <3>7, <3>8
  <2>5. reply.kind \in {"killed", "bound", "error", "output"} BY <1>4, <1>5 DEF ProcIsTrue
  <2> QED BY <2>1, <2>2, <2>3, <2>4, <2>5
<1>11. VerdictsWereTrueOnce' BY <1>1, <1>6, <1>10 DEF VerdictsWereTrueOnce
<1> QED BY <1>1, <1>7, <1>8, <1>9, <1>11, EndKeeps

(* The readers that block answer of the moment they were asked.             *)
LEMMA AskAtOnceKeeps == ASSUME ObsInv, AskAtOnce PROVE ObsInv'
<1>1. /\ op = "atOnce" /\ phase = "top"
      /\ UNCHANGED <<op, text, life, now, remaining, foundRows, retryUntil, call, held, absent,
                     bare, listed>>
  BY DEF AskAtOnce
<1>2. ObsTypes /\ WhatWasThere BY DEF ObsInv
<1>3. remaining' \subseteq Pids /\ retryUntil' \in Nat BY <1>1, <1>2 DEF ObsTypes
<1>4. BatchKeepsWhatItRead' BY <1>1 DEF BatchKeepsWhatItRead
<1>5. \A r \in Failures : r.kind = "error" /\ r.code = "EACCES" BY <1>1 DEF Failures
<1>6. PICK p \in Pids : captureBirthIdentityPosix(p) \/ hasLiveProcessGroupMembersPosix(p)
  BY DEF AskAtOnce
<1>7. CASE captureBirthIdentityPosix(p)
  <2>0. PICK platform \in {"linux", "darwin"} :
          \E reply \in Failures \cup IF platform = "linux" THEN ProcReplies(p) ELSE EtimeReplies(p) :
            Over([pid |-> p, observed |-> BirthIdentity(platform, reply), live |-> TRUE])
    BY <1>7 DEF captureBirthIdentityPosix
  <2>1. PICK reply \in Failures \cup IF platform = "linux" THEN ProcReplies(p) ELSE EtimeReplies(p) :
          Over([pid |-> p, observed |-> BirthIdentity(platform, reply), live |-> TRUE])
    BY <2>0
  <2> DEFINE seen == IF platform = "linux" THEN readLinuxStartTimeTicks(reply)
                     ELSE readProcessElapsedSeconds(reply)
  <2>2. BirthIdentity(platform, reply) = <<platform, seen>> BY DEF BirthIdentity
  <2>3. phase' = "over" /\ result'.pid = p /\ result'.observed = <<platform, seen>> /\ result'.live = TRUE
    BY <2>1, <2>2 DEF Over
  <2>4. (seen.status = "found" => Lives(p)) /\ (seen.status = "not-found" => ~Lives(p))
    <3>1. CASE reply \in Failures
      <4>1. reply.kind = "error" /\ reply.code = "EACCES" BY <1>5, <3>1
      <4>2. seen = Failure(FALSE)
        BY <4>1 DEF readLinuxStartTimeTicks, readProcessElapsedSeconds, classifyProcStatReadFailure
      <4>3. Failure(FALSE).status = "observer-failure" BY DEF Failure
      <4> QED BY <4>2, <4>3
    <3>2. CASE Lives(p) /\ reply \notin Failures
      <4>1. reply.kind = "output" BY <2>1, <3>2 DEF ProcReplies, EtimeReplies
      <4>2. \A x : FoundOr(x).status \in {"observer-failure", "found"} BY DEF FoundOr, Failure
      <4>3. seen.status \in {"observer-failure", "found"}
        BY <4>1, <4>2 DEF readLinuxStartTimeTicks, readProcessElapsedSeconds, interpretPsOutput,
                          interpretProcStatOutput, Failure
      <4> QED BY <3>2, <4>3
    <3>3. CASE ~Lives(p) /\ reply \notin Failures
      <4>1. CASE platform = "linux"
        <5>1. reply.kind = "error" /\ reply.code = "ENOENT" BY <2>1, <3>3, <4>1 DEF ProcReplies
        <5>2. seen = NotFound BY <4>1, <5>1 DEF readLinuxStartTimeTicks, classifyProcStatReadFailure
        <5> QED BY <3>3, <5>2 DEF NotFound
      <4>2. CASE platform # "linux"
        <5>1. reply.kind = "exit1" BY <2>1, <3>3, <4>2 DEF EtimeReplies
        <5>2. seen = NotFound BY <4>2, <5>1 DEF readProcessElapsedSeconds
        <5> QED BY <3>3, <5>2 DEF NotFound
      <4> QED BY <4>1, <4>2
    <3> QED BY <3>1, <3>2, <3>3
  <2>5. result'.observed[2] = seen BY <2>3
  <2> HIDE DEF seen
  <2>6. Lives(p)' <=> Lives(p) BY <1>1 DEF Lives
  <2>7. VerdictsWereTrueOnce' BY <1>1, <2>3, <2>4, <2>5, <2>6 DEF VerdictsWereTrueOnce, Lives
  <2> QED BY <1>1, <1>3, <1>4, <2>3, <2>7, EndKeeps
<1>8. CASE hasLiveProcessGroupMembersPosix(p)
  <2>1. PICK reply \in PgrepReplies \cup Failures :
          Over([pid |-> p, observed |-> <<"none", Failure(FALSE)>>, live |-> SeesSomebody(reply)])
    BY <1>8 DEF hasLiveProcessGroupMembersPosix
  <2>2. phase' = "over" /\ result'.observed[2] = Failure(FALSE) /\ result'.live = SeesSomebody(reply)
    BY <2>1 DEF Over
  <2>3. ~SeesSomebody(reply) => bare
    <3>1. CASE reply \in Failures BY <1>5, <3>1 DEF SeesSomebody
    <3>2. CASE reply \in PgrepReplies
      <4>1. CASE Present(Pids) = {} BY <1>2, <4>1 DEF WhatWasThere
      <4>2. CASE Present(Pids) # {} BY <3>2, <4>2 DEF PgrepReplies, SeesSomebody
      <4> QED BY <4>1, <4>2
    <3> QED BY <2>1, <3>1, <3>2
  <2>4. Failure(FALSE).status = "observer-failure" BY DEF Failure
  <2>5. VerdictsWereTrueOnce' BY <1>1, <2>2, <2>3, <2>4 DEF VerdictsWereTrueOnce
  <2> QED BY <1>1, <1>3, <1>4, <2>2, <2>5, EndKeeps
<1> QED BY <1>6, <1>7, <1>8

(* Nothing happens.                                                         *)
LEMMA ObsStutters == ASSUME ObsInv, UNCHANGED obsVars PROVE ObsInv'
<1>1. UNCHANGED <<op, text, life, now, phase, remaining, foundRows, retryUntil, call, result,
                  held, absent, bare, listed>>
  BY DEF obsVars
<1>2. ObsTypes /\ WhatWasThere /\ CallsAreBounded /\ BatchKnows /\ RepliesAreTrue /\ ObservationsHold
  BY DEF ObsInv
<1>3. ObsTypes' BY <1>1, <1>2 DEF ObsTypes
<1>4. WhatWasThere' BY <1>1, <1>2, HistoryStays
<1>5. CallsAreBounded' BY <1>1, <1>2 DEF CallsAreBounded, Allowance
<1>6. BatchKnows' BY <1>1, <1>2 DEF BatchKnows, WasThere
<1>7. RepliesAreTrue' BY <1>1, <1>2 DEF RepliesAreTrue, PsIsTrue, PgrepIsTrue, ProcIsTrue
<1>8. ObservationsHold'
  BY <1>1, <1>2 DEF ObservationsHold, BatchKeepsWhatItRead, VerdictsWereTrueOnce, EndsInTime, Lives
<1> QED BY <1>3, <1>4, <1>5, <1>6, <1>7, <1>8 DEF ObsInv

(* While an observer is asked and its processes come and go, its call keeps *)
(* within its bounds and what it has been told was true at some moment of   *)
(* the call.                                                                *)
THEOREM ObserversInvariance == ObsSpec => []ObsInv
<1>1. ObsInit => ObsInv BY ObsInitially
<1>2. ObsInv /\ [ObsNext]_obsVars => ObsInv'
  <2> SUFFICES ASSUME ObsInv, [ObsNext]_obsVars PROVE ObsInv' OBVIOUS
  <2>1. ASSUME NEW p \in Pids, LifeTurns(p) PROVE ObsInv' BY <2>1, LifeTurnsKeeps
  <2>2. CASE Tick BY <2>2, TickKeeps
  <2>3. CASE Answers BY <2>3, AnswersKeeps
  <2>4. CASE Wakes BY <2>4, WakesKeeps
  <2>5. CASE BatchTop BY <2>5, BatchTopKeeps
  <2>6. CASE BatchSettles BY <2>6, BatchSettlesKeeps
  <2>7. CASE ConfirmAsks BY <2>7, ConfirmAsksKeeps
  <2>8. CASE ConfirmSettles BY <2>8, ConfirmSettlesKeeps
  <2>9. CASE GateAsks BY <2>9, GateAsksKeeps
  <2>10. CASE GateSettles BY <2>10, GateSettlesKeeps
  <2>11. CASE AskAtOnce BY <2>11, AskAtOnceKeeps
  <2>12. CASE UNCHANGED obsVars BY <2>12, ObsStutters
  <2> QED BY <2>1, <2>2, <2>3, <2>4, <2>5, <2>6, <2>7, <2>8, <2>9, <2>10, <2>11, <2>12 DEF ObsNext
<1> QED BY <1>1, <1>2, PTL DEF ObsSpec

(* ObserversAreRight, for any pids, any bounds and any texts: no start time *)
(* a process did not have, no verdict that was never true, no read past its *)
(* allowance (readPidStartTimesBatchPosix, confirmProcessGroupReapedPosix,  *)
(* checkProcessIdentity), and every text read as what it was printed from.  *)
THEOREM ObserversStayRight == ObsSpec => []ObserversAreRight
<1>1. ObsInv => ObserversAreRight
  <2> SUFFICES ASSUME ObsInv PROVE ObserversAreRight OBVIOUS
  <2>1. op = "text" => text \in Texts BY DEF ObsInv, ObsTypes
  <2>2. TextsAreUnderstood BY <2>1, AllTextsAreUnderstood
  <2> QED BY <2>2 DEF ObsInv, ObserversAreRight
<1> QED BY <1>1, ObserversInvariance, PTL

=============================================================================
