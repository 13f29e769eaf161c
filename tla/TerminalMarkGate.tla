-------------------------- MODULE TerminalMarkGate --------------------------
(***************************************************************************)
(* createTerminalMarkGate, which decides when a job that exited is marked   *)
(* terminal: once both of its streams ended, or, when a descendant keeps    *)
(* one open, once the reap has settled and a pass of the event loop brought *)
(* no more output.                                                          *)
(*                                                                         *)
(* owed is the event loop: what was ready when the current poll phase began *)
(* is delivered in it, in any order, before the check phase runs the        *)
(* callback of setImmediate; a delivery reads all that is in the pipe.      *)
(***************************************************************************)
EXTENDS Integers

CONSTANTS
  Streams,
  MaxWrites        \* bound on the writes of the leader and its descendants

ASSUME WritesAssumption == MaxWrites \in Nat
ASSUME StreamsAssumption == "exit" \notin Streams

VARIABLES
  leaderDead,
  unread,          \* who wrote what is in each pipe: a set of "leader", "other"
  closed,          \* streams whose last writer closed them
  writes,
  owed,            \* events ready when this poll phase began, not yet delivered
  exited,          \* exitInfo is set
  ended,           \* stdoutEnded, stderrEnded
  progressed,      \* stdoutProgressed, stderrProgressed
  reapSettled,
  settleCheckScheduled,
  fired,
  marks            \* history: how often fire was called

childVars == <<leaderDead, unread, closed, writes>>
gateVars  == <<exited, ended, progressed, reapSettled, settleCheckScheduled, fired, marks>>
vars      == <<childVars, owed, gateVars>>

Init ==
  /\ leaderDead = FALSE /\ writes = 0
  /\ unread = [s \in Streams |-> {}]
  /\ closed = {} /\ owed = {} /\ ended = {} /\ progressed = {}
  /\ exited = FALSE /\ reapSettled = FALSE
  /\ settleCheckScheduled = FALSE /\ fired = FALSE /\ marks = 0

Ready == {s \in Streams \ ended : unread[s] # {} \/ s \in closed}
         \cup IF leaderDead /\ ~exited THEN {"exit"} ELSE {}

-----------------------------------------------------------------------------
(* The processes.                                                           *)

Write(s, who) ==
  /\ s \notin closed /\ writes < MaxWrites
  /\ who = "leader" => ~leaderDead
  /\ writes' = writes + 1
  /\ unread' = [unread EXCEPT ![s] = @ \cup {who}]
  /\ UNCHANGED <<leaderDead, closed, owed, gateVars>>

Close(s) ==
  /\ s \notin closed
  /\ closed' = closed \cup {s}
  /\ UNCHANGED <<leaderDead, unread, writes, owed, gateVars>>

LeaderDies ==
  /\ ~leaderDead
  /\ leaderDead' = TRUE
  /\ UNCHANGED <<unread, closed, writes, owed, gateVars>>

-----------------------------------------------------------------------------
(* fireOnce, scheduleSettleCheck and evaluate, on the gate as the event     *)
(* that calls them leaves it.                                               *)

Fire(scheduled) ==
  /\ fired' = TRUE /\ marks' = marks + 1
  /\ settleCheckScheduled' = scheduled
  /\ UNCHANGED progressed

Idle(scheduled) ==
  settleCheckScheduled' = scheduled /\ UNCHANGED <<progressed, fired, marks>>

FireOnce(scheduled) == IF fired THEN Idle(scheduled) ELSE Fire(scheduled)

ScheduleSettleCheck(scheduled) ==
  /\ settleCheckScheduled' = TRUE
  /\ progressed' = IF scheduled THEN progressed ELSE {}
  /\ UNCHANGED <<fired, marks>>

(* Fault: a settled reap marks the job at once, with no pass in between.    *)
EvaluateAtOnce(hasExited, end, settled) ==
  CASE fired \/ ~hasExited           -> Idle(settleCheckScheduled)
    [] OTHER -> IF end = Streams \/ settled THEN FireOnce(settleCheckScheduled)
                ELSE Idle(settleCheckScheduled)

Evaluate(hasExited, end, settled) ==
  IF fired \/ ~hasExited THEN Idle(settleCheckScheduled)
  ELSE CASE end = Streams -> FireOnce(settleCheckScheduled)
         [] end # Streams /\ settled -> ScheduleSettleCheck(settleCheckScheduled)
         [] OTHER -> Idle(settleCheckScheduled)

-----------------------------------------------------------------------------
(* The events.                                                              *)

OnExit ==
  /\ "exit" \in owed
  /\ owed' = owed \ {"exit"}
  /\ exited' = TRUE
  /\ Evaluate(TRUE, ended, reapSettled)
  /\ UNCHANGED <<childVars, ended, reapSettled>>

OnChunk(s) ==
  /\ s \in owed /\ unread[s] # {}
  /\ owed' = owed \ {s}
  /\ unread' = [unread EXCEPT ![s] = {}]
  /\ progressed' = progressed \cup {s}
  /\ UNCHANGED <<leaderDead, closed, writes, exited, ended, reapSettled,
                 settleCheckScheduled, fired, marks>>

OnEnd(s) ==
  /\ s \in owed /\ unread[s] = {} /\ s \in closed
  /\ owed' = owed \ {s}
  /\ ended' = ended \cup {s}
  /\ Evaluate(exited, ended', reapSettled)
  /\ UNCHANGED <<childVars, exited, reapSettled>>

(* The reap begins at the exit event; how it settles does not matter here.  *)
OnReapSettled ==
  /\ exited /\ ~reapSettled
  /\ reapSettled' = TRUE
  /\ Evaluate(exited, ended, TRUE)
  /\ UNCHANGED <<childVars, owed, exited, ended>>

(* Fault: the flag is not reset when the check runs.                        *)
SettleCheckLeavesFlag ==
  CASE fired                         -> Idle(TRUE)
    [] ~fired /\ ended = Streams     -> FireOnce(TRUE)
    [] OTHER -> IF progressed \ ended # {} THEN ScheduleSettleCheck(TRUE)
                ELSE FireOnce(TRUE)

(* The callback given to setImmediate.                                      *)
SettleCheck ==
  CASE fired                         -> Idle(FALSE)
    [] ~fired /\ ended = Streams     -> FireOnce(FALSE)
    [] OTHER -> IF progressed \ ended # {} THEN ScheduleSettleCheck(FALSE)
                ELSE FireOnce(FALSE)

(* The check phase, and the next pass begins with what is ready by then.    *)
CheckPhase ==
  /\ owed = {}
  /\ owed' = Ready
  /\ IF settleCheckScheduled THEN SettleCheck
     ELSE UNCHANGED <<progressed, settleCheckScheduled, fired, marks>>
  /\ UNCHANGED <<childVars, exited, ended, reapSettled>>

Next ==
  \/ \E s \in Streams : \/ \E who \in {"leader", "other"} : Write(s, who)
                        \/ Close(s) \/ OnChunk(s) \/ OnEnd(s)
  \/ LeaderDies \/ OnExit \/ OnReapSettled \/ CheckPhase

Spec == Init /\ [][Next]_vars

(* The event loop turns, delivers what is ready, and the reap settles; no   *)
(* process is assumed to close a stream.                                    *)
Fairness ==
  /\ \A s \in Streams : WF_vars(OnChunk(s)) /\ WF_vars(OnEnd(s))
  /\ WF_vars(OnExit) /\ WF_vars(OnReapSettled) /\ WF_vars(CheckPhase)

FairSpec == Spec /\ Fairness

-----------------------------------------------------------------------------
(* The variables hold values of their types.                                *)
TypeOK ==
  /\ {leaderDead, exited, reapSettled, settleCheckScheduled, fired} \subseteq BOOLEAN
  /\ unread \in [Streams -> SUBSET {"leader", "other"}]
  /\ closed \subseteq Streams /\ ended \subseteq Streams /\ progressed \subseteq Streams
  /\ owed \subseteq Streams \cup {"exit"}
  /\ writes \in 0 .. MaxWrites /\ marks \in Nat

(* The gate marks the job once, also when a check it can no longer cancel   *)
(* runs after the two streams ended.                                        *)
MarksOnce == marks <= 1

(* Nothing the command itself wrote is still in a pipe when its job turns   *)
(* terminal, so who sees the terminal state can read the whole output, even *)
(* if the reap settled before the pipes were read.                          *)
OutputPrecedesMark == fired => \A s \in Streams : "leader" \notin unread[s]

(* The job is marked once, and only after the last of its own output.       *)
MarkedOnceAfterOutput == MarksOnce /\ OutputPrecedesMark

(* The leader's death is followed by the terminal mark, whatever keeps the  *)
(* streams open, as long as it does not write for ever.                     *)
DeathIsMarked == leaderDead ~> fired

=============================================================================
