---------------------------- MODULE ExternalWake ----------------------------
(***************************************************************************)
(* The detector of dogfood-external-wake.mjs: a poll-loop in a process      *)
(* group of its own, which starts a checker again and again until it        *)
(* reports that the watched state is terminal, and the controller that      *)
(* reads the loop's one line, attempts the wake and reaps the loop.         *)
(*                                                                         *)
(* The line and the loop's exit reach the controller in either order: each  *)
(* has its own flag, printed/lineSeen and gone/exitSeen.                    *)
(***************************************************************************)

VARIABLES
  watched,         \* "pending" or "terminal": the state outside
  loop,            \* the poll-loop: "checking", "sleeping", "reporting", "gone"
  checker,         \* its child: "none", "running", "hung"
  deaf,            \* whether the checkers ignore SIGTERM
  report,          \* what the loop found: "none", "fired", "failed"
  printed,         \* whether its line is in the pipe
  lineSeen, exitSeen,
  killedOutside,   \* someone else killed the loop
  outcomeDeciding, settled,
  result,          \* what finish() was called with
  reap,            \* killAndReapGroup: "none", "natural", "term", "kill", "done"
  externalAttempt, \* selectAndWake: "none", "inFlight", "ended", "threw"
  stopCalled,
  settledOutcome   \* what the promise resolved to

loopVars == <<watched, loop, checker, deaf, report, printed, killedOutside>>
controllerVars ==
  <<lineSeen, exitSeen, outcomeDeciding, settled, result, reap, externalAttempt, stopCalled, settledOutcome>>
externalVars == <<loopVars, controllerVars>>

ExternalInit ==
  /\ watched = "pending" /\ deaf \in BOOLEAN
  /\ loop = "checking" /\ checker = "none" /\ report = "none" /\ printed = FALSE /\ killedOutside = FALSE
  /\ lineSeen = FALSE /\ exitSeen = FALSE /\ outcomeDeciding = FALSE /\ settled = FALSE
  /\ result = "none" /\ reap = "none" /\ externalAttempt = "none" /\ stopCalled = FALSE
  /\ settledOutcome = "none"

-----------------------------------------------------------------------------
(* The poll-loop and its checker.                                           *)

BecomesTerminal ==
  /\ watched = "pending" /\ watched' = "terminal"
  /\ UNCHANGED <<loop, checker, deaf, report, printed, killedOutside, controllerVars>>

StartsChecker ==
  /\ loop = "checking" /\ checker = "none" /\ checker' \in {"running", "hung"}
  /\ UNCHANGED <<watched, loop, deaf, report, printed, killedOutside, controllerVars>>

(* Fault: what is neither line is taken for "not yet".                      *)
ClassifyLeniently(answer) == IF answer = "terminal" THEN "fired" ELSE "none"

(* runCheckerOnce, for a checker that could not be started, failed, or      *)
(* printed a terminal line, the pending line, or anything else.             *)
Classify(answer) ==
  CASE answer = "terminal" -> "fired"
    [] answer = "pending"  -> "none"
    [] OTHER -> "failed"

runCheckerOnce ==
  /\ loop = "checking" /\ checker = "running" /\ checker' = "none"
  /\ \E answer \in {watched, "error"} :
       /\ report' = Classify(answer)
       /\ loop' = IF report' = "none" THEN "sleeping" ELSE "reporting"
  /\ UNCHANGED <<watched, deaf, printed, killedOutside, controllerVars>>

SleepEnds ==
  /\ loop = "sleeping" /\ loop' = "checking"
  /\ UNCHANGED <<watched, checker, deaf, report, printed, killedOutside, controllerVars>>

(* The write to a pipe is done when process.exit() is called.               *)
PrintsAndExits ==
  /\ loop = "reporting" /\ loop' = "gone" /\ printed' = TRUE
  /\ UNCHANGED <<watched, checker, deaf, report, killedOutside, controllerVars>>

KilledFromOutside ==
  /\ loop # "gone" /\ loop' = "gone" /\ killedOutside' = TRUE
  /\ UNCHANGED <<watched, checker, deaf, report, printed, controllerVars>>

(* An orphaned checker ends without anyone to read it.                      *)
OrphanEnds ==
  /\ loop = "gone" /\ checker = "running" /\ checker' = "none"
  /\ UNCHANGED <<watched, loop, deaf, report, printed, killedOutside, controllerVars>>

-----------------------------------------------------------------------------
(* The controller.                                                          *)

(* finish(): the first result counts, and a loop known to have exited is    *)
(* not signalled.                                                           *)
finish(r) ==
  /\ settled' = TRUE
  /\ IF settled THEN UNCHANGED <<result, reap>>
     ELSE result' = r /\ reap' = IF exitSeen' THEN "done" ELSE "natural"

(* Fault: only the end of the attempt decides.                              *)
DecidesAtTheEnd == outcomeDeciding' = FALSE

Decides == outcomeDeciding' = TRUE

OnLine ==
  /\ printed /\ ~lineSeen /\ lineSeen' = TRUE /\ UNCHANGED exitSeen
  /\ IF settled \/ outcomeDeciding THEN UNCHANGED <<outcomeDeciding, externalAttempt, settled, result, reap>>
     ELSE /\ Decides
          /\ IF report = "fired"
             THEN externalAttempt' = "inFlight" /\ UNCHANGED <<settled, result, reap>>
             ELSE finish("detectionFailed") /\ UNCHANGED externalAttempt
  /\ UNCHANGED <<loopVars, stopCalled, settledOutcome>>

AttemptEnds ==
  /\ externalAttempt = "inFlight" /\ externalAttempt' \in {"ended", "threw"}
  /\ UNCHANGED exitSeen
  /\ finish(IF externalAttempt' = "ended" THEN "fired" ELSE "detectionFailed")
  /\ UNCHANGED <<loopVars, lineSeen, outcomeDeciding, stopCalled, settledOutcome>>

(* The exit event; a reap that waits for it has its answer.                 *)
OnExit ==
  /\ loop = "gone" /\ ~exitSeen /\ exitSeen' = TRUE
  /\ IF settled THEN /\ reap' = "done"
                     /\ UNCHANGED <<outcomeDeciding, settled, result>>
     ELSE IF outcomeDeciding THEN UNCHANGED <<outcomeDeciding, settled, result, reap>>
     ELSE outcomeDeciding' = TRUE /\ finish("detectionFailed")
  /\ UNCHANGED <<loopVars, lineSeen, externalAttempt, stopCalled, settledOutcome>>

stop ==
  /\ ~stopCalled /\ stopCalled' = TRUE
  /\ UNCHANGED exitSeen /\ finish("stopped")
  /\ UNCHANGED <<loopVars, lineSeen, outcomeDeciding, externalAttempt, settledOutcome>>

(* Nothing in the loop handles SIGTERM; a group that is gone is no error.   *)
trySignalGroup(signal) ==
  /\ loop' = "gone"
  /\ checker' = IF signal = "SIGTERM" /\ deaf THEN checker ELSE "none"

(* A wait of killAndReapGroup runs out.                                     *)
WaitRunsOut ==
  /\ settled /\ ~exitSeen
  /\ \/ reap = "natural" /\ reap' = "term" /\ trySignalGroup("SIGTERM")
     \/ reap = "term" /\ reap' = "kill" /\ trySignalGroup("SIGKILL")
     \/ reap = "kill" /\ reap' = "done" /\ UNCHANGED <<loop, checker>>
  /\ UNCHANGED <<watched, deaf, report, printed, killedOutside, lineSeen, exitSeen, outcomeDeciding,
                 settled, result, externalAttempt, stopCalled, settledOutcome>>

resolveOutcome ==
  /\ reap = "done" /\ settledOutcome = "none" /\ settledOutcome' = result
  /\ UNCHANGED <<loopVars, lineSeen, exitSeen, outcomeDeciding, settled, result, reap, externalAttempt,
                 stopCalled>>

LoopNext ==
  \/ StartsChecker \/ runCheckerOnce \/ SleepEnds \/ PrintsAndExits \/ OrphanEnds
  \/ BecomesTerminal \/ KilledFromOutside

ControllerNext == OnLine \/ AttemptEnds \/ OnExit \/ WaitRunsOut \/ resolveOutcome

ExternalNext == LoopNext \/ ControllerNext \/ stop

(* Processes and the event loop make progress; a checker that hangs does    *)
(* not, and nobody has to call stop() or to finish what is watched.         *)
ExternalFairness ==
  /\ WF_externalVars(StartsChecker) /\ WF_externalVars(runCheckerOnce) /\ WF_externalVars(SleepEnds)
  /\ WF_externalVars(PrintsAndExits) /\ WF_externalVars(OnLine) /\ WF_externalVars(AttemptEnds)
  /\ WF_externalVars(OnExit) /\ WF_externalVars(WaitRunsOut) /\ WF_externalVars(resolveOutcome)

ExternalSpec == ExternalInit /\ [][ExternalNext]_externalVars /\ ExternalFairness

-----------------------------------------------------------------------------

(* The handle's outcome is true: a fire was a terminal state and one wake;  *)
(* a failure was a failed check or wake, a loop somebody killed, or an exit *)
(* that overtook the line; and when it resolves the loop is gone and with   *)
(* it its checker, unless that ignored SIGTERM or lost its loop before.     *)
OutcomesAreTrue ==
  /\ externalAttempt # "none" => watched = "terminal" /\ report = "fired"
  /\ settledOutcome = "fired" => externalAttempt = "ended"
  /\ settledOutcome = "detectionFailed" =>
       \/ report = "failed" \/ killedOutside \/ externalAttempt = "threw"
       \/ exitSeen /\ ~(lineSeen /\ externalAttempt # "none")
  /\ settledOutcome = "stopped" => stopCalled
  /\ settledOutcome # "none" =>
       loop = "gone" /\ (checker = "none" \/ deaf \/ killedOutside)

(* Once the watched state is terminal, or a checker failed, or the caller   *)
(* called stop(), the outcome settles; a checker that hangs can delay it    *)
(* only as long as nobody calls stop().                                     *)
OutcomeSettles ==
  (stopCalled \/ report # "none" \/ (watched = "terminal" /\ checker # "hung"))
    ~> (settledOutcome # "none" \/ (~stopCalled /\ checker = "hung"))

(* "reaps the poll-loop and settles outcome to detectionFailed [...] never  *)
(* indistinguishable from a genuine fire" (lines 404-413): the exit event   *)
(* of a loop that fired may come before its line, and is then reported as a *)
(* failure of the detection.                                                *)
AFireIsNoFailure ==
  settledOutcome = "detectionFailed" /\ report = "fired" => externalAttempt = "threw" \/ killedOutside

=============================================================================
