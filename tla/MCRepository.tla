---------------------------- MODULE MCRepository ----------------------------
(***************************************************************************)
(* The repository's own programs, checked side by side: what guards the     *)
(* workflow, what guards the dependencies, the test runner and the sweep of *)
(* its concurrency.  They share nothing, so a behaviour is of one of them,  *)
(* and the others stand where they start.                                   *)
(***************************************************************************)
EXTENDS WorkflowGate, RepositoryVerdicts

-----------------------------------------------------------------------------
(* What WorkflowGate is checked with.                                      *)

Legs == OddOS \X OddNode

Atoms  == {Check("build"), Check("test"), Literal(TRUE), Opaque}
Small  == Atoms \cup {Literal(FALSE), Not(Check("build"))}
Pairs  == {And(a, b) : a \in Small, b \in Small} \cup {Or(a, b) : a \in Small, b \in Small}
Larger == UNION {{And(p, a), Or(p, a), And(a, p), Or(a, p)} : p \in Pairs, a \in Atoms \ {Check("build")}}

(* Everything with up to three parts.                                       *)
MCExpressions == Small \cup Pairs \cup Larger \cup {Not(p) : p \in Pairs}

(* And what has a parenthesis in a string besides.                          *)
WithStrings == Pairs \cup {Or(And(a, Quoted), b) : a \in Atoms, b \in Atoms}

-----------------------------------------------------------------------------
(* What DependencyPins is checked with.                                    *)

MCTriples == (0 .. 1) \X (0 .. 1) \X (0 .. 1)

-----------------------------------------------------------------------------
(* What TestRun is checked with.                                           *)

Flag(f, v) == [flag |-> f, value |-> v]

MCDefaults ==
  [testTimeout |-> 1, idleTimeout |-> 2, wallTimeout |-> 3, leakWindow |-> 1, concurrency |-> 1]

(* No flag, a concurrency of two, an idle bound below a test's (and an      *)
(* unknown flag before it), a flag given twice, and one that is refused.    *)
MCCommandLines ==
  {<<>>, <<Flag("concurrency", 2)>>, <<Flag("unknown", 0), Flag("idleTimeout", 1)>>,
   <<Flag("wallTimeout", 9), Flag("wallTimeout", 2)>>, <<Flag("leakWindow", 0)>>}

MCRepositories == {{}, {"left"}, TestFiles}
MCUnreadable   == {{}, {"right"}, TestFiles}

-----------------------------------------------------------------------------
(* What ConcurrencySweep is checked with.                                  *)

(* In either order, a value twice, and what is refused.                     *)
MCLists == {<<>>, <<1, 0>>, <<1, 2>>, <<3, 2>>, <<2, 2>>}

-----------------------------------------------------------------------------
VARIABLE part

repositoryVars == <<part, gateVars, pinVars, testRunVars, sweepVars>>

Init ==
  /\ part \in {"workflow", "pins", "tests", "sweep"}
  /\ GateInit /\ PinInit /\ TestRunInit /\ SweepInit
  /\ part # "tests" => ~leaked
  /\ part # "sweep" => script = "hosted" /\ values = <<>>

InWorkflow(A) == part = "workflow" /\ A /\ UNCHANGED <<part, pinVars, testRunVars, sweepVars>>
InPins(A)     == part = "pins" /\ A /\ UNCHANGED <<part, gateVars, testRunVars, sweepVars>>
InTests(A)    == part = "tests" /\ A /\ UNCHANGED <<part, gateVars, pinVars, sweepVars>>
InSweep(A)    == part = "sweep" /\ A /\ UNCHANGED <<part, gateVars, pinVars, testRunVars>>

WorkflowMoves ==
  \/ InWorkflow(EditExpression) \/ InWorkflow(EditStep) \/ InWorkflow(EditGate)
  \/ InWorkflow(EditJobs) \/ InWorkflow(EditContinueOnError) \/ InWorkflow(EditMatrix)
  \/ InWorkflow(EditLegs) \/ InWorkflow(Verify) \/ InWorkflow(Runs)

PinsMove ==
  \/ InPins(EditManifest) \/ InPins(EditLockfile) \/ InPins(MoveTogether) \/ InPins(EditSchema)
  \/ InPins(EditPeers) \/ InPins(EditTypescript) \/ InPins(Guard)

TestsMove ==
  \/ InTests(Starts) \/ InTests(BatchEnds) \/ InTests(onIdleTimeout) \/ InTests(onWallTimeout)
  \/ InTests(onPostCompletionLeak) \/ InTests(Drains) \/ InTests(LeakCloses) \/ InTests(Tick)
  \/ \E f \in TestFiles :
       \/ InTests(FileStarts(f)) \/ InTests(FileCompletes(f)) \/ InTests(TestTimesOut(f))
       \/ InTests(FileHangs(f)) \/ InTests(FilePassedOver(f))

SweepMoves ==
  \/ InSweep(BeginsSweep) \/ InSweep(BeginsBatch) \/ InSweep(TestFails) \/ InSweep(Hangs)
  \/ InSweep(StrayEnds) \/ InSweep(SerialBatchEnds) \/ InSweep(RunEnds) \/ InSweep(StreamErrors)
  \/ InSweep(WallCap) \/ InSweep(Reports)

Next == WorkflowMoves \/ PinsMove \/ TestsMove \/ SweepMoves

(* The fairness of TestRun and of ConcurrencySweep, for the one that moves.  *)
Spec ==
  /\ Init /\ [][Next]_repositoryVars
  /\ WF_testRunVars(InTests(Starts)) /\ WF_testRunVars(InTests(BatchEnds))
  /\ WF_testRunVars(InTests(Tick)) /\ WF_testRunVars(InTests(Drains))
  /\ WF_testRunVars(InTests(onIdleTimeout)) /\ WF_testRunVars(InTests(onWallTimeout))
  /\ WF_testRunVars(InTests(onPostCompletionLeak))
  /\ WF_testRunVars(InTests(\E f \in TestFiles : FileStarts(f) \/ TestTimesOut(f)))
  /\ WF_sweepVars(InSweep(BeginsSweep)) /\ WF_sweepVars(InSweep(BeginsBatch))
  /\ WF_sweepVars(InSweep(SerialBatchEnds)) /\ WF_sweepVars(InSweep(RunEnds))
  /\ WF_sweepVars(InSweep(WallCap)) /\ WF_sweepVars(InSweep(Reports))

-----------------------------------------------------------------------------

(* Whatever hangs, a test run comes to an explicit end, and a sweep to its  *)
(* report: RunComesToAnEnd and SweepEnds, of the one that moves.            *)
ProgramsComeToAnEnd ==
  <>(/\ part = "tests" => runStage = "exited" /\ exitCode # "none"
     /\ part = "sweep" => sweepStage \in {"refused", "reported"})

=============================================================================
