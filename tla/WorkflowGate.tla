---------------------------- MODULE WorkflowGate ----------------------------
(***************************************************************************)
(* The aggregate job "gate" of .github/workflows/ci.yml, edits of that      *)
(* file, the two static checks an edit has to pass                          *)
(* (verify-workflow-topology.mjs and lint-workflow-jobs.mjs), and what      *)
(* GitHub then makes of the jobs' outcomes.                                 *)
(*                                                                         *)
(* An expression is a tree; its text, which is all that the checks see, is  *)
(* the sequence of its tokens.                                              *)
(***************************************************************************)
EXTENDS Integers, Sequences, FiniteSets, SequencesExt

CONSTANTS
  INDEPENDENT_REQUIRED_JOB_IDS,
  INDEPENDENT_EXPECTED_LEGS,
  FORBIDDEN_JOB_IDS,
  Expressions,     \* bound: what an edit may write into the gate's expression
  Odd,             \* bound: the jobs an edit may add
  OddOS, OddNode,  \* the axes of the expected legs
  MaxEdits         \* bound

VARIABLES
  stage,           \* "editing", "accepted", "rejected", "ran"
  edits,
  jobs,            \* the ids of the jobs, without the gate's
  needs, gateIf,   \* of the gate
  steps,           \* of the gate
  continueOnError, \* by job, and of the gate and its steps
  matrix,          \* of the job "test"
  EXPECTED,        \* EXPECTED_OS and EXPECTED_NODE, which an edit may shrink too
  legsDerived,     \* an edit made INDEPENDENT_EXPECTED_LEGS the product of those two
  outcome,         \* what each job really came to
  gatePassed

workflow == <<jobs, needs, gateIf, steps, continueOnError, matrix, EXPECTED, legsDerived>>
gateVars == <<stage, edits, workflow, outcome, gatePassed>>

-----------------------------------------------------------------------------
(* Expressions, their text and their value.                                 *)

Check(j)   == [op |-> "check", job |-> j]
Literal(b) == [op |-> "literal", value |-> b]
Opaque     == [op |-> "opaque"]               \* any other comparison or call
Quoted     == [op |-> "quoted"]               \* one with a parenthesis in a string
Not(e)     == [op |-> "not", of |-> e]
And(a, b)  == [op |-> "and", parts |-> <<a, b>>]
Or(a, b)   == [op |-> "or", parts |-> <<a, b>>]

Tok(t)     == <<[t |-> t, of |-> ""]>>
Group(ts)  == Tok("(") \o ts \o Tok(")")

RECURSIVE TextOf(_)
TextOf(e) ==
  LET part(i) == IF (e.op = "and" /\ e.parts[i].op = "or") THEN Group(TextOf(e.parts[i]))
                 ELSE TextOf(e.parts[i])
  IN  CASE e.op = "check"   -> <<[t |-> "check", of |-> e.job]>>
        [] e.op = "literal" -> Tok(IF e.value THEN "true" ELSE "false")
        [] e.op = "opaque"  -> Tok("call")
        [] e.op = "quoted"  -> Tok("call") \o Tok(")")
        [] e.op = "not"     -> Tok("!") \o (IF e.of.op \in {"and", "or"} THEN Group(TextOf(e.of))
                                           ELSE TextOf(e.of))
        [] e.op = "and"     -> part(1) \o Tok("&&") \o part(2)
        [] e.op = "or"      -> part(1) \o Tok("||") \o part(2)

(* GitHub's value of an expression, when every opaque part has the value x. *)
RECURSIVE Value(_, _, _)
Value(e, results, x) ==
  CASE e.op = "check"   -> e.job \in needs /\ results[e.job] = "success"
    [] e.op = "literal" -> e.value
    [] e.op \in {"opaque", "quoted"} -> x
    [] e.op = "not"     -> ~Value(e.of, results, x)
    [] e.op = "and"     -> Value(e.parts[1], results, x) /\ Value(e.parts[2], results, x)
    [] e.op = "or"      -> Value(e.parts[1], results, x) \/ Value(e.parts[2], results, x)

-----------------------------------------------------------------------------
(* The parser of verify-workflow-topology.mjs.                              *)

Unknown == [type |-> "unknown"]

Nth(text, t) == Len(SelectSeq(text, LAMBDA tok : tok.t = t))

DepthBefore(text, i) ==
  LET read == SubSeq(text, 1, i - 1) IN Nth(read, "(") - Nth(read, ")")

splitTopLevel(text, operator) ==
  LET cuts == SetToSortSeq({i \in DOMAIN text : text[i].t = operator /\ DepthBefore(text, i) = 0}, <)
      ends == <<0>> \o cuts \o <<Len(text) + 1>>
  IN  [k \in 1 .. Len(ends) - 1 |-> SubSeq(text, ends[k] + 1, ends[k + 1] - 1)]

(* Whether one pair of parentheses is around all of a text.                 *)
Enclosed(text) ==
  /\ Len(text) > 1 /\ text[1].t = "(" /\ text[Len(text)].t = ")"
  /\ DepthBefore(text, Len(text) + 1) = 0
  /\ \A i \in 2 .. Len(text) : DepthBefore(text, i) # 0

parseAtom(text) ==
  CASE Len(text) = 1 /\ text[1].t = "true"  -> [type |-> "literal", value |-> TRUE]
    [] Len(text) = 1 /\ text[1].t = "false" -> [type |-> "literal", value |-> FALSE]
    [] Len(text) = 1 /\ text[1].t = "check" -> [type |-> "successCheck", jobId |-> text[1].of]
    [] OTHER -> Unknown

Looser  == "||"
Tighter == "&&"

RECURSIVE parseExpression(_, _)
parseExpression(text, operators) ==
  IF operators = <<>>
  THEN IF Enclosed(text) THEN parseExpression(SubSeq(text, 2, Len(text) - 1), <<Looser, Tighter>>)
       ELSE parseAtom(text)
  ELSE LET parts == splitTopLevel(text, Head(operators))
       IN  IF Len(parts) = 1 THEN parseExpression(text, Tail(operators))
           ELSE [type |-> Head(operators),
                 children |-> [i \in DOMAIN parts |-> parseExpression(parts[i], Tail(operators))]]

(* Fault: && and || bind alike in the wrong order.                          *)
parseBackwards(text) == parseExpression(text, <<Tighter, Looser>>)

parseControllingExpression(text) == parseExpression(text, <<Looser, Tighter>>)

RECURSIVE containsSuccessCheckForJob(_, _)
containsSuccessCheckForJob(node, j) ==
  CASE node.type = "successCheck" -> node.jobId = j
    [] node.type \in {Looser, Tighter} ->
         \E i \in DOMAIN node.children : containsSuccessCheckForJob(node.children[i], j)
    [] OTHER -> FALSE

(* Three-valued: the check of j is false, and of the others nothing is known*)
RECURSIVE evaluateForcingJobFalse(_, _)
evaluateForcingJobFalse(node, j) ==
  LET values == {evaluateForcingJobFalse(node.children[i], j) : i \in DOMAIN node.children}
  IN  CASE node.type = "literal" -> IF node.value THEN "TRUE" ELSE "FALSE"
        [] node.type = "successCheck" -> IF node.jobId = j THEN "FALSE" ELSE "UNKNOWN"
        [] node.type = "unknown" -> "UNKNOWN"
        [] node.type = Tighter ->
             IF "FALSE" \in values THEN "FALSE" ELSE IF values = {"TRUE"} THEN "TRUE" ELSE "UNKNOWN"
        [] node.type = Looser ->
             IF "TRUE" \in values THEN "TRUE" ELSE IF values = {"FALSE"} THEN "FALSE" ELSE "UNKNOWN"

hasLiteralSuccessCheck(text, j) ==
  LET ast == parseControllingExpression(text)
  IN  containsSuccessCheckForJob(ast, j) /\ evaluateForcingJobFalse(ast, j) = "FALSE"

-----------------------------------------------------------------------------
(* Its checks of the workflow.                                              *)

stepIsUnconditionallyControlling(step) == step.cond \in {"none", "true"}

Controlling(step) == stepIsUnconditionallyControlling(step) /\ step.exits /\ step.reads

(* The expressions of the controlling steps, a newline between them.        *)
collectControllingExpressionText ==
  LET texts == [k \in DOMAIN SelectSeq(steps, Controlling) |-> TextOf(SelectSeq(steps, Controlling)[k].expr)]
  IN  FlattenSeq([k \in DOMAIN texts |-> IF k = 1 THEN texts[k] ELSE Tok("newline") \o texts[k]])

verifyTopology ==
  /\ jobs # {} /\ jobs \subseteq needs /\ gateIf = "always()"
  /\ \A j \in jobs : hasLiteralSuccessCheck(collectControllingExpressionText, j)

verifyIndependentRequiredJobs ==
  \A j \in INDEPENDENT_REQUIRED_JOB_IDS :
    /\ j \in jobs /\ j \in needs
    /\ hasLiteralSuccessCheck(collectControllingExpressionText, j)

-----------------------------------------------------------------------------
(* Those of lint-workflow-jobs.mjs.                                         *)

(* Fault: only the literal true counts.                                     *)
isContinueOnErrorTrue(value) == value = "true"

isContinueOnErrorViolation(value) == value \notin {"absent", "false"}

findContinueOnError == {j \in jobs : isContinueOnErrorViolation(continueOnError[j])}

findGateOwnContinueOnError == {w \in {"gate", "step"} : isContinueOnErrorViolation(continueOnError[w])}

computeMatrixLegs ==
  {leg \in matrix.os \X matrix.node :
     ~ \E x \in matrix.exclude : x.os \in {"any", leg[1]} /\ x.node \in {"any", leg[2]}}

verifyMatrixCompleteness == EXPECTED.os \X EXPECTED.node \subseteq computeMatrixLegs

verifyExpectedAxesNonEmpty == EXPECTED.os # {} /\ EXPECTED.node # {}

IndependentLegs ==
  IF legsDerived THEN EXPECTED.os \X EXPECTED.node ELSE INDEPENDENT_EXPECTED_LEGS

verifyIndependentMatrixLegs == computeMatrixLegs = IndependentLegs

verifyIndependentLegsIsLiteral == ~legsDerived

findForbiddenGovernanceJobs == jobs \cap FORBIDDEN_JOB_IDS

lintWorkflowJobs ==
  /\ findContinueOnError = {} /\ findGateOwnContinueOnError = {}
  /\ verifyExpectedAxesNonEmpty
  /\ "test" \in jobs /\ verifyMatrixCompleteness /\ verifyIndependentMatrixLegs
  /\ verifyIndependentLegsIsLiteral
  /\ findForbiddenGovernanceJobs = {}

-----------------------------------------------------------------------------
(* The workflow as it stands, and its edits.                                *)

RECURSIVE Conjunction(_)
Conjunction(js) ==
  LET j == CHOOSE k \in js : TRUE
  IN  IF js = {j} THEN Check(j) ELSE And(Conjunction(js \ {j}), Check(j))

Step(e) == [cond |-> "none", exits |-> TRUE, reads |-> TRUE, expr |-> e]

GateInit ==
  /\ stage = "editing" /\ edits = 0
  /\ jobs = INDEPENDENT_REQUIRED_JOB_IDS /\ needs = jobs /\ gateIf = "always()"
  /\ steps = <<Step(Conjunction(jobs))>>
  /\ continueOnError = [w \in jobs \cup Odd \cup {"gate", "step"} |-> "absent"]
  /\ matrix = [os |-> OddOS, node |-> OddNode, exclude |-> {}]
  /\ EXPECTED = [os |-> OddOS, node |-> OddNode] /\ legsDerived = FALSE
  /\ outcome = <<>> /\ gatePassed = FALSE

Edits ==
  /\ stage = "editing" /\ edits < MaxEdits /\ edits' = edits + 1
  /\ UNCHANGED <<stage, outcome, gatePassed>>

EditExpression ==
  /\ Edits /\ \E k \in DOMAIN steps, e \in Expressions : steps' = [steps EXCEPT ![k].expr = e]
  /\ UNCHANGED <<jobs, needs, gateIf, continueOnError, matrix, EXPECTED, legsDerived>>

EditStep ==
  /\ Edits
  /\ \E k \in DOMAIN steps :
       \/ \E cond \in {"true", "false", "computed"} : steps' = [steps EXCEPT ![k].cond = cond]
       \/ steps' = [steps EXCEPT ![k].exits = FALSE] \/ steps' = [steps EXCEPT ![k].reads = FALSE]
       \/ Len(steps) = 1 /\ steps' = Append(steps, steps[k])
  /\ UNCHANGED <<jobs, needs, gateIf, continueOnError, matrix, EXPECTED, legsDerived>>

EditGate ==
  /\ Edits
  /\ \/ gateIf' \in {"", "success()"} /\ UNCHANGED needs
     \/ \E j \in needs : needs' = needs \ {j} /\ UNCHANGED gateIf
  /\ UNCHANGED <<jobs, steps, continueOnError, matrix, EXPECTED, legsDerived>>

(* A job comes or goes, with or without its edge and its clause.            *)
EditJobs ==
  /\ Edits
  /\ \/ \E j \in Odd \ jobs : jobs' = jobs \cup {j}
     \/ \E j \in jobs : jobs' = jobs \ {j}
  /\ \/ UNCHANGED <<needs, steps>>
     \/ jobs' # {} /\ needs' = jobs' /\ steps' = <<Step(Conjunction(jobs'))>>
  /\ UNCHANGED <<gateIf, continueOnError, matrix, EXPECTED, legsDerived>>

EditContinueOnError ==
  /\ Edits
  /\ \E w \in DOMAIN continueOnError, v \in {"false", "true", "text"} :
       continueOnError' = [continueOnError EXCEPT ![w] = v]
  /\ UNCHANGED <<jobs, needs, gateIf, steps, matrix, EXPECTED, legsDerived>>

EditMatrix ==
  /\ Edits
  /\ \/ \E os \in SUBSET OddOS : matrix' = [matrix EXCEPT !.os = os] /\ EXPECTED' \in {EXPECTED, [EXPECTED EXCEPT !.os = os]}
     \/ \E node \in SUBSET OddNode : matrix' = [matrix EXCEPT !.node = node] /\ UNCHANGED EXPECTED
     \/ \E os \in OddOS \cup {"any"}, node \in OddNode \cup {"any"} :
          matrix' = [matrix EXCEPT !.exclude = @ \cup {[os |-> os, node |-> node]}] /\ UNCHANGED EXPECTED
  /\ UNCHANGED <<jobs, needs, gateIf, steps, continueOnError, legsDerived>>

(* The literal gives way to a derivation, which lists the same legs.        *)
EditLegs ==
  /\ Edits /\ legsDerived' = TRUE
  /\ UNCHANGED <<jobs, needs, gateIf, steps, continueOnError, matrix, EXPECTED>>

EditAnything ==
  \/ EditExpression \/ EditStep \/ EditGate \/ EditJobs \/ EditContinueOnError
  \/ EditMatrix \/ EditLegs

Verify ==
  /\ stage = "editing"
  /\ stage' = IF verifyTopology /\ verifyIndependentRequiredJobs /\ lintWorkflowJobs
              THEN "accepted" ELSE "rejected"
  /\ UNCHANGED <<edits, workflow, outcome, gatePassed>>

-----------------------------------------------------------------------------
(* GitHub runs the workflow; what continue-on-error masks is reported a     *)
(* success, and a required check that was skipped counts as passed.         *)

Masked(w) == continueOnError[w] \in {"true", "text"}

Passes(results, x) ==
  \/ gateIf # "always()" /\ \E j \in needs : results[j] # "success"
  \/ Masked("gate")
  \/ \A k \in DOMAIN steps :
       \/ steps[k].cond = "false" \/ (steps[k].cond = "computed" /\ x)
       \/ ~(steps[k].exits /\ steps[k].reads) \/ Masked("step")
       \/ Value(steps[k].expr, results, x)

Runs ==
  /\ stage = "accepted" /\ needs \subseteq jobs /\ stage' = "ran"
  /\ outcome' \in [jobs -> {"success", "failure", "skipped"}]
  /\ LET results == [j \in jobs |-> IF outcome'[j] = "failure" /\ Masked(j) THEN "success" ELSE outcome'[j]]
     IN  \E x \in BOOLEAN : gatePassed' = Passes(results, x)
  /\ UNCHANGED <<edits, workflow>>

GateNext == EditAnything \/ Verify \/ Runs

LegsRun ==
  {leg \in matrix.os \X matrix.node :
     \A x \in matrix.exclude : (x.os # "any" /\ x.os # leg[1]) \/ (x.node # "any" /\ x.node # leg[2])}

(* Whatever the edits, if the two scripts let them pass and the gate is     *)
(* green, every required job is there and really succeeded, and so did the  *)
(* tests on every system and every Node version; and the scripts do let the *)
(* workflow pass that nobody edited.                                        *)
GreenMeansGreen ==
  /\ stage = "ran" /\ gatePassed =>
       /\ \A j \in INDEPENDENT_REQUIRED_JOB_IDS : j \in jobs /\ outcome[j] = "success"
       /\ INDEPENDENT_EXPECTED_LEGS \subseteq LegsRun
  /\ stage = "rejected" => edits > 0

=============================================================================
