------------------------------- MODULE MCJobs -------------------------------
(***************************************************************************)
(* A job beside its slot and its record, part by part: the judgement before *)
(* it starts, the observers that are asked about its processes, the gate    *)
(* that marks its end, and the watch that tells a client.  A behaviour is   *)
(* of one of the four, and the others stand where they start.               *)
(***************************************************************************)
EXTENDS RunGate, PidObservation, TerminalMarkGate, TaskWatch

-----------------------------------------------------------------------------
(* What RunGate is checked with.                                           *)

PathAB    == <<[bare |-> FALSE, relative |-> FALSE, path |-> <<<<"b">>>>]>>
ServerCwd == <<<<"a">>>>
ShellPath == <<<<"b">>, <<"s">>>>

Given(chars)  == [Plain EXCEPT !.command = List(<<Text(chars)>>)]
WithPath(m, p) == Object([mode |-> Text(<<m>>), vars |-> Object([PATH |-> Text(p)])])

PlainRequests ==
  {[r EXCEPT !.cwd = c, !.env = e] :
     r \in {Given(<<"a">>), Given(<<"A">>), Given(<<"/", "b", "/", "a">>), Given(<<".", "/", "a">>),
            Given(<<"/", "B", "/", "a">>),
            [Plain EXCEPT !.shell = Flag(TRUE), !.command = Text(<<"a">>)]},
     c \in {Absent} \cup {Text(t) : t \in {<<"/", "a", "b">>, <<"/", "A">>, <<"b">>}},
     e \in {Absent, Object([mode |-> Text(<<"replace">>)])}
           \cup {WithPath("merge", p) : p \in {<<".">>, <<"/", "B">>, <<".", ":", "/", "b">>}}}

MCRequests == PlainRequests \cup OddRequests

Dir(p)     == [at |-> p, is |-> "dir"]
Exec(p)    == [at |-> p, is |-> "exec"]
Link(p, q) == [at |-> p, is |-> "link", to |-> q]

a == <<"a">>
b == <<"b">>
ab == <<"a", "b">>

Tree == {Dir(<<>>), Dir(<<a>>), Dir(<<ab>>), Dir(<<b>>), Exec(<<b, <<"s">>>>),
         Exec(<<ab, a>>), Link(<<a, b>>, <<ab>>)}

(* The program is there, gone, a link elsewhere, or has a namesake that     *)
(* differs in case, in the file's name or in that of the directory above.   *)
MCDisks ==
  {[entries |-> Tree \cup {Exec(<<b, a>>), Link(<<a, a>>, <<b, a>>)}, folds |-> n] : n \in {0, 9}}
  \cup {[entries |-> Tree \cup {Exec(<<b, a>>), Dir(<<<<"B">>>>), Exec(<<<<"B">>, a>>)}, folds |-> 1],
        [entries |-> Tree \cup {Exec(<<a, a>>)}, folds |-> 9],
        [entries |-> Tree \cup {Link(<<b, a>>, <<ab, a>>)}, folds |-> 0],
        [entries |-> Tree \cup {Exec(<<b, a>>), Exec(<<b, <<"A">>>>)}, folds |-> 9]}

Named1(s) == [read |-> "allow", allow |-> {PlaceOf(s)}]

MCPolicies ==
  {Named1(<<"a">>), Named1(<<"/", "b", "/", "A">>), Named1(<<"/", "b", "/", "s">>),
   Named1(<<"a", "/", "a">>), [read |-> "not strings", allow |-> {PlaceOf(<<"a">>)}]}

MCRoots == {{}, {{<<a>>}}, {{<<ab>>, <<<<"x">>>>}}}

-----------------------------------------------------------------------------
(* What PidObservation is checked with.                                    *)

MCRows ==
  {[tokens |-> 6, pid |-> 7, weekday |-> w, month |-> m, day |-> d, hours |-> h,
    minutes |-> mi, seconds |-> s, year |-> y] :
     w \in 0 .. 6, m \in {0, 1, 3, 11}, d \in {0, 1, 28, 29, 30, 31}, h \in {23, 24},
     mi \in {59, 60}, s \in {0, 60}, y \in {70, 1970, 2000, 2026, 2100}}

MCMisshapen ==
  LET good == RowOf(7, [day |-> 20657, sec |-> 5])
  IN  {[good EXCEPT !.tokens = 7], [good EXCEPT !.month = -1], [good EXCEPT !.pid = 0], good}

MCNames == UNION {[1 .. n -> {CloseParen, Space, Numeral(4)}] : n \in 0 .. 3}

MCTexts ==
  {[form |-> "row", raw |-> row] : row \in MCRows \cup MCMisshapen}
    \cup {[form |-> "stat", name |-> name, ticks |-> 42] : name \in MCNames}
    \cup {[form |-> "etime", elapsed |-> s] :
            s \in {0, 59, 60, 3599, 3600, 86399, 86400, 90061, 172800}}

-----------------------------------------------------------------------------
VARIABLE part

allVars == <<part, runVars, obsVars, vars, taskVars>>

AllInit ==
  /\ part \in {"judgement", "observers", "gate", "watch"}
  /\ \/ part = "judgement"
     \/ /\ part # "judgement" /\ args = Plain /\ policy = Named1(<<"a">>) /\ roots = {}
        /\ disk = CHOOSE d \in MCDisks : TRUE
  /\ \/ part = "observers"
     \/ part # "observers" /\ op = "gate" /\ life = [p \in Pids |-> 0]
  /\ GateInit /\ ObsInit /\ Init /\ WatchInit

OfJudgement(A) == part = "judgement" /\ A /\ UNCHANGED <<part, obsVars, vars, taskVars>>
OfObservers(A) == part = "observers" /\ A /\ UNCHANGED <<part, runVars, vars, taskVars>>
OfGate(A)      == part = "gate" /\ A /\ UNCHANGED <<part, runVars, obsVars, taskVars>>
OfWatch(A)     == part = "watch" /\ A /\ UNCHANGED <<part, runVars, obsVars, vars>>

JudgementMoves == OfJudgement(Handle) \/ OfJudgement(Dequeue) \/ OfJudgement(Change)

ObserversMove ==
  \/ \E p \in Pids : OfObservers(LifeTurns(p))
  \/ OfObservers(Tick) \/ OfObservers(Answers) \/ OfObservers(Wakes)
  \/ OfObservers(BatchTop) \/ OfObservers(BatchSettles)
  \/ OfObservers(ConfirmAsks) \/ OfObservers(ConfirmSettles)
  \/ OfObservers(GateAsks) \/ OfObservers(GateSettles) \/ OfObservers(AskAtOnce)

GateMoves ==
  \/ OfGate(LeaderDies) \/ OfGate(OnExit) \/ OfGate(OnReapSettled) \/ OfGate(CheckPhase)
  \/ \E s \in Streams :
       \/ \E who \in {"leader", "other"} : OfGate(Write(s, who))
       \/ OfGate(Close(s)) \/ OfGate(OnChunk(s)) \/ OfGate(OnEnd(s))

WatchMoves ==
  \/ OfWatch(TimePasses) \/ OfWatch(WindowCloses) \/ OfWatch(FireWake) \/ OfWatch(JobTerminal)
  \/ \E s \in WatchedStreams : OfWatch(LineArrives(s)) \/ OfWatch(LateLine(s))
  \/ \E w \in inFlight : OfWatch(WakeSettles(w))

AllNext == JudgementMoves \/ ObserversMove \/ GateMoves \/ WatchMoves

(* The fairness of TerminalMarkGate and of TaskWatch, for the one that      *)
(* moves.                                                                   *)
AllSpec ==
  /\ AllInit /\ [][AllNext]_allVars
  /\ \A s \in Streams : WF_vars(OfGate(OnChunk(s))) /\ WF_vars(OfGate(OnEnd(s)))
  /\ WF_vars(OfGate(OnExit)) /\ WF_vars(OfGate(OnReapSettled)) /\ WF_vars(OfGate(CheckPhase))
  /\ WF_taskVars(OfWatch(TimePasses)) /\ WF_taskVars(OfWatch(WindowCloses))

-----------------------------------------------------------------------------

(* A request is understood as it was meant, and what starts is what was     *)
(* allowed (see RunGate).                                                   *)
RunsAreJudged == part = "judgement" => ArgumentsAreUnderstood /\ JudgedAsAllowed

(* A death is marked in the end, and what a watch holds back is told (see   *)
(* TerminalMarkGate and TaskWatch).                                         *)
EndsAndLinesGoOut == DeathIsMarked /\ PendingIsFlushed

=============================================================================
