------------------------------ MODULE MCWakes -------------------------------
(***************************************************************************)
(* The three ways to a wake, checked side by side: an attempt over the      *)
(* transports, the trigger of the doorbell as it changes hands, and the     *)
(* poll loop of an external checker.  A behaviour is of one of them, and    *)
(* the others stand where they start.                                       *)
(***************************************************************************)
EXTENDS WakeTransports, DoorbellCutover, ExternalWake

VARIABLE part

wakesVars == <<part, vars, doorbellVars, externalVars>>

WakesInit ==
  /\ part \in {"transports", "doorbell", "external"}
  /\ Init /\ DoorbellInit /\ ExternalInit
  /\ part # "transports" => threadId = "absent" /\ gates = {} /\ ~inherited
  /\ part # "external" => ~deaf

ByTransports(A) == part = "transports" /\ A /\ UNCHANGED <<part, doorbellVars, externalVars>>
ByDoorbell(A)   == part = "doorbell" /\ A /\ UNCHANGED <<part, vars, externalVars>>
ByExternal(A)   == part = "external" /\ A /\ UNCHANGED <<part, vars, doorbellVars>>

DispatchesAlone(a) == Dispatch(a) /\ UNCHANGED <<settingVars, child, tracked, serverUp, ipc, sent, woken>>

(* The steps of ghantika's process, while it is there.                      *)
Wakes(A) == ByTransports(serverUp /\ A)

TransportsMove ==
  \/ Wakes(ServerExits)
  \/ \E a \in Attempts :
       \/ Wakes(DispatchesAlone(a)) \/ Wakes(MessagingStarts(a)) \/ Wakes(Spawns(a)) \/ Wakes(SpawnFails(a))
       \/ Wakes(DesktopStarts(a)) \/ Wakes(ConnectTimesOut(a)) \/ Wakes(GraceEnds(a))
       \/ Wakes(TermGraceEnds(a)) \/ Wakes(RequestTimesOut(a)) \/ Wakes(WaitTimesOut(a))
       \/ Wakes(DesktopTimesOut(a)) \/ Wakes(Connects(a)) \/ Wakes(LineWritten(a))
       \/ Wakes(SocketFails(a)) \/ Wakes(SocketCloses(a)) \/ Wakes(ChildExits(a))
       \/ Wakes(DesktopConnects(a))
       \/ \E n \in 1 .. Len(child[a].wire) : Wakes(StdoutData(a, n))
       \/ \E n \in 1 .. Len(ipc[a].wire) : Wakes(DesktopData(a, n))

SessionsMove ==
  \E a \in Attempts :
    \/ ByTransports(AppServerReplies(a)) \/ ByTransports(TurnStarts(a)) \/ ByTransports(TurnCompletes(a))
    \/ ByTransports(OtherThreadStarts(a)) \/ ByTransports(DesktopReplies(a))
    \/ ByTransports(DesktopBroadcasts(a)) \/ ByTransports(KilledChildGoes(a))
    \/ \E transport \in {"messaging", "desktop"} :
         ByTransports(SessionTakesUp(a, transport)) \/ ByTransports(SessionDeclines(a, transport))

DoorbellMoves ==
  \/ ByDoorbell(Cutover) \/ ByDoorbell(ArmSettles) \/ ByDoorbell(AttemptFails)
  \/ ByDoorbell(Tick) \/ ByDoorbell(OnEvent) \/ ByDoorbell(FollowUp) \/ ByDoorbell(CheckFails)
  \/ ByDoorbell(UnseenBefore) \/ ByDoorbell(SendMail) \/ ByDoorbell(StageEnds)
  \/ ByDoorbell(WaitFails) \/ ByDoorbell(ReapAll)

ExternalMoves ==
  \/ ByExternal(StartsChecker) \/ ByExternal(runCheckerOnce) \/ ByExternal(SleepEnds)
  \/ ByExternal(PrintsAndExits) \/ ByExternal(OrphanEnds) \/ ByExternal(BecomesTerminal)
  \/ ByExternal(KilledFromOutside) \/ ByExternal(OnLine) \/ ByExternal(AttemptEnds)
  \/ ByExternal(OnExit) \/ ByExternal(WaitRunsOut) \/ ByExternal(resolveOutcome) \/ ByExternal(stop)

WakesNext == TransportsMove \/ SessionsMove \/ DoorbellMoves \/ ExternalMoves

(* The fairness of WakeTransports, DoorbellCutover and ExternalWake, for    *)
(* the one that moves.                                                      *)
WakesSpec ==
  /\ WakesInit /\ [][WakesNext]_wakesVars
  /\ \A a \in Attempts :
       /\ WF_vars(Wakes(Starts(a))) /\ WF_vars(Wakes(TimersFire(a))) /\ WF_vars(Wakes(LineWritten(a)))
       /\ WF_vars(Wakes(child[a].life = "killed" /\ ChildExits(a)))
       /\ WF_vars(ByTransports(KilledChildGoes(a)))
  /\ WF_doorbellVars(ByDoorbell(Tick)) /\ WF_doorbellVars(ByDoorbell(OnEvent))
  /\ WF_doorbellVars(ByDoorbell(FollowUp)) /\ WF_doorbellVars(ByDoorbell(UnseenBefore))
  /\ WF_externalVars(ByExternal(StartsChecker)) /\ WF_externalVars(ByExternal(runCheckerOnce))
  /\ WF_externalVars(ByExternal(SleepEnds)) /\ WF_externalVars(ByExternal(PrintsAndExits))
  /\ WF_externalVars(ByExternal(OnLine)) /\ WF_externalVars(ByExternal(AttemptEnds))
  /\ WF_externalVars(ByExternal(OnExit)) /\ WF_externalVars(ByExternal(WaitRunsOut))
  /\ WF_externalVars(ByExternal(resolveOutcome))

-----------------------------------------------------------------------------

(* Each of the three comes to its end: attempts and the children they start *)
(* (WakesComeToAnEnd), mails (MailsResume), and the handle of an external   *)
(* checker (OutcomeSettles).                                                *)
EachWakeEnds == WakesComeToAnEnd /\ MailsResume /\ OutcomeSettles

=============================================================================
