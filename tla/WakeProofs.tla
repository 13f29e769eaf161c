----------------------------- MODULE WakeProofs -----------------------------
(***************************************************************************)
(* Proofs about the three ways to a wake: the handle of an external checker *)
(* (ExternalWake), the handoff of the doorbell's trigger (DoorbellCutover)  *)
(* and an attempt over the transports (WakeTransports).                     *)
(***************************************************************************)
EXTENDS WakeTransports, DoorbellCutover, ExternalWake, TLAPS

-----------------------------------------------------------------------------
(* The external checker.                                                    *)

ExternalTypeOK ==
  /\ watched \in {"pending", "terminal"}
  /\ loop \in {"checking", "sleeping", "reporting", "gone"}
  /\ checker \in {"none", "running", "hung"}
  /\ report \in {"none", "fired", "failed"}
  /\ reap \in {"none", "natural", "term", "kill", "done"}
  /\ externalAttempt \in {"none", "inFlight", "ended", "threw"}
  /\ result \in {"none", "fired", "detectionFailed", "stopped"}
  /\ deaf \in BOOLEAN /\ printed \in BOOLEAN /\ killedOutside \in BOOLEAN
  /\ lineSeen \in BOOLEAN /\ exitSeen \in BOOLEAN /\ outcomeDeciding \in BOOLEAN
  /\ settled \in BOOLEAN /\ stopCalled \in BOOLEAN

(* The loop reports once and is then on its way out, with no checker left   *)
(* but one that ignores SIGTERM or that lost its loop to somebody else.     *)
LoopInv ==
  /\ report = "fired" => watched = "terminal"
  /\ loop = "reporting" \/ printed => report # "none"
  /\ report # "none" => loop \in {"reporting", "gone"}
  /\ printed => loop = "gone"
  /\ loop \in {"sleeping", "reporting"} => checker = "none"
  /\ loop = "gone" => checker = "none" \/ deaf \/ killedOutside

(* What the controller knows is so, and what it decided it decided on that. *)
ControllerInv ==
  /\ lineSeen => printed
  /\ exitSeen => loop = "gone"
  /\ externalAttempt # "none" => report = "fired" /\ lineSeen /\ outcomeDeciding
  /\ settled <=> result # "none"
  /\ settled <=> reap # "none"
  /\ reap \in {"term", "kill", "done"} => loop = "gone"
  /\ settledOutcome # "none" => settledOutcome = result /\ reap = "done"

(* The result of finish() has its reason from the moment it is set.         *)
ResultInv ==
  /\ result = "fired" => externalAttempt = "ended"
  /\ result = "stopped" => stopCalled
  /\ result = "detectionFailed" =>
       \/ report = "failed" \/ killedOutside \/ externalAttempt = "threw"
       \/ exitSeen /\ externalAttempt = "none"

ExternalInv == ExternalTypeOK /\ LoopInv /\ ControllerInv /\ ResultInv

LEMMA ExternalInvInit == ExternalInit => ExternalInv
BY DEF ExternalInit, ExternalInv, ExternalTypeOK, LoopInv, ControllerInv, ResultInv

(* The loop's own steps: the controller's state stands still, and what it   *)
(* relies on stays so.                                                      *)
LEMMA LoopKeeps ==
  ASSUME ExternalInv, LoopNext PROVE ExternalInv'
<1> USE DEF ExternalInv, ExternalTypeOK, controllerVars
<1>1. CASE StartsChecker BY <1>1 DEF StartsChecker, LoopInv, ControllerInv, ResultInv
<1>2. CASE runCheckerOnce
  BY <1>2 DEF runCheckerOnce, Classify, LoopInv, ControllerInv, ResultInv
<1>3. CASE SleepEnds BY <1>3 DEF SleepEnds, LoopInv, ControllerInv, ResultInv
<1>4. CASE PrintsAndExits BY <1>4 DEF PrintsAndExits, LoopInv, ControllerInv, ResultInv
<1>5. CASE OrphanEnds BY <1>5 DEF OrphanEnds, LoopInv, ControllerInv, ResultInv
<1>6. CASE BecomesTerminal BY <1>6 DEF BecomesTerminal, LoopInv, ControllerInv, ResultInv
<1>7. CASE KilledFromOutside
  BY <1>7 DEF KilledFromOutside, LoopInv, ControllerInv, ResultInv
<1> QED BY <1>1, <1>2, <1>3, <1>4, <1>5, <1>6, <1>7 DEF LoopNext

(* The controller's steps, with stop() of its caller: the loop is touched   *)
(* only by the signals of the reap.                                         *)
LEMMA ControllerKeeps ==
  ASSUME ExternalInv, ControllerNext \/ stop PROVE ExternalInv'
<1> USE DEF ExternalInv, ExternalTypeOK, loopVars
<1>1. CASE OnLine
  <2> USE <1>1
  <2>1. /\ printed /\ ~lineSeen /\ lineSeen' = TRUE
        /\ UNCHANGED <<loopVars, exitSeen, stopCalled, settledOutcome>>
    BY DEF OnLine
  <2>2. CASE settled \/ outcomeDeciding
    <3>1. UNCHANGED <<outcomeDeciding, externalAttempt, settled, result, reap>> BY <2>2 DEF OnLine
    <3> QED BY <2>1, <3>1 DEF LoopInv, ControllerInv, ResultInv
  <2>3. CASE ~settled /\ ~outcomeDeciding /\ report = "fired"
    <3>1. outcomeDeciding' = TRUE /\ externalAttempt' = "inFlight" /\ UNCHANGED <<settled, result, reap>>
      BY <2>3 DEF OnLine, Decides
    <3> QED BY <2>1, <2>3, <3>1 DEF LoopInv, ControllerInv, ResultInv
  <2>4. CASE ~settled /\ ~outcomeDeciding /\ report # "fired"
    <3>1. /\ outcomeDeciding' = TRUE /\ externalAttempt' = externalAttempt /\ settled' = TRUE
          /\ result' = "detectionFailed" /\ reap' \in {"done", "natural"}
          /\ reap' = "done" => exitSeen
      BY <2>1, <2>4 DEF OnLine, Decides, finish
    <3>2. report = "failed" BY <2>1, <2>4 DEF LoopInv
    <3> QED BY <2>1, <2>4, <3>1, <3>2 DEF LoopInv, ControllerInv, ResultInv
  <2> QED BY <2>2, <2>3, <2>4
<1>2. CASE AttemptEnds
  BY <1>2 DEF AttemptEnds, finish, LoopInv, ControllerInv, ResultInv
<1>3. CASE OnExit
  <2> USE <1>3
  <2>1. /\ loop = "gone" /\ ~exitSeen /\ exitSeen' = TRUE
        /\ UNCHANGED <<loopVars, lineSeen, externalAttempt, stopCalled, settledOutcome>>
    BY DEF OnExit
  <2>2. CASE settled
    <3>1. reap' = "done" /\ UNCHANGED <<outcomeDeciding, settled, result>> BY <2>2 DEF OnExit
    <3> QED BY <2>1, <2>2, <3>1 DEF LoopInv, ControllerInv, ResultInv
  <2>3. CASE ~settled /\ outcomeDeciding
    <3>1. UNCHANGED <<outcomeDeciding, settled, result, reap>> BY <2>3 DEF OnExit
    <3> QED BY <2>1, <2>3, <3>1 DEF LoopInv, ControllerInv, ResultInv
  <2>4. CASE ~settled /\ ~outcomeDeciding
    <3>1. /\ outcomeDeciding' = TRUE /\ settled' = TRUE
          /\ result' = "detectionFailed" /\ reap' = "done"
      BY <2>1, <2>4 DEF OnExit, finish
    <3> QED BY <2>1, <2>4, <3>1 DEF LoopInv, ControllerInv, ResultInv
  <2> QED BY <2>2, <2>3, <2>4
<1>4. CASE WaitRunsOut
  <2> USE <1>4 DEF WaitRunsOut
  <2>1. CASE reap = "natural"
    <3>1. reap' = "term" /\ trySignalGroup("SIGTERM") BY <2>1
    <3> QED BY <3>1 DEF trySignalGroup, LoopInv, ControllerInv, ResultInv
  <2>2. CASE reap = "term"
    <3>1. reap' = "kill" /\ trySignalGroup("SIGKILL") BY <2>2
    <3> QED BY <3>1, <2>2 DEF trySignalGroup, LoopInv, ControllerInv, ResultInv
  <2>3. CASE reap = "kill" BY <2>3 DEF LoopInv, ControllerInv, ResultInv
  <2> QED BY <2>1, <2>2, <2>3
<1>5. CASE resolveOutcome
  BY <1>5 DEF resolveOutcome, LoopInv, ControllerInv, ResultInv
<1>6. CASE stop BY <1>6 DEF stop, finish, LoopInv, ControllerInv, ResultInv
<1> QED BY <1>1, <1>2, <1>3, <1>4, <1>5, <1>6 DEF ControllerNext

THEOREM ExternalInvariance == ExternalSpec => []ExternalInv
<1>1. ExternalInit => ExternalInv BY ExternalInvInit
<1>2. ExternalInv /\ [ExternalNext]_externalVars => ExternalInv'
  <2> SUFFICES ASSUME ExternalInv, [ExternalNext]_externalVars PROVE ExternalInv' OBVIOUS
  <2>1. CASE LoopNext BY <2>1, LoopKeeps
  <2>2. CASE ControllerNext \/ stop BY <2>2, ControllerKeeps
  <2>3. CASE UNCHANGED externalVars
    BY <2>3 DEF externalVars, loopVars, controllerVars, ExternalInv, ExternalTypeOK, LoopInv,
                ControllerInv, ResultInv
  <2> QED BY <2>1, <2>2, <2>3 DEF ExternalNext
<1> QED BY <1>1, <1>2, PTL DEF ExternalSpec

(* What the handle of an external checker resolves to is true: a fire was a *)
(* terminal state and one wake that ended, a failure has its reason, and    *)
(* the poll loop is gone by then.                                           *)
THEOREM OutcomesStayTrue == ExternalSpec => []OutcomesAreTrue
<1>1. ExternalInv => OutcomesAreTrue
  BY DEF ExternalInv, ExternalTypeOK, LoopInv, ControllerInv, ResultInv, OutcomesAreTrue
<1> QED BY <1>1, ExternalInvariance, PTL

-----------------------------------------------------------------------------
(* The doorbell.                                                            *)

Contents == ({"empty"} \X {0}) \cup ({"mail"} \X (Nat \ {0})) \cup ({"probe"} \X (Nat \ {0}))

DoorbellTypeOK ==
  /\ trigger \in Contents
  /\ armed \subseteq Roles /\ owner \in Roles
  /\ lastContent \in [Roles -> Contents \cup {Unreadable}]
  /\ pendingTest \in [Roles -> Nat]
  /\ probes \in Nat /\ mailsSent \in Nat
  /\ step \in {"none", "arming", "probing"}
  /\ stage \in {"initial", "cycles", "fallback", "last", "done", "failed", "reaped"}

(* While a cutover runs both detectors watch, and only the target waits for *)
(* a sentinel.                                                              *)
CutoverInv ==
  /\ OwnerIsArmed
  /\ step # "none" => stage \in {"initial", "fallback"} /\ target \in armed
  /\ step = "arming" => target = "ghantika"
  /\ \A r \in Roles : pendingTest[r] # 0 => r = target /\ step = "probing"

(* In the cycles only the new owner watches, and what it reported it has    *)
(* taken note of.                                                           *)
CyclesInv ==
  /\ stage = "initial" => mailsSent = 0 /\ owner = "monitor"
  /\ stage = "cycles" => armed = {"ghantika"}
  /\ stage \in {"initial", "cycles"} =>
       /\ IsMail => trigger[2] = mailsSent
       /\ IsMail /\ mailsSent \in consumed => lastContent["ghantika"] = trigger
       /\ consumed \subseteq 1 .. mailsSent

(* Before the first self-test there is nothing to find, for the watcher not *)
(* even after an arm that could not read.                                   *)
EmptyInv ==
  trigger[1] = "empty" => ~notified /\ followUps = 0 /\ trigger = lastContent["monitor"]

DoorbellInv ==
  /\ DoorbellTypeOK /\ CutoverInv /\ CyclesInv /\ CyclesAreClean /\ EmptyInv
  /\ IsMail => trigger[2] <= mailsSent

LEMMA RolesAreTwo == /\ Roles = {"monitor", "ghantika"}
                     /\ \A r \in Roles : Other(r) \in Roles \ {r} /\ Other(Other(r)) = r
BY DEF Roles, Other

LEMMA ContentsShape ==
  \A c \in Contents : c[1] \in {"mail", "probe"} => c[2] \in Nat \ {0}
BY DEF Contents

LEMMA DoorbellInvInit == DoorbellInit => DoorbellInv
BY RolesAreTwo DEF DoorbellInit, DetectorsInit, DoorbellInv, DoorbellTypeOK, CutoverInv, CyclesInv,
      CyclesAreClean, OwnerIsArmed, IsMail, Contents, EmptyInv

(* A write by one of the programs: only a mail counts as a mail.            *)
LEMMA ProbeKeeps ==
  ASSUME DoorbellInv, NEW role \in Roles, NEW watching, BeginsProbe(role, watching)
  PROVE  /\ probes' \in Nat /\ trigger' \in Contents /\ pendingTest' \in [Roles -> Nat]
         /\ ~IsMail' /\ EmptyInv' /\ \A r \in Roles : r # role => pendingTest'[r] = pendingTest[r]
BY DEF DoorbellInv, DoorbellTypeOK, BeginsProbe, Writes, Contents, IsMail, EmptyInv

(* An attempt arms the target and leaves the source armed.                  *)
LEMMA AttemptKeeps ==
  ASSUME DoorbellInv, NEW n, stage \in {"initial", "fallback"}, stage' = stage,
         BeginsAttempt(n, KeptWatching), UNCHANGED <<reportVars, mailsSent>>
  PROVE  DoorbellInv'
<1> USE DEF DoorbellInv, DoorbellTypeOK
<1>1. target \in Roles /\ target # owner /\ owner \in armed /\ target' = target
  BY RolesAreTwo DEF target, CutoverInv, OwnerIsArmed, BeginsAttempt
<1>2. /\ owner' = owner /\ armed' = armed \cup {target}
      /\ lastContent' \in [Roles -> Contents \cup {Unreadable}]
      /\ target = "ghantika" => lastContent'["monitor"] = lastContent["monitor"]
  BY <1>1, RolesAreTwo DEF BeginsAttempt, KeptWatching
<1>3. /\ step' \in {"arming", "probing"} /\ probes' \in Nat /\ trigger' \in Contents
      /\ pendingTest' \in [Roles -> Nat]
      /\ IsMail' => UNCHANGED trigger
      /\ \A r \in Roles : pendingTest'[r] # 0 => r = target /\ step' = "probing"
      /\ step' = "arming" => target = "ghantika"
      /\ EmptyInv'
  <2>1. CASE target = "monitor"
    <3>1. step' = "probing" /\ BeginsProbe("monitor", live') BY <2>1 DEF BeginsAttempt
    <3> QED BY <1>1, <2>1, <3>1, ProbeKeeps DEF CutoverInv
  <2>2. CASE target # "monitor"
    <3>1. /\ step' = "arming" /\ pendingTest' = [pendingTest EXCEPT !["ghantika"] = 0]
          /\ UNCHANGED <<trigger, probes, followUps>> /\ notified' = FALSE
      BY <2>2 DEF BeginsAttempt
    <3>2. EmptyInv' BY <1>1, <1>2, <2>2, <3>1, RolesAreTwo DEF EmptyInv
    <3> QED BY <1>1, <2>2, <3>1, <3>2, RolesAreTwo DEF CutoverInv, IsMail
  <2> QED BY <2>1, <2>2
<1>4. CutoverInv' BY <1>1, <1>2, <1>3 DEF CutoverInv, OwnerIsArmed
<1>5. IsMail' => trigger[1] = "mail" BY <1>3 DEF IsMail
<1>6. IsMail' => stage # "initial"
  BY <1>3, <1>5, ContentsShape DEF IsMail, CyclesInv, CyclesAreClean
<1>7. CyclesInv' BY <1>1, <1>2, <1>3, <1>6 DEF CyclesInv, reportVars
<1>8. CyclesAreClean' BY DEF CyclesAreClean, reportVars
<1>9. IsMail' => trigger'[2] <= mailsSent' BY <1>3 DEF IsMail
<1> QED BY <1>1, <1>2, <1>3, <1>4, <1>7, <1>8, <1>9 DEF reportVars

(* A rollback disarms the target; the owner is armed, as it was before.     *)
LEMMA RollbackKeeps ==
  ASSUME DoorbellInv, step # "none", RollsBack, UNCHANGED <<reportVars, mailsSent>>
  PROVE  DoorbellInv'
<1> USE DEF DoorbellInv, DoorbellTypeOK
<1>1. target \in Roles /\ target' = target BY RolesAreTwo DEF target, RollsBack
<1>2. DoorbellTypeOK' BY <1>1 DEF RollsBack, KeptWatching
<1>3. CutoverInv' BY <1>1 DEF RollsBack, KeptWatching, CutoverInv, OwnerIsArmed
<1>4. CyclesInv' /\ CyclesAreClean' BY DEF RollsBack, CyclesInv, CyclesAreClean, reportVars
<1>5. IsMail' => trigger'[2] <= mailsSent' BY DEF RollsBack, IsMail
<1>6. EmptyInv' BY DEF RollsBack, EmptyInv
<1> QED BY <1>2, <1>3, <1>4, <1>5, <1>6

(* A detector finds a change.  Its own sentinel moves the owner; a mail is  *)
(* reported, in the cycles for the first time.                              *)
LEMMA DetectKeeps ==
  ASSUME DoorbellInv, NEW role \in Roles, NEW left, role = "monitor" => role \in armed,
         role = "ghantika" => notified \/ followUps > 0,
         Detects(role, left)
  PROVE  DoorbellInv'
<1> USE DEF DoorbellInv, DoorbellTypeOK
<1>1. /\ trigger # lastContent[role] /\ lastContent' = [lastContent EXCEPT ![role] = trigger]
      /\ UNCHANGED <<trigger, probes, mailsSent>>
  BY DEF Detects, Changed, TakesNote
<1>2. trigger[1] # "empty" /\ (IsMail <=> ~IsProbe) /\ EmptyInv'
  <2>1. trigger[1] # "empty" BY <1>1, RolesAreTwo DEF EmptyInv
  <2> QED BY <1>1, <2>1 DEF EmptyInv, IsMail, IsProbe, Contents
<1>3. CASE PassesTest(role)
  <2>1. ~IsMail /\ trigger[2] # 0 /\ pendingTest[role] # 0
    BY <1>3, ContentsShape DEF PassesTest, IsProbe, IsMail
  <2>2. Succeeds /\ UNCHANGED reportVars BY <1>3, <1>2, <2>1 DEF Detects, PassesOn
  <2>3. /\ role = target /\ target \in armed /\ stage \in {"initial", "fallback"}
        /\ target \in Roles \ {owner}
    BY <2>1, RolesAreTwo DEF CutoverInv, target
  <2>4. \A r \in Roles : pendingTest'[r] = 0 BY <2>2, <2>3 DEF Succeeds, CutoverInv
  <2>5. DoorbellTypeOK' BY <1>1, <2>2, <2>3 DEF Succeeds
  <2>6. CutoverInv' BY <2>2, <2>3, <2>4 DEF Succeeds, CutoverInv, OwnerIsArmed
  <2>7. stage' = "cycles" => stage = "initial" /\ armed' = {"ghantika"}
    <3>1. SUFFICES ASSUME stage = "initial" PROVE armed' = {"ghantika"} BY <2>2 DEF Succeeds
    <3>2. owner = "monitor" /\ target = "ghantika" BY <2>3, <3>1, RolesAreTwo DEF CyclesInv
    <3>3. armed' = armed \ {"monitor"} BY <2>2, <3>2 DEF Succeeds
    <3>4. armed = {"monitor", "ghantika"}
      <4>1. stage # "reaped" /\ OwnerIsArmed /\ armed \subseteq Roles BY <3>1 DEF CutoverInv
      <4>2. "monitor" \in armed /\ "ghantika" \in armed BY <2>3, <3>2, <4>1 DEF OwnerIsArmed
      <4>3. armed \subseteq {"monitor", "ghantika"} BY <4>1, RolesAreTwo
      <4> HIDE DEF DoorbellInv, DoorbellTypeOK
      <4> QED BY ONLY <4>2, <4>3
    <3> QED BY <3>3, <3>4
  <2>8. CyclesInv' BY <1>1, <2>1, <2>2, <2>3, <2>7 DEF Succeeds, CyclesInv, IsMail, reportVars
  <2>9. CyclesAreClean' BY <2>2, <2>3 DEF Succeeds, CyclesAreClean, reportVars
  <2> QED BY <1>1, <1>2, <2>5, <2>6, <2>8, <2>9 DEF IsMail
<1>4. CASE ~PassesTest(role)
  <2>1. UNCHANGED <<armed, owner, step, pendingTest, stage>> BY <1>4 DEF Detects, controlVars
  <2>2. DoorbellTypeOK' /\ CutoverInv'
    BY <1>1, <2>1 DEF CutoverInv, OwnerIsArmed, target
  <2>3. CASE ~IsMail
    <3>1. UNCHANGED reportVars BY <1>2, <2>3 DEF Detects, PassesOn
    <3> QED BY <1>1, <1>2, <2>1, <2>2, <2>3, <3>1 DEF CyclesInv, CyclesAreClean, IsMail, reportVars
  <2>4. CASE IsMail
    <3>1. trigger[2] \in 1 .. mailsSent BY <2>4, ContentsShape DEF IsMail
    <3>2. /\ consumed' = consumed \cup {trigger[2]} /\ spurious' = spurious
          /\ trigger[2] \notin consumed => duplicates' = duplicates
      BY <1>2, <2>4, <3>1 DEF Detects, PassesOn, handleRawEvent
    <3>3. stage # "initial" BY <3>1 DEF CyclesInv
    <3>4. stage = "cycles" => trigger[2] = mailsSent /\ role = "ghantika" /\ trigger[2] \notin consumed
      BY <1>1, <2>4, RolesAreTwo DEF CyclesInv
    <3>5. CyclesInv' BY <1>1, <2>1, <3>1, <3>2, <3>3, <3>4 DEF CyclesInv, IsMail
    <3>6. CyclesAreClean' BY <2>1, <3>2, <3>3, <3>4 DEF CyclesAreClean
    <3> QED BY <1>1, <1>2, <2>2, <3>5, <3>6 DEF IsMail
  <2> QED BY <2>3, <2>4
<1> QED BY <1>3, <1>4

LEMMA DoorbellStepKeeps ==
  ASSUME DoorbellInv, [DoorbellNext]_doorbellVars PROVE DoorbellInv'
<1> USE DEF DoorbellInv, DoorbellTypeOK, CyclesAreClean
<1>1. CASE Cutover BY <1>1, AttemptKeeps DEF Cutover
<1>2. CASE ArmSettles
  <2>1. BeginsProbe("ghantika", live) /\ step = "arming" /\ step' = "probing"
        /\ UNCHANGED <<armed, lastContent, owner, reportVars, stage, mailsSent>>
    BY <1>2 DEF ArmSettles
  <2>2. ~IsMail' /\ probes' \in Nat /\ trigger' \in Contents /\ pendingTest' \in [Roles -> Nat]
        /\ pendingTest'["monitor"] = pendingTest["monitor"] /\ EmptyInv'
    BY <2>1, ProbeKeeps, RolesAreTwo
  <2>3. target = "ghantika"
    BY <2>1 DEF CutoverInv, CyclesInv, target
  <2>4. CutoverInv' BY <2>1, <2>2, <2>3, RolesAreTwo DEF CutoverInv, OwnerIsArmed, target
  <2> QED BY <2>1, <2>2, <2>4 DEF CyclesInv, reportVars
<1>3. CASE AttemptFails
  <2>1. step # "none" /\ UNCHANGED <<reportVars, mailsSent>> BY <1>3 DEF AttemptFails
  <2>2. stage \in {"initial", "fallback"} BY <2>1 DEF CutoverInv
  <2>3. CASE BeginsAttempt(cutoverAttempt + 1, KeptWatching) /\ UNCHANGED stage
    BY <2>1, <2>2, <2>3, AttemptKeeps
  <2>4. CASE RollsBack BY <2>1, <2>4, RollbackKeeps
  <2> QED BY <1>3, <2>3, <2>4 DEF AttemptFails
<1>4. CASE Tick
  <2>1. "monitor" \in armed /\ Detects("monitor", notified) BY <1>4 DEF Tick
  <2> QED BY <2>1, DetectKeeps, RolesAreTwo
<1>5. ASSUME NEW left, NEW pending, Checks(left, pending), notified \/ followUps > 0
      PROVE  DoorbellInv'
  <2>1. CASE Detects("ghantika", left) BY <1>5, <2>1, DetectKeeps, RolesAreTwo
  <2>2. CASE UNCHANGED <<trigger, armed, live, lastContent, pendingTest, probes, controlVars,
                         reportVars, stage, mailsSent>>
    BY <1>5, <2>2 DEF controlVars, reportVars, CutoverInv, OwnerIsArmed, CyclesInv, IsMail, target,
                      EmptyInv
  <2> QED BY <1>5, <2>1, <2>2 DEF Checks
<1>6. CASE OnEvent BY <1>6, <1>5 DEF OnEvent
<1>7. CASE FollowUp BY <1>7, <1>5 DEF FollowUp
<1>8. CASE UnseenBefore
  BY <1>8 DEF UnseenBefore, WatchTakesEffect, controlVars, reportVars, CutoverInv, OwnerIsArmed,
              CyclesInv, IsMail, target, EmptyInv
<1>9. CASE SendMail
  <2>1. /\ stage \in {"cycles", "last"} /\ mailsSent' = mailsSent + 1
        /\ trigger' = <<"mail", mailsSent + 1>>
        /\ UNCHANGED <<armed, lastContent, pendingTest, probes, controlVars, reportVars, stage>>
    BY <1>9 DEF SendMail, Writes
  <2>2. trigger' \in Contents BY <2>1 DEF Contents
  <2>3. stage = "cycles" => consumed \subseteq 1 .. mailsSent BY DEF CyclesInv
  <2>4. CyclesInv' BY <2>1, <2>3 DEF CyclesInv, IsMail, controlVars, reportVars
  <2> QED BY <2>1, <2>2, <2>4 DEF CutoverInv, OwnerIsArmed, IsMail, controlVars, reportVars, target,
                                       EmptyInv
<1>10. CASE StageEnds \/ WaitFails
  BY <1>10 DEF StageEnds, WaitFails, detectorVars, controlVars, reportVars, CutoverInv,
               OwnerIsArmed, CyclesInv, IsMail, target, EmptyInv
<1>11. CASE ReapAll
  BY <1>11 DEF ReapAll, controlVars, reportVars, CutoverInv, OwnerIsArmed, CyclesInv, IsMail, target,
               EmptyInv
<1>12. CASE CheckFails
  <2>1. /\ UNCHANGED <<trigger, armed, lastContent, pendingTest, probes, controlVars, consumed,
                       duplicates, spurious, stage, mailsSent>>
        /\ notified \/ followUps > 0 \/ UNCHANGED <<notified, followUps>>
    BY <1>12 DEF CheckFails, ReadFails
  <2> QED BY <2>1 DEF controlVars, CutoverInv, OwnerIsArmed, CyclesInv, IsMail, target, EmptyInv
<1>13. CASE UNCHANGED doorbellVars
  BY <1>13 DEF doorbellVars, detectorVars, controlVars, reportVars, CutoverInv, OwnerIsArmed,
               CyclesInv, IsMail, target, EmptyInv
<1> QED BY <1>1, <1>2, <1>3, <1>4, <1>6, <1>7, <1>8, <1>9, <1>10, <1>11, <1>12, <1>13
        DEF DoorbellNext

THEOREM DoorbellInvariance == DoorbellSpec => []DoorbellInv
BY DoorbellInvInit, DoorbellStepKeeps, PTL DEF DoorbellSpec

(* Through every attempt, retry and rollback of a cutover the owner of the  *)
(* trigger watches it; nothing but mails is ever reported, and until the    *)
(* fallback no mail twice.                                                  *)
THEOREM HandoffStaysClean == DoorbellSpec => []HandoffIsClean
<1>1. DoorbellInv => HandoffIsClean BY DEF DoorbellInv, CutoverInv, HandoffIsClean
<1> QED BY <1>1, DoorbellInvariance, PTL

-----------------------------------------------------------------------------
(* The attempts over the transports.                                        *)

TransportNames == {"messaging", "appServer", "desktop"}
LogEntries     == [refused : BOOLEAN, permanent : BOOLEAN]

AttemptRecords ==
  [n : Nat, op : {"none", "probe", "wake"},
   stage : {"none", "start", "connecting", "auth", "message", "grace", "running", "calling", "settled"},
   log : Seq(LogEntries), outcome : {"none", "delivered", "refused", "unavailable"},
   permanent : BOOLEAN]

Methods  == {"none", "initialize", "list", "goal"}
Messages == {"ok", "error", "enabled", "disabled", "more", "started", "completed", "startedElsewhere"}

ChildRecords ==
  [life : {"none", "up", "asked", "killed"}, pending : Methods, page : Nat,
   waiter : {"none", "started", "completed"},
   reply : {"none", "available", "refused", "unavailable"}, todo : Methods,
   goal : {"none", "set", "turn"}, wire : Seq(Messages), stray : Nat]

Frames == [ours : BOOLEAN, says : {"ok", "noClient", "error", "bad"}]

IpcRecords ==
  [pending : {"none", "initialize", "discovery", "startTurn"},
   todo : {"none", "initialize", "discovery"}, wire : Seq(Frames), stray : Nat]

TransportsTypeOK ==
  /\ inherited \in BOOLEAN /\ serverUp \in BOOLEAN
  /\ attempt \in [Attempts -> AttemptRecords]
  /\ child \in [Attempts -> ChildRecords]
  /\ ipc \in [Attempts -> IpcRecords]

(* The transport an attempt has come to, also when it delivered over it.    *)
IsAt(a, transport) ==
  attempt[a].n \in DOMAIN Transports /\ Transports[attempt[a].n] = transport

Unsent(a) == <<a, "desktop">> \notin sent \cup woken

(* The log has an entry for every transport the attempt is past, and each   *)
(* entry, and the outcome, are right about that transport.                  *)
AttemptInv(a) ==
  /\ attempt[a].n > 0 => Len(attempt[a].log) = attempt[a].n - 1
  /\ attempt[a].n = 0 => attempt[a].log = <<>> /\ attempt[a].stage = "none"
  /\ attempt[a].stage = "none" => attempt[a].n = 0
  /\ attempt[a].n <= Len(Transports) + 1
  /\ attempt[a].stage # "settled" => attempt[a].outcome = "none" /\ ~attempt[a].permanent
  /\ attempt[a].outcome = "delivered" =>
       IsAt(a, "messaging")
         \/ \E t \in {"appServer", "desktop"} : IsAt(a, t) /\ <<a, t>> \in woken
  /\ attempt[a].permanent =>
       Len(attempt[a].log) = Len(Transports) /\ AggregatePermanence(attempt[a].log)
  /\ \A i \in DOMAIN attempt[a].log :
       /\ attempt[a].log[i].permanent => Transports[i] = "messaging" /\ ~inherited
       /\ Transports[i] = "desktop" /\ attempt[a].log[i].refused => Unsent(a)

(* An app-server belongs to the attempt that is at it, which is told of its *)
(* end unless it has delivered; and a turn that was announced has begun.    *)
ChildInv(a) ==
  /\ child[a].life = "none" => child[a] = NoChild
  /\ child[a].life # "none" =>
       /\ a \in tracked /\ IsAt(a, "appServer")
       /\ attempt[a].stage = "running" \/ attempt[a].stage = "settled"
  /\ serverUp /\ a \in tracked => child[a].life # "none"
  /\ ~serverUp => child[a].life \in {"none", "killed"}
  /\ child[a].life = "up" =>
       /\ child[a].reply = "none"
       /\ child[a].pending # "none" => child[a].waiter = "none"
       /\ child[a].pending # "none" \/ child[a].waiter = "started" => attempt[a].stage = "running"
  /\ child[a].life \in {"asked", "killed"} /\ serverUp =>
       child[a].pending = "none" /\ child[a].waiter = "none"
  /\ child[a].reply # "none" => attempt[a].stage = "running"
  /\ \A k \in DOMAIN child[a].wire : child[a].wire[k] = "started" => <<a, "appServer">> \in woken

(* The frames that answer the call of a connection.                         *)
Replies(i) == {k \in DOMAIN i.wire : i.wire[k].ours /\ i.wire[k].says # "bad"}

(* At most one reply is on its way, none before the call was taken up; and  *)
(* the one to the last call says what became of the wake.                   *)
IpcInv(a) ==
  /\ ipc[a].pending = "none" => ipc[a] = NoIpc
  /\ ipc[a].pending # "none" => IsAt(a, "desktop") /\ attempt[a].stage = "calling"
  /\ \A k, l \in Replies(ipc[a]) : k = l
  /\ ipc[a].todo # "none" => Replies(ipc[a]) = {} /\ ipc[a].pending # "startTurn"
  /\ ipc[a].pending = "startTurn" =>
       /\ <<a, "desktop">> \in sent => Replies(ipc[a]) = {} /\ <<a, "desktop">> \notin woken
       /\ \A k \in Replies(ipc[a]) :
            IF ipc[a].wire[k].says = "ok" THEN <<a, "desktop">> \in woken ELSE Unsent(a)
  /\ \/ Unsent(a) \/ ipc[a].pending = "startTurn" \/ attempt[a].stage = "settled"
     \/ \E i \in DOMAIN attempt[a].log : Transports[i] = "desktop"

TransportsInv ==
  TransportsTypeOK /\ \A a \in Attempts : AttemptInv(a) /\ ChildInv(a) /\ IpcInv(a)

LEMMA TransportsShape ==
  /\ Transports \in Seq(TransportNames)
  /\ \A i, j \in DOMAIN Transports : Transports[i] = Transports[j] => i = j
<1> DEFINE D == IF resolveWakeTarget = "resolved" /\ "codex" \in gates
                THEN <<"appServer", "desktop">> ELSE <<>>
<1>1. CASE "messaging" \in gates
  <2>1. Transports = <<"messaging">> \o D BY <1>1 DEF Transports
  <2>2. CASE D = <<>> BY <2>1, <2>2 DEF TransportNames
  <2>3. CASE D = <<"appServer", "desktop">>
    <3>1. /\ Transports \in Seq(TransportNames) /\ Len(Transports) = 3
          /\ Transports[1] = "messaging" /\ Transports[2] = "appServer" /\ Transports[3] = "desktop"
      <4> HIDE DEF D
      <4>1. Transports = <<"messaging">> \o <<"appServer", "desktop">> BY <2>1, <2>3
      <4> QED BY <4>1 DEF TransportNames
    <3>2. DOMAIN Transports = {1, 2, 3} BY <3>1
    <3> QED BY <3>1, <3>2
  <2>4. D = <<>> \/ D = <<"appServer", "desktop">> OBVIOUS
  <2> QED BY <2>2, <2>3, <2>4
<1>2. CASE "messaging" \notin gates
  <2>1. Transports = <<>> \o D BY <1>2 DEF Transports
  <2>2. CASE D = <<>> BY <2>1, <2>2 DEF TransportNames
  <2>3. CASE D = <<"appServer", "desktop">>
    <3>1. Transports = <<"appServer", "desktop">> BY <2>1, <2>3
    <3> QED BY <3>1 DEF TransportNames
  <2>4. D = <<>> \/ D = <<"appServer", "desktop">> OBVIOUS
  <2> QED BY <2>2, <2>3, <2>4
<1> QED BY <1>1, <1>2

LEMMA SettingsStay ==
  ASSUME UNCHANGED settingVars PROVE Transports' = Transports /\ inherited' = inherited
BY DEF settingVars, Transports, resolveWakeTarget

(* What a chunk takes off the wire, and what it leaves.                     *)
LEMMA Cut ==
  ASSUME NEW S, NEW s \in Seq(S), NEW n \in 1 .. Len(s)
  PROVE  /\ Prefix(s, n) \in Seq(S) /\ Len(Prefix(s, n)) = n
         /\ \A k \in 1 .. n : Prefix(s, n)[k] = s[k]
         /\ After(s, n) \in Seq(S) /\ Len(After(s, n)) = Len(s) - n
         /\ \A k \in 1 .. Len(s) - n : After(s, n)[k] = s[n + k]
BY DEF Prefix, After

(* A step of one attempt leaves the others alone.                           *)
OnlyOf(a) ==
  /\ UNCHANGED <<settingVars, serverUp>>
  /\ \A b \in Attempts \ {a} :
       /\ attempt'[b] = attempt[b] /\ child'[b] = child[b] /\ ipc'[b] = ipc[b]
       /\ b \in tracked' <=> b \in tracked
       /\ \A t \in TransportNames : /\ <<b, t>> \in sent' <=> <<b, t>> \in sent
                                    /\ <<b, t>> \in woken' <=> <<b, t>> \in woken

LEMMA OthersKeep ==
  ASSUME TransportsInv, NEW a \in Attempts, OnlyOf(a), TransportsTypeOK',
         AttemptInv(a)', ChildInv(a)', IpcInv(a)'
  PROVE  TransportsInv'
<1>1. Transports' = Transports /\ inherited' = inherited /\ serverUp' = serverUp
  BY SettingsStay DEF OnlyOf
<1> SUFFICES ASSUME NEW b \in Attempts \ {a} PROVE AttemptInv(b)' /\ ChildInv(b)' /\ IpcInv(b)'
  BY DEF TransportsInv
<1>2. /\ attempt'[b] = attempt[b] /\ child'[b] = child[b] /\ ipc'[b] = ipc[b]
      /\ b \in tracked' <=> b \in tracked
      /\ <<b, "desktop">> \in sent' <=> <<b, "desktop">> \in sent
      /\ <<b, "desktop">> \in woken' <=> <<b, "desktop">> \in woken
      /\ <<b, "appServer">> \in woken' <=> <<b, "appServer">> \in woken
  BY DEF OnlyOf, TransportNames
<1>3. AttemptInv(b) /\ ChildInv(b) /\ IpcInv(b) BY DEF TransportsInv
<1>4. Unsent(b)' = Unsent(b) BY <1>2 DEF Unsent
<1>5. \A t : IsAt(b, t)' = IsAt(b, t) BY <1>1, <1>2 DEF IsAt
<1>6. AttemptInv(b)'
  BY <1>1, <1>2, <1>3, <1>4, <1>5 DEF AttemptInv
<1>7. ChildInv(b)' BY <1>1, <1>2, <1>3, <1>5 DEF ChildInv
<1>8. Replies(ipc[b])' = Replies(ipc[b]) BY <1>2 DEF Replies
<1>9. IpcInv(b)' BY <1>1, <1>2, <1>3, <1>4, <1>5, <1>8 DEF IpcInv
<1> QED BY <1>6, <1>7, <1>9

-----------------------------------------------------------------------------
(* What becomes of the attempt.                                             *)

(* What is sent is sent by the attempt that is at that transport.           *)
SendsRightly(a) ==
  /\ UNCHANGED settingVars
  /\ woken \subseteq woken'
  /\ Unsent(a) => Unsent(a)' \/ (IsAt(a, "desktop") /\ attempt[a].n > 0)

LEMMA PastEntries ==
  ASSUME TransportsInv, NEW a \in Attempts, SendsRightly(a)
  PROVE  \A i \in DOMAIN attempt[a].log :
           /\ attempt[a].log[i].permanent => Transports'[i] = "messaging" /\ ~inherited'
           /\ Transports'[i] = "desktop" /\ attempt[a].log[i].refused => Unsent(a)'
<1> SUFFICES ASSUME NEW i \in DOMAIN attempt[a].log
             PROVE  /\ attempt[a].log[i].permanent => Transports'[i] = "messaging" /\ ~inherited'
                    /\ Transports'[i] = "desktop" /\ attempt[a].log[i].refused => Unsent(a)'
  OBVIOUS
<1>1. AttemptInv(a) /\ attempt[a] \in AttemptRecords BY DEF TransportsInv, TransportsTypeOK
<1>2. Transports' = Transports /\ inherited' = inherited BY SettingsStay DEF SendsRightly
<1>3. ASSUME IsAt(a, "desktop"), attempt[a].n > 0 PROVE Transports[i] # "desktop"
  <2>1. i \in 1 .. attempt[a].n - 1 BY <1>1, <1>3 DEF AttemptInv, AttemptRecords
  <2> QED BY <2>1, <1>1, <1>3, TransportsShape DEF IsAt, AttemptRecords
<1> QED BY <1>1, <1>2, <1>3 DEF AttemptInv, SendsRightly

LEMMA StillKeeps ==
  ASSUME TransportsInv, NEW a \in Attempts, SendsRightly(a), attempt'[a] = attempt[a]
  PROVE  AttemptInv(a)' /\ \A t : IsAt(a, t)' = IsAt(a, t)
<1>1. AttemptInv(a) BY DEF TransportsInv
<1>2. Transports' = Transports BY SettingsStay DEF SendsRightly
<1>3. \A t : IsAt(a, t)' = IsAt(a, t) BY <1>2 DEF IsAt
<1> QED BY <1>1, <1>2, <1>3, PastEntries DEF AttemptInv, SendsRightly

LEMMA MoveKeeps ==
  ASSUME TransportsInv, NEW a \in Attempts, SendsRightly(a),
         NEW s \in {"start", "connecting", "auth", "message", "grace", "running", "calling"},
         attempt[a].stage \notin {"none", "settled"}, Moves(a, s)
  PROVE  /\ attempt' \in [Attempts -> AttemptRecords] /\ AttemptInv(a)'
         /\ \A b \in Attempts \ {a} : attempt'[b] = attempt[b]
         /\ attempt'[a].n = attempt[a].n /\ attempt'[a].log = attempt[a].log
         /\ attempt'[a].stage = s
         /\ \A t : IsAt(a, t)' = IsAt(a, t)
<1> USE DEF AttemptRecords
<1>1. AttemptInv(a) /\ attempt \in [Attempts -> AttemptRecords] BY DEF TransportsInv, TransportsTypeOK
<1>2. Transports' = Transports BY SettingsStay DEF SendsRightly
<1>3. /\ attempt' \in [Attempts -> AttemptRecords]
      /\ \A b \in Attempts \ {a} : attempt'[b] = attempt[b]
      /\ attempt'[a] = [attempt[a] EXCEPT !.stage = s]
  BY <1>1 DEF Moves
<1>4. /\ attempt'[a].n = attempt[a].n /\ attempt'[a].log = attempt[a].log
      /\ attempt'[a].stage = s /\ attempt'[a].outcome = attempt[a].outcome
      /\ attempt'[a].permanent = attempt[a].permanent
  BY <1>1, <1>3
<1>5. \A t : IsAt(a, t)' = IsAt(a, t) BY <1>2, <1>4 DEF IsAt
<1>6. attempt[a].outcome = "none" /\ ~attempt[a].permanent /\ attempt[a].n > 0 BY <1>1 DEF AttemptInv
<1>7. AttemptInv(a)' BY <1>1, <1>2, <1>4, <1>6, PastEntries DEF AttemptInv
<1> QED BY <1>3, <1>4, <1>5, <1>7

(* A report is right when what it says of the transport is.                 *)
ReportIsRight(a, transport, what) ==
  /\ what = "never" => transport = "messaging" /\ ~inherited
  /\ what = "delivered" => transport = "messaging" \/ <<a, transport>> \in woken
  /\ what = "refused" /\ transport = "desktop" => Unsent(a)

Failures == {"refused", "unavailable", "never"}
Whats    == Failures \cup {"available", "delivered"}

LEMMA ReportKeeps ==
  ASSUME TransportsInv, NEW a \in Attempts, UNCHANGED <<settingVars, sent, woken>>,
         NEW transport \in TransportNames, IsAt(a, transport), attempt[a].stage \notin {"none", "settled"},
         NEW what \in Whats, ReportIsRight(a, transport, what), Reports(a, what)
  PROVE  /\ attempt' \in [Attempts -> AttemptRecords] /\ AttemptInv(a)'
         /\ \A b \in Attempts \ {a} : attempt'[b] = attempt[b]
         /\ attempt'[a].stage \in {"start", "settled"}
         /\ \A i \in DOMAIN attempt[a].log : i \in DOMAIN attempt'[a].log
         /\ what \in Failures => attempt[a].n \in DOMAIN attempt'[a].log
         /\ what = "delivered" => attempt'[a].stage = "settled" /\ IsAt(a, transport)'
<1> USE DEF AttemptRecords
<1>0. SendsRightly(a) BY DEF SendsRightly, Unsent, settingVars
<1>1. AttemptInv(a) /\ attempt \in [Attempts -> AttemptRecords] BY DEF TransportsInv, TransportsTypeOK
<1>2. /\ Transports' = Transports /\ inherited' = inherited /\ Unsent(a)' = Unsent(a)
  BY <1>0, SettingsStay DEF SendsRightly, Unsent
<1>3. /\ attempt[a].n \in 1 .. Len(Transports) /\ Len(attempt[a].log) = attempt[a].n - 1
      /\ attempt[a].outcome = "none" /\ ~attempt[a].permanent
      /\ Transports[attempt[a].n] = transport
  BY <1>1, TransportsShape DEF AttemptInv, IsAt
<1>4. CASE what = "available"
  <2>1. attempt' = [attempt EXCEPT ![a].op = "wake", ![a].stage = "start"] BY <1>4 DEF Reports
  <2>2. /\ attempt' \in [Attempts -> AttemptRecords]
        /\ \A b \in Attempts \ {a} : attempt'[b] = attempt[b]
        /\ attempt'[a].n = attempt[a].n /\ attempt'[a].log = attempt[a].log
        /\ attempt'[a].stage = "start" /\ attempt'[a].outcome = attempt[a].outcome
        /\ attempt'[a].permanent = attempt[a].permanent
    BY <1>1, <2>1
  <2>3. AttemptInv(a)' BY <1>1, <1>2, <1>3, <2>2, <1>0, PastEntries DEF AttemptInv
  <2> QED BY <1>4, <2>2, <2>3 DEF Failures
<1>5. CASE what = "delivered"
  <2>1. Delivers(a) BY <1>5 DEF Reports
  <2>2. /\ attempt' \in [Attempts -> AttemptRecords]
        /\ \A b \in Attempts \ {a} : attempt'[b] = attempt[b]
        /\ attempt'[a].n = attempt[a].n /\ attempt'[a].log = attempt[a].log
        /\ attempt'[a].stage = "settled" /\ attempt'[a].outcome = "delivered"
        /\ attempt'[a].permanent = attempt[a].permanent
    BY <1>1, <2>1 DEF Delivers
  <2>3. IsAt(a, transport)' BY <1>2, <2>2 DEF IsAt
  <2>4. transport = "messaging" \/ <<a, transport>> \in woken' BY <1>5 DEF ReportIsRight
  <2>5. AttemptInv(a)'
    BY <1>1, <1>2, <1>3, <2>2, <2>3, <2>4, <1>0, PastEntries DEF AttemptInv, TransportNames
  <2> QED BY <1>5, <2>2, <2>3, <2>5 DEF Failures
<1>6. CASE what \in Failures
  <2>1. PICK e \in LogEntries : /\ GoesOn(a, e)
                                /\ e.permanent => transport = "messaging" /\ ~inherited
                                /\ e.refused /\ transport = "desktop" => Unsent(a)
    <3> DEFINE Entry(r, p) == [refused |-> r, permanent |-> p]
    <3>1. CASE what = "refused"
      <4>1. GoesOn(a, Entry(TRUE, FALSE)) BY <3>1 DEF Reports
      <4> QED BY <3>1, <4>1 DEF ReportIsRight, LogEntries
    <3>2. CASE what = "unavailable"
      <4>1. GoesOn(a, Entry(FALSE, FALSE)) BY <3>2 DEF Reports
      <4>2. Entry(FALSE, FALSE) \in LogEntries BY DEF LogEntries
      <4>3. Entry(FALSE, FALSE).permanent = FALSE /\ Entry(FALSE, FALSE).refused = FALSE OBVIOUS
      <4> QED BY <4>1, <4>2, <4>3
    <3>3. CASE what = "never"
      <4>1. GoesOn(a, Entry(FALSE, TRUE)) BY <3>3 DEF Reports
      <4> QED BY <3>3, <4>1 DEF ReportIsRight, LogEntries
    <3> QED BY <1>6, <3>1, <3>2, <3>3 DEF Failures
  <2> DEFINE log == Append(attempt[a].log, e)
             n   == attempt[a].n + 1
  <2>2. log \in Seq(LogEntries) /\ Len(log) = attempt[a].n /\ log[attempt[a].n] = e
        /\ \A i \in 1 .. attempt[a].n - 1 : log[i] = attempt[a].log[i]
    BY <1>1, <1>3
  <2>3. AggregateOutcome(log) \in {"refused", "unavailable"} /\ AggregatePermanence(log) \in BOOLEAN
    BY DEF AggregateOutcome, AggregatePermanence
  <2> HIDE DEF log
  <2>4. DOMAIN log = 1 .. attempt[a].n /\ DOMAIN attempt[a].log = 1 .. attempt[a].n - 1
    BY <1>1, <1>3, <2>2
  <2>5. \A i \in DOMAIN log :
           /\ log[i].permanent => Transports'[i] = "messaging" /\ ~inherited'
           /\ Transports'[i] = "desktop" /\ log[i].refused => Unsent(a)'
    <3> SUFFICES ASSUME NEW i \in 1 .. attempt[a].n
                 PROVE  /\ log[i].permanent => Transports'[i] = "messaging" /\ ~inherited'
                        /\ Transports'[i] = "desktop" /\ log[i].refused => Unsent(a)'
      BY <2>4
    <3>1. CASE i = attempt[a].n BY <3>1, <1>2, <1>3, <2>1, <2>2
    <3>2. CASE i # attempt[a].n
      <4>1. i \in 1 .. attempt[a].n - 1 BY <1>3, <3>2
      <4>2. log[i] = attempt[a].log[i] /\ i \in DOMAIN attempt[a].log BY <4>1, <2>2, <2>4
      <4> QED BY <4>2, <1>0, PastEntries
    <3> QED BY <3>1, <3>2
  <2>6. CASE n \in DOMAIN Transports
    <3> DEFINE t == [attempt[a] EXCEPT !.n = n, !.op = "probe", !.stage = "start", !.log = log]
    <3>1. attempt' = [attempt EXCEPT ![a] = t] BY <2>1, <2>6 DEF GoesOn, log
    <3>2. /\ t \in AttemptRecords /\ t.n = n /\ t.log = log /\ t.stage = "start"
          /\ t.outcome = attempt[a].outcome /\ t.permanent = attempt[a].permanent
      <4>1. attempt[a] \in AttemptRecords /\ n \in Nat /\ log \in Seq(LogEntries) BY <1>1, <2>2
      <4> HIDE DEF n
      <4>2. t \in AttemptRecords BY <4>1
      <4> QED BY <4>1, <4>2
    <3> HIDE DEF t
    <3>3. /\ attempt' \in [Attempts -> AttemptRecords] /\ attempt'[a] = t
          /\ \A b \in Attempts \ {a} : attempt'[b] = attempt[b]
      BY <1>1, <3>1, <3>2
    <3>4. n \in 1 .. Len(Transports) BY <2>6, TransportsShape
    <3>5. t.outcome = "none" /\ ~t.permanent BY <1>3, <3>2
    <3>6. AttemptInv(a)' BY <1>2, <1>3, <2>2, <2>5, <3>2, <3>3, <3>4, <3>5 DEF AttemptInv
    <3> QED BY <1>3, <1>6, <2>4, <3>2, <3>3, <3>6 DEF Failures
  <2>7. CASE n \notin DOMAIN Transports
    <3> DEFINE t == [attempt[a] EXCEPT !.n = n, !.op = "none", !.stage = "settled", !.log = log,
                                       !.outcome = AggregateOutcome(log),
                                       !.permanent = AggregatePermanence(log)]
    <3>1. attempt' = [attempt EXCEPT ![a] = t] BY <2>1, <2>7 DEF GoesOn, log
    <3>2. /\ t \in AttemptRecords /\ t.n = n /\ t.log = log /\ t.stage = "settled"
          /\ t.outcome # "delivered" /\ t.permanent = AggregatePermanence(log)
      <4>1. attempt[a] \in AttemptRecords /\ n \in Nat /\ log \in Seq(LogEntries) BY <1>1, <2>2
      <4> HIDE DEF n
      <4>2. t \in AttemptRecords BY <4>1, <2>3
      <4> QED BY <4>1, <4>2, <2>3
    <3> HIDE DEF t
    <3>3. /\ attempt' \in [Attempts -> AttemptRecords] /\ attempt'[a] = t
          /\ \A b \in Attempts \ {a} : attempt'[b] = attempt[b]
      BY <1>1, <3>1, <3>2
    <3>4. Len(log) = Len(Transports)
      BY <1>3, <2>2, <2>7, TransportsShape
    <3>5. t.permanent => AggregatePermanence(log) BY <3>2
    <3>6. AttemptInv(a)' BY <1>2, <1>3, <2>2, <2>5, <3>2, <3>3, <3>4, <3>5 DEF AttemptInv
    <3> QED BY <1>3, <1>6, <2>4, <3>2, <3>3, <3>6 DEF Failures
  <2> QED BY <2>6, <2>7
<1> QED BY <1>4, <1>5, <1>6 DEF Whats

-----------------------------------------------------------------------------
(* What becomes of the child and of the connection.                         *)

LEMMA NoChildNoIpc ==
  /\ NoChild \in ChildRecords /\ NoChild.life = "none" /\ NoChild.pending = "none"
  /\ NoChild.waiter = "none" /\ NoChild.reply = "none" /\ NoChild.wire = <<>>
  /\ NoIpc \in IpcRecords /\ NoIpc.pending = "none" /\ NoIpc.todo = "none" /\ NoIpc.wire = <<>>
BY DEF NoChild, NoIpc, ChildRecords, IpcRecords, Methods

LEMMA TransportsInvInit == Init => TransportsInv
<1> SUFFICES ASSUME Init PROVE TransportsInv OBVIOUS
<1>1. Unsettled \in AttemptRecords BY DEF Unsettled, AttemptRecords, LogEntries
<1>2. TransportsTypeOK
  BY <1>1, NoChildNoIpc DEF Init, InitSelection, TransportsTypeOK
<1>3. ASSUME NEW a \in Attempts PROVE AttemptInv(a) /\ ChildInv(a) /\ IpcInv(a)
  <2>1. attempt[a] = Unsettled /\ child[a] = NoChild /\ ipc[a] = NoIpc /\ tracked = {}
        /\ sent = {} /\ woken = {} /\ serverUp = TRUE
    BY DEF Init, InitSelection
  <2>2. AttemptInv(a) BY <2>1, TransportsShape DEF AttemptInv, Unsettled
  <2>3. ChildInv(a) BY <2>1, NoChildNoIpc DEF ChildInv
  <2>4. IpcInv(a) BY <2>1, NoChildNoIpc DEF IpcInv, Replies, Unsent
  <2> QED BY <2>2, <2>3, <2>4
<1> QED BY <1>2, <1>3 DEF TransportsInv

(* An attempt is at one transport at a time.                                *)
LEMMA AtOneTransport ==
  ASSUME NEW a, NEW s, NEW t, IsAt(a, s), IsAt(a, t) PROVE s = t
BY DEF IsAt

LEMMA ChildFree ==
  ASSUME TransportsInv, NEW a \in Attempts, ~IsAt(a, "appServer"),
         child'[a] = child[a], UNCHANGED <<tracked, serverUp>>
  PROVE  ChildInv(a)' /\ child[a] = NoChild
<1>1. child[a] = NoChild /\ (serverUp => a \notin tracked) BY DEF TransportsInv, ChildInv
<1> QED BY <1>1, NoChildNoIpc DEF ChildInv

LEMMA IpcFree ==
  ASSUME TransportsInv, NEW a \in Attempts, ipc[a].pending = "none", ipc'[a] = ipc[a],
         UNCHANGED settingVars, Unsent(a)' = Unsent(a),
         \A i \in DOMAIN attempt[a].log : i \in DOMAIN attempt'[a].log,
         attempt[a].stage = "settled" => attempt'[a].stage = "settled"
  PROVE  IpcInv(a)'
<1>1. IpcInv(a) /\ ipc[a] = NoIpc BY DEF TransportsInv, IpcInv
<1>2. Transports' = Transports BY SettingsStay
<1>3. Replies(ipc[a])' = {} BY <1>1, NoChildNoIpc DEF Replies
<1>4. Unsent(a) \/ attempt[a].stage = "settled"
        \/ \E i \in DOMAIN attempt[a].log : Transports[i] = "desktop"
  BY <1>1, NoChildNoIpc DEF IpcInv
<1> QED BY <1>1, <1>2, <1>3, <1>4, NoChildNoIpc DEF IpcInv

Moving == {"start", "connecting", "auth", "message", "grace", "running", "calling"}

(* An attempt that is elsewhere than in a call has no connection.           *)
LEMMA NoConnection ==
  ASSUME TransportsInv, NEW a \in Attempts,
         ~IsAt(a, "desktop") \/ attempt[a].stage # "calling"
  PROVE  ipc[a] = NoIpc /\ ipc[a].pending = "none"
BY NoChildNoIpc DEF TransportsInv, IpcInv

LEMMA MessagingStep ==
  ASSUME TransportsInv, NEW a \in Attempts, IsAt(a, "messaging"),
         attempt[a].stage \notin {"none", "settled"}, messagingRest,
         \/ /\ \E s \in Moving : Moves(a, s)
            /\ sent' = sent \/ sent' = sent \cup {<<a, "messaging">>}
         \/ /\ \E what \in Whats : Reports(a, what) /\ ReportIsRight(a, "messaging", what)
            /\ sent' = sent
  PROVE  TransportsInv'
<1> USE DEF messagingRest
<1>1. /\ Unsent(a)' = Unsent(a) /\ SendsRightly(a) BY DEF Unsent, SendsRightly
<1>2. /\ attempt' \in [Attempts -> AttemptRecords] /\ AttemptInv(a)'
      /\ \A b \in Attempts \ {a} : attempt'[b] = attempt[b]
      /\ \A i \in DOMAIN attempt[a].log : i \in DOMAIN attempt'[a].log
  <2>1. CASE \E s \in Moving : Moves(a, s) BY <2>1, <1>1, MoveKeeps DEF Moving
  <2>2. CASE sent' = sent /\ \E what \in Whats : Reports(a, what) /\ ReportIsRight(a, "messaging", what)
    <3>1. PICK what \in Whats : Reports(a, what) /\ ReportIsRight(a, "messaging", what) BY <2>2
    <3>2. UNCHANGED <<settingVars, sent, woken>> BY <2>2
    <3> QED BY <3>1, <3>2, ReportKeeps DEF TransportNames
  <2> QED BY <2>1, <2>2
<1>3. TransportsTypeOK' BY <1>2 DEF TransportsInv, TransportsTypeOK, settingVars
<1>4. ~IsAt(a, "appServer") /\ ~IsAt(a, "desktop") BY AtOneTransport
<1>5. ChildInv(a)' BY <1>4, ChildFree
<1>6. IpcInv(a)' BY <1>1, <1>2, <1>4, NoConnection, IpcFree
<1>7. OnlyOf(a) BY <1>2 DEF OnlyOf
<1> QED BY <1>2, <1>3, <1>5, <1>6, <1>7, OthersKeep

LEMMA MessagingKeeps ==
  ASSUME TransportsInv, NEW a \in Attempts,
         \/ MessagingStarts(a) \/ Connects(a) \/ LineWritten(a) \/ SocketFails(a)
         \/ ConnectTimesOut(a) \/ SocketCloses(a) \/ GraceEnds(a)
  PROVE  TransportsInv'
<1>1. /\ IsAt(a, "messaging") /\ messagingRest
      /\ attempt[a].stage \in {"start", "connecting", "auth", "message", "grace"}
  BY DEF MessagingStarts, Connects, LineWritten, SocketFails, ConnectTimesOut, SocketCloses,
         GraceEnds, Stands, At, IsAt
<1>2. \/ /\ \E s \in Moving : Moves(a, s)
         /\ sent' = sent \/ sent' = sent \cup {<<a, "messaging">>}
      \/ /\ \E what \in Whats : Reports(a, what) /\ ReportIsRight(a, "messaging", what)
         /\ sent' = sent
  <2> USE DEF Moving, Whats, Failures, ReportIsRight
  <2>1. CASE MessagingStarts(a) BY <2>1 DEF MessagingStarts
  <2>2. CASE Connects(a) BY <2>2 DEF Connects
  <2>3. CASE LineWritten(a) BY <2>3 DEF LineWritten
  <2>4. CASE SocketFails(a) BY <2>4 DEF SocketFails
  <2>5. CASE ConnectTimesOut(a) BY <2>5 DEF ConnectTimesOut
  <2>6. CASE SocketCloses(a) BY <2>6 DEF SocketCloses
  <2>7. CASE GraceEnds(a) BY <2>7 DEF GraceEnds
  <2> QED BY <2>1, <2>2, <2>3, <2>4, <2>5, <2>6, <2>7
<1> QED BY <1>1, <1>2, MessagingStep

(* The attempt begins at its first transport.                               *)
LEMMA DispatchKeeps ==
  ASSUME TransportsInv, NEW a \in Attempts, Dispatch(a),
         UNCHANGED <<settingVars, child, tracked, serverUp, ipc, sent, woken>>
  PROVE  TransportsInv'
<1>1. AttemptInv(a) /\ attempt \in [Attempts -> AttemptRecords] BY DEF TransportsInv, TransportsTypeOK
<1>2. /\ attempt' \in [Attempts -> AttemptRecords]
      /\ \A b \in Attempts \ {a} : attempt'[b] = attempt[b]
      /\ attempt'[a].n = 1 /\ attempt'[a].log = attempt[a].log
      /\ attempt'[a].stage = "start" /\ attempt'[a].outcome = attempt[a].outcome
      /\ attempt'[a].permanent = attempt[a].permanent
  <2> DEFINE t == [attempt[a] EXCEPT !.n = 1, !.op = "probe", !.stage = "start"]
  <2>1. attempt' = [attempt EXCEPT ![a] = t] BY <1>1 DEF Dispatch, AttemptRecords
  <2>2. /\ t \in AttemptRecords /\ t.n = 1 /\ t.log = attempt[a].log /\ t.stage = "start"
        /\ t.outcome = attempt[a].outcome /\ t.permanent = attempt[a].permanent
    BY <1>1 DEF AttemptRecords
  <2> HIDE DEF t
  <2> QED BY <1>1, <2>1, <2>2
<1>3. attempt[a].n = 0 /\ attempt[a].log = <<>> /\ attempt[a].stage = "none" /\ Transports # <<>>
  BY <1>1 DEF Dispatch, AttemptInv
<1>4. Transports' = Transports BY SettingsStay
<1>5. ~attempt'[a].permanent /\ attempt'[a].outcome = "none" BY <1>1, <1>2, <1>3 DEF AttemptInv
<1>6. AttemptInv(a)' BY <1>2, <1>3, <1>4, <1>5, TransportsShape DEF AttemptInv
<1>7. ~IsAt(a, "appServer") /\ ~IsAt(a, "desktop") BY <1>3, TransportsShape DEF IsAt
<1>8. ChildInv(a)' BY <1>7, ChildFree
<1>9. IpcInv(a)' BY <1>2, <1>3, <1>7, NoConnection, IpcFree DEF Unsent
<1>10. TransportsTypeOK' BY <1>2 DEF TransportsInv, TransportsTypeOK, settingVars
<1>11. OnlyOf(a) BY <1>2 DEF OnlyOf
<1> QED BY <1>6, <1>8, <1>9, <1>10, <1>11, OthersKeep

-----------------------------------------------------------------------------
(* The app-server.                                                          *)

(* A step at the app-server leaves the connection to the desktop app alone. *)
LEMMA AppServerStep ==
  ASSUME TransportsInv, NEW a \in Attempts, IsAt(a, "appServer"), NEW c \in ChildRecords,
         Becomes(a, c), UNCHANGED <<settingVars, serverUp, ipc, sent>>,
         tracked' \in {tracked, tracked \cup {a}, tracked \ {a}},
         woken' \in {woken, woken \cup {<<a, "appServer">>}},
         attempt' \in [Attempts -> AttemptRecords], AttemptInv(a)',
         \A b \in Attempts \ {a} : attempt'[b] = attempt[b],
         \A i \in DOMAIN attempt[a].log : i \in DOMAIN attempt'[a].log,
         attempt[a].stage = "settled" => attempt'[a].stage = "settled",
         child'[a] = c => ChildInv(a)'
  PROVE  TransportsInv'
<1>1. /\ child' \in [Attempts -> ChildRecords] /\ child'[a] = c
      /\ \A b \in Attempts \ {a} : child'[b] = child[b]
  BY DEF TransportsInv, TransportsTypeOK, Becomes
<1>2. TransportsTypeOK' BY <1>1 DEF TransportsInv, TransportsTypeOK, settingVars
<1>3. ~IsAt(a, "desktop") BY AtOneTransport
<1>4. Unsent(a)' = Unsent(a) BY DEF Unsent
<1>5. IpcInv(a)' BY <1>3, <1>4, NoConnection, IpcFree
<1>6. OnlyOf(a) BY <1>1 DEF OnlyOf
<1> QED BY <1>1, <1>2, <1>5, <1>6, OthersKeep

(* The child of an attempt that stands still.                               *)
LEMMA ChildStep ==
  ASSUME TransportsInv, NEW a \in Attempts, child[a].life # "none", NEW c \in ChildRecords,
         Becomes(a, c), UNCHANGED <<attempt, settingVars, tracked, serverUp, ipc, sent>>,
         woken' \in {woken, woken \cup {<<a, "appServer">>}},
         child'[a] = c => ChildInv(a)'
  PROVE  TransportsInv'
<1>1. IsAt(a, "appServer") /\ attempt \in [Attempts -> AttemptRecords]
  BY DEF TransportsInv, TransportsTypeOK, ChildInv
<1>2. SendsRightly(a) BY DEF SendsRightly, Unsent
<1>3. AttemptInv(a)' BY <1>2, StillKeeps
<1> QED BY <1>1, <1>3, AppServerStep

LEMMA SpawnKeeps ==
  ASSUME TransportsInv, NEW a \in Attempts, serverUp, Spawns(a) \/ SpawnFails(a)
  PROVE  TransportsInv'
<1>1. IsAt(a, "appServer") /\ attempt[a].stage = "start"
  BY DEF Spawns, SpawnFails, Stands, At, IsAt
<1>3. UNCHANGED <<settingVars, serverUp, ipc, sent, woken>> BY DEF Spawns, SpawnFails, appServerRest
<1>4. child[a] = NoChild /\ SendsRightly(a)
  BY <1>1, <1>3 DEF TransportsInv, ChildInv, SendsRightly, Unsent
<1>5. CASE Spawns(a)
  <2> DEFINE c == [NoChild EXCEPT !.life = "up", !.pending = "initialize", !.todo = "initialize"]
  <2>1. /\ c \in ChildRecords /\ c.life = "up" /\ c.pending = "initialize" /\ c.waiter = "none"
        /\ c.reply = "none" /\ c.wire = <<>>
    BY NoChildNoIpc DEF ChildRecords, Methods, NoChild
  <2>2. Becomes(a, c) /\ Moves(a, "running") /\ tracked' = tracked \cup {a} BY <1>5 DEF Spawns
  <2> HIDE DEF c
  <2>3. /\ attempt' \in [Attempts -> AttemptRecords] /\ AttemptInv(a)'
        /\ \A b \in Attempts \ {a} : attempt'[b] = attempt[b]
        /\ attempt'[a].log = attempt[a].log /\ attempt'[a].stage = "running"
        /\ IsAt(a, "appServer")'
    BY <1>1, <1>4, <2>2, MoveKeeps
  <2>4. child'[a] = c => ChildInv(a)' BY <1>3, <2>1, <2>2, <2>3 DEF ChildInv
  <2> QED BY <1>1, <1>3, <2>1, <2>2, <2>3, <2>4, AppServerStep
<1>6. CASE SpawnFails(a)
  <2>1. /\ attempt' \in [Attempts -> AttemptRecords] /\ AttemptInv(a)'
        /\ \A b \in Attempts \ {a} : attempt'[b] = attempt[b]
        /\ \A i \in DOMAIN attempt[a].log : i \in DOMAIN attempt'[a].log
    <3>1. Reports(a, "unavailable") /\ ReportIsRight(a, "appServer", "unavailable")
      BY <1>6 DEF SpawnFails, ReportIsRight
    <3> QED BY <1>1, <1>3, <3>1, ReportKeeps DEF Whats, Failures, TransportNames
  <2>2. child' = child /\ tracked' = tracked BY <1>6 DEF SpawnFails
  <2>3. Becomes(a, NoChild) BY <1>4, <2>2 DEF Becomes, TransportsInv, TransportsTypeOK
  <2>4. ChildInv(a)'
    <3>1. a \notin tracked BY <1>4, NoChildNoIpc DEF TransportsInv, ChildInv
    <3> QED BY <1>4, <2>2, <3>1, NoChildNoIpc DEF ChildInv
  <2> QED BY <1>1, <1>3, <2>1, <2>2, <2>3, <2>4, NoChildNoIpc, AppServerStep
<1> QED BY <1>5, <1>6

(* shutdownChild keeps all but the control of the child.                    *)
LEMMA AskedShape ==
  ASSUME NEW c \in ChildRecords, NEW reply \in {"none", "available", "refused", "unavailable"}
  PROVE  /\ AskedToEnd(c, reply) \in ChildRecords
         /\ AskedToEnd(c, reply).life = "asked" /\ AskedToEnd(c, reply).pending = "none"
         /\ AskedToEnd(c, reply).waiter = "none" /\ AskedToEnd(c, reply).reply = reply
         /\ AskedToEnd(c, reply).wire = c.wire
BY DEF AskedToEnd, ChildRecords, Methods

(* A child is asked to end, and will report to an attempt that waits.       *)
LEMMA AskingKeeps ==
  ASSUME TransportsInv, NEW a \in Attempts, serverUp, NEW c \in ChildRecords,
         NEW reply \in {"none", "available", "refused", "unavailable"},
         child[a].life = "up", reply # "none" => attempt[a].stage = "running",
         \A k \in DOMAIN c.wire : c.wire[k] = "started" => <<a, "appServer">> \in woken,
         Becomes(a, AskedToEnd(c, reply)), UNCHANGED <<attempt, tracked>>, appServerRest
  PROVE  TransportsInv'
<1> DEFINE d == AskedToEnd(c, reply)
<1>1. /\ d \in ChildRecords /\ d.life = "asked" /\ d.pending = "none" /\ d.waiter = "none"
      /\ d.reply = reply /\ d.wire = c.wire
  BY AskedShape
<1> HIDE DEF d
<1>2. ChildInv(a) /\ UNCHANGED <<settingVars, serverUp, ipc, sent, woken>> /\ Becomes(a, d)
  BY DEF TransportsInv, appServerRest, d
<1>3. IsAt(a, "appServer")' = IsAt(a, "appServer")
  BY <1>2, StillKeeps DEF SendsRightly, Unsent
<1>4. child'[a] = d => ChildInv(a)' BY <1>1, <1>2, <1>3 DEF ChildInv
<1> QED BY <1>1, <1>2, <1>4, ChildStep

LEMMA ChildTimersKeep ==
  ASSUME TransportsInv, NEW a \in Attempts, serverUp,
         TermGraceEnds(a) \/ RequestTimesOut(a) \/ WaitTimesOut(a)
  PROVE  TransportsInv'
<1>1. ChildInv(a) /\ child[a] \in ChildRecords BY DEF TransportsInv, TransportsTypeOK
<1>2. CASE TermGraceEnds(a)
  <2> DEFINE c == [child[a] EXCEPT !.life = "killed"]
  <2>1. /\ c \in ChildRecords /\ c.life = "killed" /\ c.pending = child[a].pending
        /\ c.waiter = child[a].waiter /\ c.reply = child[a].reply /\ c.wire = child[a].wire
    BY <1>1 DEF ChildRecords
  <2>2. Becomes(a, c) /\ child[a].life = "asked" /\ UNCHANGED <<attempt, tracked>>
        /\ UNCHANGED <<settingVars, serverUp, ipc, sent, woken>>
    BY <1>2 DEF TermGraceEnds, Kills, appServerRest
  <2> HIDE DEF c
  <2>3. IsAt(a, "appServer")' = IsAt(a, "appServer")
    BY <2>2, StillKeeps DEF SendsRightly, Unsent
  <2>4. child'[a] = c => ChildInv(a)' BY <1>1, <2>1, <2>2, <2>3 DEF ChildInv
  <2> QED BY <2>1, <2>2, <2>4, ChildStep
<1>3. CASE RequestTimesOut(a)
  <2>1. child[a].life = "up" /\ attempt[a].stage = "running"
    BY <1>1, <1>3, NoChildNoIpc DEF RequestTimesOut, ChildInv, ChildRecords
  <2> QED BY <1>1, <1>3, <2>1, AskingKeeps DEF RequestTimesOut, ChildInv
<1>4. CASE WaitTimesOut(a)
  <2> DEFINE reply == IF child[a].waiter = "started" THEN "refused" ELSE "none"
  <2>1. child[a].life = "up" /\ (child[a].waiter = "started" => attempt[a].stage = "running")
    BY <1>1, <1>4, NoChildNoIpc DEF WaitTimesOut, ChildInv, ChildRecords
  <2>2. reply \in {"none", "refused"} /\ (reply # "none" => attempt[a].stage = "running") BY <2>1
  <2>3. Becomes(a, AskedToEnd(child[a], reply)) /\ UNCHANGED <<attempt, tracked>> /\ appServerRest
    BY <1>4 DEF WaitTimesOut
  <2> HIDE DEF reply
  <2> QED BY <1>1, <2>1, <2>2, <2>3, AskingKeeps DEF ChildInv
<1> QED BY <1>2, <1>3, <1>4

LEMMA ChildExitKeeps ==
  ASSUME TransportsInv, NEW a \in Attempts, ChildExits(a) PROVE TransportsInv'
<1> DEFINE reply == ReplyOnExit(child[a])
<1>1. ChildInv(a) /\ child[a] \in ChildRecords /\ attempt \in [Attempts -> AttemptRecords]
  BY DEF TransportsInv, TransportsTypeOK
<1>2. /\ child[a].life # "none" /\ serverUp /\ Becomes(a, NoChild) /\ tracked' = tracked \ {a}
      /\ IF reply = "none" THEN UNCHANGED attempt ELSE Reports(a, reply)
      /\ UNCHANGED <<settingVars, serverUp, ipc, sent, woken>>
  BY DEF ChildExits, appServerRest
<1>3. IsAt(a, "appServer") /\ child[a].life \in {"up", "asked", "killed"}
  BY <1>1, <1>2 DEF ChildInv, ChildRecords
<1>4. /\ reply \in {"none", "available", "refused", "unavailable"}
      /\ reply # "none" => attempt[a].stage = "running"
  <2>1. CASE child[a].life # "up" BY <1>1, <2>1 DEF ReplyOnExit, ChildInv, ChildRecords
  <2>2. CASE child[a].life = "up" /\ child[a].pending # "none"
    BY <1>1, <2>2 DEF ReplyOnExit, ChildInv
  <2>3. CASE child[a].life = "up" /\ child[a].pending = "none" /\ child[a].waiter = "started"
    BY <1>1, <2>3 DEF ReplyOnExit, ChildInv
  <2>4. CASE child[a].life = "up" /\ child[a].pending = "none" /\ child[a].waiter # "started"
    BY <2>4 DEF ReplyOnExit
  <2> QED BY <2>1, <2>2, <2>3, <2>4
<1> HIDE DEF reply
<1>5. /\ attempt' \in [Attempts -> AttemptRecords] /\ AttemptInv(a)'
      /\ \A b \in Attempts \ {a} : attempt'[b] = attempt[b]
      /\ \A i \in DOMAIN attempt[a].log : i \in DOMAIN attempt'[a].log
      /\ attempt[a].stage = "settled" => attempt'[a].stage = "settled"
  <2>1. CASE reply = "none"
    BY <1>1, <1>2, <2>1, StillKeeps DEF SendsRightly, Unsent
  <2>2. CASE reply # "none"
    <3>1. ReportIsRight(a, "appServer", reply) /\ reply \in Whats
      BY <1>4, <2>2 DEF ReportIsRight, Whats, Failures
    <3> QED BY <1>2, <1>3, <1>4, <2>2, <3>1, ReportKeeps DEF TransportNames
  <2> QED BY <2>1, <2>2
<1>6. child'[a] = NoChild => ChildInv(a)' BY <1>2, NoChildNoIpc DEF ChildInv
<1> QED BY <1>2, <1>3, <1>5, <1>6, NoChildNoIpc, AppServerStep

(* What is left of a child's lines says no more than all of them did.       *)
LEMMA RestOfWire ==
  ASSUME NEW r \in ChildRecords, NEW n \in 1 .. Len(r.wire)
  PROVE  LET c == [r EXCEPT !.wire = After(@, n)]
         IN  /\ c \in ChildRecords /\ c.life = r.life /\ c.pending = r.pending
             /\ c.waiter = r.waiter /\ c.reply = r.reply
             /\ \A k \in DOMAIN c.wire : \E l \in DOMAIN r.wire : c.wire[k] = r.wire[l]
<1> DEFINE c == [r EXCEPT !.wire = After(@, n)]
<1>1. r.wire \in Seq(Messages) BY DEF ChildRecords
<1>2. After(r.wire, n) \in Seq(Messages) BY <1>1, Cut
<1>3. /\ c \in ChildRecords /\ c.life = r.life /\ c.pending = r.pending
      /\ c.waiter = r.waiter /\ c.reply = r.reply /\ c.wire = After(r.wire, n)
  BY <1>2 DEF ChildRecords
<1>4. \A k \in 1 .. Len(r.wire) - n : n + k \in DOMAIN r.wire /\ After(r.wire, n)[k] = r.wire[n + k]
  BY <1>1, Cut
<1>5. DOMAIN After(r.wire, n) = 1 .. Len(r.wire) - n BY <1>1, Cut
<1> HIDE DEF c
<1>6. \A k \in DOMAIN c.wire : \E l \in DOMAIN r.wire : c.wire[k] = r.wire[l]
  BY <1>3, <1>4, <1>5
<1> QED BY <1>3, <1>6 DEF c

(* A reply leads to the next request, to the wait for the turn, or to the   *)
(* end of the child.                                                        *)
LEMMA ReplyShape ==
  ASSUME NEW c \in ChildRecords, NEW op, NEW r, c.life = "up", c.reply = "none",
         c.waiter = "none", c.pending # "none"
  PROVE  \/ /\ OnReply(c, op, r) \in ChildRecords
            /\ OnReply(c, op, r).life = "up" /\ OnReply(c, op, r).reply = "none"
            /\ OnReply(c, op, r).wire = c.wire
            /\ OnReply(c, op, r).pending # "none" => OnReply(c, op, r).waiter = "none"
         \/ \E reply \in {"available", "refused", "unavailable"} :
              OnReply(c, op, r) = AskedToEnd(c, reply)
<1> USE DEF ChildRecords, Methods
<1>1. \A m \in {"list", "goal"}, p \in Nat :
        /\ Requesting(c, m, p) \in ChildRecords /\ Requesting(c, m, p).life = "up"
        /\ Requesting(c, m, p).reply = "none" /\ Requesting(c, m, p).wire = c.wire
        /\ Requesting(c, m, p).waiter = "none"
  BY DEF Requesting
<1>2. c.page + 1 \in Nat OBVIOUS
<1>3. CASE c.pending = "initialize" /\ r = "ok" BY <1>1, <1>3 DEF OnReply
<1>4. CASE c.pending = "list" /\ r = "enabled" BY <1>4 DEF OnReply
<1>5. CASE c.pending = "list" /\ r = "more" /\ c.page < MAX_FEATURE_LIST_PAGES
  <2> DEFINE d == Requesting(c, "list", c.page + 1)
  <2>1. OnReply(c, op, r) = d BY <1>5 DEF OnReply
  <2> HIDE DEF ChildRecords, Methods
  <2>2. /\ d \in ChildRecords /\ d.life = "up" /\ d.reply = "none"
        /\ d.wire = c.wire /\ d.waiter = "none"
    BY <1>1, <1>2
  <2> HIDE DEF d
  <2> QED BY <2>1, <2>2
<1>6. CASE c.pending = "goal" /\ r = "ok"
  <2> DEFINE d == [c EXCEPT !.pending = "none", !.waiter = "started"]
  <2>1. OnReply(c, op, r) = d BY <1>6 DEF OnReply
  <2>2. d \in ChildRecords OBVIOUS
  <2>3. d.life = "up" /\ d.reply = "none" /\ d.wire = c.wire /\ d.pending = "none"
    OBVIOUS
  <2> HIDE DEF d, ChildRecords, Methods
  <2> QED BY <2>1, <2>2, <2>3
<1>7. CASE c.pending = "goal" /\ r = "error" BY <1>7 DEF OnReply
<1>8. CASE /\ ~(c.pending = "initialize" /\ r = "ok") /\ ~(c.pending = "list" /\ r = "enabled")
           /\ ~(c.pending = "list" /\ r = "more" /\ c.page < MAX_FEATURE_LIST_PAGES)
           /\ ~(c.pending = "goal" /\ r = "ok") /\ ~(c.pending = "goal" /\ r = "error")
  BY <1>8 DEF OnReply
<1> QED BY <1>3, <1>4, <1>5, <1>6, <1>7, <1>8

(* A chunk of lines: a reply, the start of the turn, its end, or nothing    *)
(* that is waited for.                                                      *)
LEMMA StdoutKeeps ==
  ASSUME TransportsInv, NEW a \in Attempts, serverUp, NEW n \in 1 .. Len(child[a].wire),
         StdoutData(a, n)
  PROVE  TransportsInv'
<1> DEFINE c     == [child[a] EXCEPT !.wire = After(@, n)]
           lines == Prefix(child[a].wire, n)
<1>1. /\ ChildInv(a) /\ child[a] \in ChildRecords /\ attempt \in [Attempts -> AttemptRecords]
      /\ AttemptInv(a) /\ child[a].life = "up" /\ IsAt(a, "appServer") /\ a \in tracked
  BY DEF TransportsInv, TransportsTypeOK, ChildInv, StdoutData
<1>2. /\ c \in ChildRecords /\ c.life = "up" /\ c.pending = child[a].pending
      /\ c.waiter = child[a].waiter /\ c.reply = "none"
      /\ \A k \in DOMAIN c.wire : c.wire[k] = "started" => <<a, "appServer">> \in woken
  <2>1. /\ c \in ChildRecords /\ c.life = "up" /\ c.pending = child[a].pending
        /\ c.waiter = child[a].waiter /\ c.reply = child[a].reply
        /\ \A k \in DOMAIN c.wire : \E l \in DOMAIN child[a].wire : c.wire[k] = child[a].wire[l]
    BY <1>1, RestOfWire
  <2> HIDE DEF c
  <2> QED BY <1>1, <2>1 DEF ChildInv
<1>3. \A i \in 1 .. n : lines[i] = child[a].wire[i] /\ i \in DOMAIN child[a].wire
  BY <1>1, Cut DEF ChildRecords
<1>4. UNCHANGED <<settingVars, serverUp, ipc, sent, woken, tracked>> BY DEF StdoutData, appServerRest
<1>5. SendsRightly(a) BY <1>4 DEF SendsRightly, Unsent
<1>6. \/ /\ c.pending # "none" /\ UNCHANGED attempt
         /\ \E i \in 1 .. n : Becomes(a, OnReply(c, attempt[a].op, lines[i]))
      \/ /\ c.waiter = "started" /\ \E i \in 1 .. n : Matches("started", lines[i])
         /\ Becomes(a, [c EXCEPT !.waiter = "completed"]) /\ Reports(a, "delivered")
      \/ c.waiter = "completed" /\ Becomes(a, AskedToEnd(c, "none")) /\ UNCHANGED attempt
      \/ Becomes(a, c) /\ UNCHANGED attempt
  BY DEF StdoutData
<1> HIDE DEF c, lines
<1>7. ASSUME UNCHANGED attempt, NEW d \in ChildRecords, Becomes(a, d), d.life = "up",
             d.reply = "none", d.wire = c.wire, d.pending # "none" => d.waiter = "none",
             d.pending # "none" \/ d.waiter = "started" => attempt[a].stage = "running"
      PROVE  TransportsInv'
  <2>1. IsAt(a, "appServer")' = IsAt(a, "appServer") BY <1>5, <1>7, StillKeeps
  <2>2. child'[a] = d => ChildInv(a)' BY <1>1, <1>2, <1>4, <1>7, <2>1 DEF ChildInv
  <2> QED BY <1>1, <1>4, <1>7, <2>2, ChildStep
<1>8. CASE /\ c.pending # "none" /\ UNCHANGED attempt
           /\ \E i \in 1 .. n : Becomes(a, OnReply(c, attempt[a].op, lines[i]))
  <2>1. PICK i \in 1 .. n : Becomes(a, OnReply(c, attempt[a].op, lines[i])) BY <1>8
  <2>2. c.waiter = "none" /\ attempt[a].stage = "running" BY <1>1, <1>2, <1>8 DEF ChildInv
  <2> DEFINE d == OnReply(c, attempt[a].op, lines[i])
  <2>3. \/ /\ d \in ChildRecords /\ d.life = "up" /\ d.reply = "none" /\ d.wire = c.wire
           /\ d.pending # "none" => d.waiter = "none"
        \/ \E reply \in {"available", "refused", "unavailable"} : d = AskedToEnd(c, reply)
    BY <1>2, <1>8, <2>2, ReplyShape
  <2>4. Becomes(a, d) BY <2>1
  <2> HIDE DEF d
  <2>5. CASE \E reply \in {"available", "refused", "unavailable"} : d = AskedToEnd(c, reply)
    <3>1. PICK reply \in {"available", "refused", "unavailable"} : d = AskedToEnd(c, reply) BY <2>5
    <3> QED BY <1>1, <1>2, <1>4, <1>8, <2>2, <2>4, <3>1, AskingKeeps DEF appServerRest
  <2> QED BY <1>7, <1>8, <2>2, <2>3, <2>4, <2>5
<1>9. CASE /\ c.waiter = "started" /\ \E i \in 1 .. n : Matches("started", lines[i])
           /\ Becomes(a, [c EXCEPT !.waiter = "completed"]) /\ Reports(a, "delivered")
  <2> DEFINE d == [c EXCEPT !.waiter = "completed"]
  <2>1. /\ d \in ChildRecords /\ d.life = "up" /\ d.pending = c.pending /\ d.waiter = "completed"
        /\ d.reply = "none" /\ d.wire = c.wire
    BY <1>2 DEF ChildRecords
  <2>2. Becomes(a, d) BY <1>9
  <2> HIDE DEF d
  <2>3. <<a, "appServer">> \in woken BY <1>1, <1>3, <1>9 DEF Matches, ChildInv
  <2>4. c.pending = "none" /\ attempt[a].stage = "running" BY <1>1, <1>2, <1>9 DEF ChildInv
  <2>5. ReportIsRight(a, "appServer", "delivered") BY <2>3 DEF ReportIsRight
  <2>6. /\ attempt' \in [Attempts -> AttemptRecords] /\ AttemptInv(a)'
        /\ \A b \in Attempts \ {a} : attempt'[b] = attempt[b]
        /\ attempt'[a].stage = "settled" /\ IsAt(a, "appServer")'
        /\ \A i \in DOMAIN attempt[a].log : i \in DOMAIN attempt'[a].log
    BY <1>1, <1>4, <1>9, <2>4, <2>5, ReportKeeps DEF Whats, TransportNames
  <2>7. child'[a] = d => ChildInv(a)'
    BY <1>1, <1>2, <1>4, <2>1, <2>4, <2>6 DEF ChildInv
  <2> QED BY <1>1, <1>4, <2>1, <2>2, <2>6, <2>7, AppServerStep
<1>10. CASE c.waiter = "completed" /\ Becomes(a, AskedToEnd(c, "none")) /\ UNCHANGED attempt
  BY <1>1, <1>2, <1>4, <1>10, AskingKeeps DEF appServerRest
<1>11. CASE Becomes(a, c) /\ UNCHANGED attempt
  <2>1. /\ c.pending # "none" => c.waiter = "none"
        /\ c.pending # "none" \/ c.waiter = "started" => attempt[a].stage = "running"
    BY <1>1, <1>2 DEF ChildInv
  <2> QED BY <1>2, <1>7, <1>11, <2>1
<1> QED BY <1>6, <1>8, <1>9, <1>10, <1>11

(* The app-server's own steps: it says something, and a turn it announces   *)
(* has begun.                                                               *)
LEMMA SayingKeeps ==
  ASSUME TransportsInv, NEW a \in Attempts, Running(a), NEW m \in Messages, NEW c \in ChildRecords,
         c.life = child[a].life, c.pending = child[a].pending, c.waiter = child[a].waiter,
         c.reply = child[a].reply, c.wire = Append(child[a].wire, m), Becomes(a, c),
         UNCHANGED <<attempt, settingVars, tracked, serverUp, ipc, sent>>,
         woken' \in {woken, woken \cup {<<a, "appServer">>}},
         m = "started" => <<a, "appServer">> \in woken'
  PROVE  TransportsInv'
<1>1. ChildInv(a) /\ child[a] \in ChildRecords /\ child[a].life \in {"up", "asked"}
  BY DEF TransportsInv, TransportsTypeOK, Running
<1>2. \A k \in DOMAIN c.wire : c.wire[k] = "started" => <<a, "appServer">> \in woken'
  <2>1. child[a].wire \in Seq(Messages) BY <1>1 DEF ChildRecords
  <2>2. \A k \in DOMAIN c.wire :
          \/ k \in DOMAIN child[a].wire /\ c.wire[k] = child[a].wire[k]
          \/ c.wire[k] = m
    BY <2>1
  <2> QED BY <1>1, <2>2 DEF ChildInv
<1>3. IsAt(a, "appServer")' = IsAt(a, "appServer") BY StillKeeps DEF SendsRightly, Unsent
<1>4. child'[a] = c => ChildInv(a)' BY <1>1, <1>2, <1>3 DEF ChildInv
<1> QED BY <1>1, <1>4, ChildStep

LEMMA SaysShape ==
  ASSUME NEW a, child[a] \in ChildRecords, NEW m \in Messages
  PROVE  /\ Says(a, m) \in ChildRecords /\ Says(a, m).life = child[a].life
         /\ Says(a, m).pending = child[a].pending /\ Says(a, m).waiter = child[a].waiter
         /\ Says(a, m).reply = child[a].reply /\ Says(a, m).wire = Append(child[a].wire, m)
<1>1. child[a].wire \in Seq(Messages) BY DEF ChildRecords
<1>2. Append(child[a].wire, m) \in Seq(Messages) BY <1>1
<1> QED BY <1>2 DEF Says, ChildRecords

LEMMA AppServerKeeps ==
  ASSUME TransportsInv, NEW a \in Attempts,
         AppServerReplies(a) \/ TurnStarts(a) \/ TurnCompletes(a) \/ OtherThreadStarts(a)
  PROVE  TransportsInv'
<1>1. child[a] \in ChildRecords /\ child[a].wire \in Seq(Messages)
  BY DEF TransportsInv, TransportsTypeOK, ChildRecords
<1>2. CASE AppServerReplies(a)
  <2>1. PICK r \in {"enabled", "disabled", "more", "error", "ok"} :
          Becomes(a, [Says(a, r) EXCEPT !.todo = "none",
                                        !.goal = IF child[a].todo = "goal" /\ r = "ok"
                                                 THEN "set" ELSE @])
    BY <1>2 DEF AppServerReplies
  <2> DEFINE c == [Says(a, r) EXCEPT !.todo = "none",
                                     !.goal = IF child[a].todo = "goal" /\ r = "ok" THEN "set" ELSE @]
  <2>2. r \in Messages /\ r # "started" BY DEF Messages
  <2>3. /\ c \in ChildRecords /\ c.life = child[a].life /\ c.pending = child[a].pending
        /\ c.waiter = child[a].waiter /\ c.reply = child[a].reply
        /\ c.wire = Append(child[a].wire, r)
    <3> DEFINE g == IF child[a].todo = "goal" /\ r = "ok" THEN "set" ELSE Says(a, r).goal
    <3>1. Says(a, r) \in ChildRecords BY <1>1, <2>2, SaysShape
    <3>2. g \in {"none", "set", "turn"} BY <3>1 DEF ChildRecords
    <3>3. c = [Says(a, r) EXCEPT !.todo = "none", !.goal = g] OBVIOUS
    <3> HIDE DEF c, g
    <3>4. /\ c \in ChildRecords /\ c.life = Says(a, r).life /\ c.pending = Says(a, r).pending
          /\ c.waiter = Says(a, r).waiter /\ c.reply = Says(a, r).reply /\ c.wire = Says(a, r).wire
      BY <3>1, <3>2, <3>3 DEF ChildRecords, Methods
    <3> QED BY <1>1, <2>2, <3>4, SaysShape
  <2>4. Becomes(a, c) BY <2>1
  <2> HIDE DEF c
  <2> QED BY <1>2, <2>2, <2>3, <2>4, SayingKeeps DEF AppServerReplies
<1>3. CASE TurnStarts(a)
  <2> DEFINE c == [Says(a, "started") EXCEPT !.goal = "turn"]
  <2>1. /\ c \in ChildRecords /\ c.life = child[a].life /\ c.pending = child[a].pending
        /\ c.waiter = child[a].waiter /\ c.reply = child[a].reply
        /\ c.wire = Append(child[a].wire, "started")
    <3>1. "started" \in Messages BY DEF Messages
    <3>2. Says(a, "started") \in ChildRecords BY <1>1, <3>1, SaysShape
    <3>3. /\ c \in ChildRecords /\ c.life = Says(a, "started").life
          /\ c.pending = Says(a, "started").pending /\ c.waiter = Says(a, "started").waiter
          /\ c.reply = Says(a, "started").reply /\ c.wire = Says(a, "started").wire
      BY <3>2 DEF ChildRecords
    <3> HIDE DEF c
    <3> QED BY <1>1, <3>1, <3>3, SaysShape
  <2>2. Becomes(a, c) BY <1>3 DEF TurnStarts
  <2> HIDE DEF c
  <2> QED BY <1>3, <2>1, <2>2, SayingKeeps DEF TurnStarts, Messages
<1>4. CASE TurnCompletes(a)
  <2> DEFINE c == [Says(a, "completed") EXCEPT !.goal = "none"]
  <2>1. /\ c \in ChildRecords /\ c.life = child[a].life /\ c.pending = child[a].pending
        /\ c.waiter = child[a].waiter /\ c.reply = child[a].reply
        /\ c.wire = Append(child[a].wire, "completed")
    <3>1. "completed" \in Messages BY DEF Messages
    <3>2. Says(a, "completed") \in ChildRecords BY <1>1, <3>1, SaysShape
    <3>3. /\ c \in ChildRecords /\ c.life = Says(a, "completed").life
          /\ c.pending = Says(a, "completed").pending /\ c.waiter = Says(a, "completed").waiter
          /\ c.reply = Says(a, "completed").reply /\ c.wire = Says(a, "completed").wire
      BY <3>2 DEF ChildRecords
    <3> HIDE DEF c
    <3> QED BY <1>1, <3>1, <3>3, SaysShape
  <2>2. Becomes(a, c) BY <1>4 DEF TurnCompletes
  <2> HIDE DEF c
  <2> QED BY <1>4, <2>1, <2>2, SayingKeeps DEF TurnCompletes, Messages
<1>5. CASE OtherThreadStarts(a)
  <2> DEFINE c == [Says(a, "startedElsewhere") EXCEPT !.stray = @ + 1]
  <2>1. /\ c \in ChildRecords /\ c.life = child[a].life /\ c.pending = child[a].pending
        /\ c.waiter = child[a].waiter /\ c.reply = child[a].reply
        /\ c.wire = Append(child[a].wire, "startedElsewhere")
    <3>1. "startedElsewhere" \in Messages BY DEF Messages
    <3>2. Says(a, "startedElsewhere") \in ChildRecords BY <1>1, <3>1, SaysShape
    <3>3. /\ c \in ChildRecords /\ c.life = Says(a, "startedElsewhere").life
          /\ c.pending = Says(a, "startedElsewhere").pending /\ c.waiter = Says(a, "startedElsewhere").waiter
          /\ c.reply = Says(a, "startedElsewhere").reply /\ c.wire = Says(a, "startedElsewhere").wire
      BY <3>2 DEF ChildRecords
    <3> HIDE DEF c
    <3> QED BY <1>1, <3>1, <3>3, SaysShape
  <2>2. Becomes(a, c) BY <1>5 DEF OtherThreadStarts
  <2> HIDE DEF c
  <2> QED BY <1>5, <2>1, <2>2, SayingKeeps DEF OtherThreadStarts, Messages
<1> QED BY <1>2, <1>3, <1>4, <1>5

LEMMA KilledChildKeeps ==
  ASSUME TransportsInv, NEW a \in Attempts, KilledChildGoes(a) PROVE TransportsInv'
<1>1. child'[a] = NoChild => ChildInv(a)' BY NoChildNoIpc DEF KilledChildGoes, ChildInv
<1> QED BY <1>1, NoChildNoIpc, ChildStep DEF KilledChildGoes

(* Every tracked child is killed, and there is none that is not tracked.    *)
LEMMA ServerExitKeeps ==
  ASSUME TransportsInv, serverUp, ServerExits PROVE TransportsInv'
<1>1. /\ serverUp' = FALSE /\ UNCHANGED <<settingVars, attempt, tracked, ipc, sent, woken>>
      /\ child' = [a \in Attempts |-> [child[a] EXCEPT !.life = CrashSafetyHandler(a)]]
  BY DEF ServerExits
<1>2. ASSUME NEW a \in Attempts
      PROVE  /\ child'[a] \in ChildRecords /\ child'[a].reply = child[a].reply
             /\ child'[a].wire = child[a].wire
             /\ IF a \in tracked THEN child'[a].life = "killed" ELSE child'[a] = NoChild
  <2>1. child[a] \in ChildRecords /\ ChildInv(a) BY DEF TransportsInv, TransportsTypeOK
  <2>2. child'[a] = [child[a] EXCEPT !.life = CrashSafetyHandler(a)] BY <1>1
  <2>3. CASE a \in tracked
    <3>1. child'[a] = [child[a] EXCEPT !.life = "killed"] BY <2>2, <2>3 DEF CrashSafetyHandler
    <3> QED BY <2>1, <2>3, <3>1 DEF ChildRecords
  <2>4. CASE a \notin tracked
    <3>1. child[a] = NoChild /\ CrashSafetyHandler(a) = "none"
      BY <2>1, <2>4, NoChildNoIpc DEF CrashSafetyHandler, ChildInv
    <3>2. child'[a] = NoChild BY <2>2, <3>1 DEF NoChild
    <3> QED BY <2>4, <3>1, <3>2, NoChildNoIpc
  <2> QED BY <2>3, <2>4
<1>3. TransportsTypeOK' BY <1>1, <1>2 DEF TransportsInv, TransportsTypeOK, settingVars
<1>4. ASSUME NEW a \in Attempts PROVE AttemptInv(a)' /\ ChildInv(a)' /\ IpcInv(a)'
  <2>1. AttemptInv(a)' /\ \A t : IsAt(a, t)' = IsAt(a, t)
    BY <1>1, StillKeeps DEF SendsRightly, Unsent
  <2>2. ChildInv(a) /\ IpcInv(a) BY DEF TransportsInv
  <2>3. ChildInv(a)'
    <3>1. CASE a \in tracked
      <4>1. IsAt(a, "appServer")' /\ (attempt[a].stage = "running" \/ attempt[a].stage = "settled")
        BY <2>1, <2>2, <3>1 DEF ChildInv
      <4>2. child'[a].life = "killed" BY <1>2, <3>1
      <4> QED BY <1>1, <1>2, <2>2, <3>1, <4>1, <4>2 DEF ChildInv
    <3>2. CASE a \notin tracked
      <4>1. child'[a] = NoChild BY <1>2, <3>2
      <4> QED BY <1>1, <4>1, NoChildNoIpc DEF ChildInv
    <3> QED BY <3>1, <3>2
  <2>4. Transports' = Transports BY <1>1, SettingsStay
  <2>5. IpcInv(a)' BY <1>1, <2>1, <2>2, <2>4 DEF IpcInv, Replies, Unsent
  <2> QED BY <2>1, <2>3, <2>5
<1> QED BY <1>3, <1>4 DEF TransportsInv

-----------------------------------------------------------------------------
(* The connection to the desktop app.                                       *)

(* Before the last call nothing was sent to the conversation's owner.       *)
LEMMA UnsentBefore ==
  ASSUME TransportsInv, NEW a \in Attempts, IsAt(a, "desktop"),
         attempt[a].stage # "settled", ipc[a].pending # "startTurn"
  PROVE  Unsent(a)
<1>1. AttemptInv(a) /\ IpcInv(a) /\ attempt[a] \in AttemptRecords
  BY DEF TransportsInv, TransportsTypeOK
<1>2. attempt[a].n \in 1 .. Len(Transports) /\ Transports[attempt[a].n] = "desktop"
  BY TransportsShape DEF IsAt
<1>3. \A i \in DOMAIN attempt[a].log : i \in 1 .. attempt[a].n - 1
  BY <1>1, <1>2 DEF AttemptInv, AttemptRecords
<1>4. \A i \in DOMAIN attempt[a].log : Transports[i] # "desktop"
  BY <1>2, <1>3, TransportsShape
<1> QED BY <1>1, <1>4 DEF IpcInv

LEMMA DesktopStep ==
  ASSUME TransportsInv, NEW a \in Attempts, IsAt(a, "desktop"), NEW i \in IpcRecords,
         Carries(a, i), UNCHANGED <<settingVars, child, tracked, serverUp, woken>>,
         sent' \in {sent, sent \cup {<<a, "desktop">>}},
         attempt' \in [Attempts -> AttemptRecords], AttemptInv(a)',
         \A b \in Attempts \ {a} : attempt'[b] = attempt[b],
         ipc'[a] = i => IpcInv(a)'
  PROVE  TransportsInv'
<1>1. /\ ipc' \in [Attempts -> IpcRecords] /\ ipc'[a] = i
      /\ \A b \in Attempts \ {a} : ipc'[b] = ipc[b]
  BY DEF TransportsInv, TransportsTypeOK, Carries
<1>2. TransportsTypeOK' BY <1>1 DEF TransportsInv, TransportsTypeOK, settingVars
<1>3. ~IsAt(a, "appServer") BY AtOneTransport
<1>4. ChildInv(a)' BY <1>3, ChildFree
<1>5. OnlyOf(a) BY <1>1 DEF OnlyOf
<1> QED BY <1>1, <1>2, <1>4, <1>5, OthersKeep

(* The connection is closed with what it has come to.                       *)
LEMMA ClosingKeeps ==
  ASSUME TransportsInv, NEW a \in Attempts, IsAt(a, "desktop"),
         attempt[a].stage \notin {"none", "settled"}, NEW what \in Whats \ {"never"},
         ReportIsRight(a, "desktop", what), what = "available" => ipc[a].pending # "startTurn",
         Closes(a, what), UNCHANGED <<settingVars, child, tracked, serverUp, sent, woken>>
  PROVE  TransportsInv'
<1>1. Carries(a, NoIpc) /\ Reports(a, what) BY DEF Closes
<1>2. /\ attempt' \in [Attempts -> AttemptRecords] /\ AttemptInv(a)'
      /\ \A b \in Attempts \ {a} : attempt'[b] = attempt[b]
      /\ what \in Failures => attempt[a].n \in DOMAIN attempt'[a].log
      /\ what = "delivered" => attempt'[a].stage = "settled"
  BY <1>1, ReportKeeps DEF TransportNames
<1>3. Transports' = Transports BY SettingsStay
<1>4. Unsent(a)' = Unsent(a) BY DEF Unsent
<1>5. \/ Unsent(a)' \/ attempt'[a].stage = "settled"
      \/ \E i \in DOMAIN attempt'[a].log : Transports'[i] = "desktop"
  BY <1>2, <1>3, <1>4, UnsentBefore DEF Whats, IsAt
<1>6. ipc'[a] = NoIpc => IpcInv(a)' BY <1>5, NoChildNoIpc DEF IpcInv, Replies
<1> QED BY <1>1, <1>2, <1>6, NoChildNoIpc, DesktopStep

(* What a chunk leaves on the wire: the replies that were not in it.        *)
LEMMA RestOfFrames ==
  ASSUME NEW r \in IpcRecords, NEW n \in 1 .. Len(r.wire)
  PROVE  LET i == [r EXCEPT !.wire = After(@, n)]
         IN  /\ i \in IpcRecords /\ i.pending = r.pending /\ i.todo = r.todo
             /\ \A k \in Replies(i) : /\ n + k \in Replies(r) /\ k \in Nat \ {0}
                                      /\ i.wire[k] = r.wire[n + k]
<1> DEFINE i == [r EXCEPT !.wire = After(@, n)]
<1>1. r.wire \in Seq(Frames) BY DEF IpcRecords
<1>2. After(r.wire, n) \in Seq(Frames) BY <1>1, Cut
<1>3. i \in IpcRecords /\ i.pending = r.pending /\ i.todo = r.todo /\ i.wire = After(r.wire, n)
  BY <1>2 DEF IpcRecords
<1>4. \A k \in 1 .. Len(r.wire) - n : n + k \in DOMAIN r.wire /\ After(r.wire, n)[k] = r.wire[n + k]
  BY <1>1, Cut
<1>5. DOMAIN After(r.wire, n) = 1 .. Len(r.wire) - n BY <1>1, Cut
<1> HIDE DEF i
<1>6. \A k \in Replies(i) : n + k \in Replies(r) /\ k \in Nat \ {0} /\ i.wire[k] = r.wire[n + k]
  BY <1>3, <1>4, <1>5 DEF Replies
<1> QED BY <1>3, <1>6 DEF i

LEMMA CallShape ==
  ASSUME NEW i \in IpcRecords, NEW method \in {"initialize", "discovery"}
  PROVE  /\ Call(i, method) \in IpcRecords /\ Call(i, method).pending = method
         /\ Call(i, method).todo = method /\ Call(i, method).wire = i.wire
BY DEF Call, IpcRecords

LEMMA DesktopBeginsKeeps ==
  ASSUME TransportsInv, NEW a \in Attempts,
         DesktopStarts(a) \/ DesktopConnects(a) \/ DesktopTimesOut(a)
  PROVE  TransportsInv'
<1> USE DEF desktopRest
<1>1. IsAt(a, "desktop") /\ attempt[a].stage \in {"start", "connecting", "calling"}
  BY DEF DesktopStarts, DesktopConnects, DesktopTimesOut, Stands, At, IsAt
<1>2. UNCHANGED <<settingVars, child, tracked, serverUp, sent, woken>>
  BY DEF DesktopStarts, DesktopConnects, DesktopTimesOut
<1>3. SendsRightly(a) BY <1>2 DEF SendsRightly, Unsent
<1>4. IpcInv(a) /\ ipc \in [Attempts -> IpcRecords] BY DEF TransportsInv, TransportsTypeOK
<1>5. CASE DesktopStarts(a)
  <2>1. ipc' = ipc /\ attempt[a].stage = "start" BY <1>5 DEF DesktopStarts, Stands, At
  <2>2. /\ attempt' \in [Attempts -> AttemptRecords] /\ AttemptInv(a)'
        /\ \A b \in Attempts \ {a} : attempt'[b] = attempt[b]
        /\ \A i \in DOMAIN attempt[a].log : i \in DOMAIN attempt'[a].log
    <3>1. CASE Moves(a, "connecting") BY <1>1, <1>3, <3>1, MoveKeeps
    <3>2. CASE Reports(a, "unavailable")
      <4>1. ReportIsRight(a, "desktop", "unavailable") BY DEF ReportIsRight
      <4> QED BY <1>1, <1>2, <3>2, <4>1, ReportKeeps DEF Whats, Failures, TransportNames
    <3> QED BY <1>5, <3>1, <3>2 DEF DesktopStarts
  <2>3. Carries(a, ipc[a]) BY <1>4, <2>1 DEF Carries
  <2>4. ipc[a].pending = "none" /\ ipc[a] \in IpcRecords BY <1>4, <2>1, NoConnection
  <2>5. IpcInv(a)' BY <1>2, <2>1, <2>2, <2>4, IpcFree DEF Unsent
  <2> QED BY <1>1, <1>2, <2>2, <2>3, <2>4, <2>5, DesktopStep
<1>6. CASE DesktopConnects(a)
  <2>1. attempt[a].stage = "connecting" /\ Moves(a, "calling") /\ Carries(a, Call(ipc[a], "initialize"))
    BY <1>6 DEF DesktopConnects, Stands, At
  <2>2. ipc[a] = NoIpc BY <2>1, NoConnection
  <2> DEFINE c == Call(ipc[a], "initialize")
  <2>3. c \in IpcRecords /\ c.pending = "initialize" /\ c.todo = "initialize" /\ c.wire = <<>>
    BY <2>2, CallShape, NoChildNoIpc
  <2>4. Carries(a, c) BY <2>1
  <2> HIDE DEF c
  <2>5. /\ attempt' \in [Attempts -> AttemptRecords] /\ AttemptInv(a)'
        /\ \A b \in Attempts \ {a} : attempt'[b] = attempt[b]
        /\ attempt'[a].stage = "calling" /\ IsAt(a, "desktop")'
    BY <1>1, <1>3, <2>1, MoveKeeps
  <2>6. Unsent(a)' BY <1>1, <1>2, <2>1, <2>2, NoChildNoIpc, UnsentBefore DEF Unsent
  <2>7. ipc'[a] = c => IpcInv(a)' BY <2>3, <2>5, <2>6 DEF IpcInv, Replies
  <2> QED BY <1>1, <1>2, <2>3, <2>4, <2>5, <2>7, DesktopStep
<1>7. CASE DesktopTimesOut(a)
  <2>1. Closes(a, "unavailable") /\ ReportIsRight(a, "desktop", "unavailable")
    BY <1>7 DEF DesktopTimesOut, ReportIsRight
  <2> QED BY <1>1, <1>2, <2>1, ClosingKeeps DEF Whats, Failures
<1> QED BY <1>5, <1>6, <1>7

(* The reply to the pending call, first of its chunk.                       *)
LEMMA FrameKeeps ==
  ASSUME TransportsInv, NEW a \in Attempts, NEW n \in 1 .. Len(ipc[a].wire),
         NEW k \in Replies(ipc[a]), k <= n, desktopRest,
         OnFrame(a, [ipc[a] EXCEPT !.wire = After(@, n)], ipc[a].wire[k].says)
  PROVE  TransportsInv'
<1> DEFINE i == [ipc[a] EXCEPT !.wire = After(@, n)]
           r == ipc[a].wire[k].says
<1>1. /\ IpcInv(a) /\ ipc[a] \in IpcRecords /\ ipc[a].pending # "none" /\ ipc[a].todo = "none"
      /\ IsAt(a, "desktop") /\ attempt[a].stage = "calling"
      /\ attempt \in [Attempts -> AttemptRecords]
  BY NoChildNoIpc DEF TransportsInv, TransportsTypeOK, IpcInv, Replies
<1>2. i \in IpcRecords /\ i.pending = ipc[a].pending /\ i.todo = "none" /\ Replies(i) = {}
  <2>1. /\ i \in IpcRecords /\ i.pending = ipc[a].pending /\ i.todo = ipc[a].todo
        /\ \A l \in Replies(i) : n + l \in Replies(ipc[a]) /\ l \in Nat \ {0}
    BY <1>1, RestOfFrames
  <2> HIDE DEF i
  <2>2. ASSUME NEW l \in Replies(i) PROVE FALSE
    <3>1. n + l = k BY <1>1, <2>1 DEF IpcInv
    <3> QED BY <2>1, <3>1 DEF Replies
  <2> QED BY <1>1, <2>1, <2>2
<1>3. OnFrame(a, i, r) OBVIOUS
<1>4. UNCHANGED <<settingVars, child, tracked, serverUp, woken>> BY DEF desktopRest
<1> HIDE DEF i, r
<1>5. ASSUME NEW what \in Whats \ {"never"}, ReportIsRight(a, "desktop", what),
             what = "available" => ipc[a].pending # "startTurn", Closes(a, what), UNCHANGED sent
      PROVE  TransportsInv'
  BY <1>1, <1>4, <1>5, ClosingKeeps
<1>6. CASE i.pending = "initialize" /\ r = "ok" /\ attempt[a].op = "probe"
  <2>1. Closes(a, "available") /\ UNCHANGED sent BY <1>3, <1>6 DEF OnFrame
  <2> QED BY <1>2, <1>5, <1>6, <2>1 DEF ReportIsRight, Whats, Failures
<1>7. CASE i.pending = "initialize" /\ r = "ok" /\ attempt[a].op = "wake"
  <2>1. Carries(a, Call(i, "discovery")) /\ UNCHANGED <<attempt, sent>> BY <1>3, <1>7 DEF OnFrame
  <2>2. Unsent(a) BY <1>1, <1>2, <1>7, UnsentBefore
  <2>3. AttemptInv(a)' /\ IsAt(a, "desktop")' = IsAt(a, "desktop")
    BY <1>4, <2>1, StillKeeps DEF SendsRightly, Unsent
  <2> DEFINE c == Call(i, "discovery")
  <2>4. c \in IpcRecords /\ c.pending = "discovery" /\ c.todo = "discovery" /\ Replies(c) = {}
    BY <1>2, CallShape DEF Replies
  <2>5. Carries(a, c) BY <2>1
  <2> HIDE DEF c
  <2>6. ipc'[a] = c => IpcInv(a)' BY <1>1, <1>4, <2>1, <2>2, <2>3, <2>4 DEF IpcInv, Unsent
  <2> QED BY <1>1, <1>4, <2>1, <2>3, <2>4, <2>5, <2>6, DesktopStep
<1>8. CASE i.pending = "discovery" /\ r = "ok"
  <2> DEFINE c == [i EXCEPT !.pending = "startTurn"]
  <2>1. Carries(a, c) /\ sent' = sent \cup {<<a, "desktop">>} /\ UNCHANGED attempt
    BY <1>3, <1>8 DEF OnFrame
  <2>2. Unsent(a) BY <1>1, <1>2, <1>8, UnsentBefore
  <2>3. attempt[a].n > 0
    BY <1>1, TransportsShape DEF IsAt, AttemptRecords
  <2>4. AttemptInv(a)' /\ IsAt(a, "desktop")' = IsAt(a, "desktop")
    BY <1>1, <1>4, <2>1, <2>3, StillKeeps DEF SendsRightly
  <2>5. c \in IpcRecords /\ c.pending = "startTurn" /\ c.todo = "none" /\ Replies(c) = {}
    BY <1>2 DEF Replies, IpcRecords
  <2> HIDE DEF c
  <2>6. ipc'[a] = c => IpcInv(a)' BY <1>1, <1>4, <2>1, <2>2, <2>4, <2>5 DEF IpcInv, Unsent
  <2> QED BY <1>1, <1>4, <2>1, <2>4, <2>5, <2>6, DesktopStep
<1>9. CASE i.pending = "startTurn" /\ r = "ok"
  <2>1. Closes(a, "delivered") /\ UNCHANGED sent BY <1>3, <1>9 DEF OnFrame
  <2>2. <<a, "desktop">> \in woken BY <1>1, <1>2, <1>9 DEF IpcInv, r
  <2> QED BY <1>2, <1>5, <2>1, <2>2 DEF ReportIsRight, Whats, Failures
<1>10. CASE i.pending \in {"discovery", "startTurn"} /\ r = "noClient"
  <2>1. Closes(a, "refused") /\ UNCHANGED sent BY <1>3, <1>10 DEF OnFrame
  <2>2. Unsent(a)
    <3>1. CASE i.pending = "startTurn" BY <1>1, <1>2, <1>10, <3>1 DEF IpcInv, r
    <3>2. CASE i.pending = "discovery" BY <1>1, <1>2, <3>2, UnsentBefore
    <3> QED BY <1>10, <3>1, <3>2
  <2> QED BY <1>5, <2>1, <2>2 DEF ReportIsRight, Whats, Failures
<1>11. CASE /\ ~(i.pending = "initialize" /\ r = "ok" /\ attempt[a].op = "probe")
            /\ ~(i.pending = "initialize" /\ r = "ok" /\ attempt[a].op = "wake")
            /\ ~(i.pending = "discovery" /\ r = "ok") /\ ~(i.pending = "startTurn" /\ r = "ok")
            /\ ~(i.pending \in {"discovery", "startTurn"} /\ r = "noClient")
  <2>1. Closes(a, "unavailable") /\ UNCHANGED sent BY <1>3, <1>11 DEF OnFrame
  <2> QED BY <1>5, <2>1 DEF ReportIsRight, Whats, Failures
<1> QED BY <1>6, <1>7, <1>8, <1>9, <1>10, <1>11

LEMMA DesktopDataKeeps ==
  ASSUME TransportsInv, NEW a \in Attempts, NEW n \in 1 .. Len(ipc[a].wire), DesktopData(a, n)
  PROVE  TransportsInv'
<1> DEFINE i      == [ipc[a] EXCEPT !.wire = After(@, n)]
           frames == Prefix(ipc[a].wire, n)
<1>1. /\ IpcInv(a) /\ ipc[a] \in IpcRecords /\ ipc[a].wire \in Seq(Frames)
  BY DEF TransportsInv, TransportsTypeOK, IpcRecords
<1>2. /\ IsAt(a, "desktop") /\ attempt[a].stage = "calling" /\ ipc[a].pending # "none"
      /\ attempt \in [Attempts -> AttemptRecords]
  BY <1>1, NoChildNoIpc DEF IpcInv, TransportsInv, TransportsTypeOK
<1>3. \A k \in 1 .. n : frames[k] = ipc[a].wire[k] /\ k \in DOMAIN ipc[a].wire BY <1>1, Cut
<1>4. desktopRest /\ UNCHANGED <<settingVars, child, tracked, serverUp, woken>>
  BY DEF DesktopData, desktopRest
<1>5. CASE Closes(a, "unavailable") /\ UNCHANGED sent
  BY <1>2, <1>4, <1>5, ClosingKeeps DEF ReportIsRight, Whats, Failures
<1>6. CASE /\ ~\E k \in 1 .. n : frames[k].says = "bad"
           /\ \E k \in {k \in 1 .. n : Dispatches(frames[k])} : OnFrame(a, i, frames[k].says)
  <2>1. PICK k \in 1 .. n : Dispatches(frames[k]) /\ OnFrame(a, i, frames[k].says) BY <1>6
  <2>2. k \in Replies(ipc[a]) BY <1>3, <1>6, <2>1 DEF Replies, Dispatches
  <2>3. OnFrame(a, i, ipc[a].wire[k].says) BY <1>3, <2>1
  <2> QED BY <1>4, <2>2, <2>3, FrameKeeps
<1>7. CASE Carries(a, i) /\ UNCHANGED <<attempt, sent>>
  <2>1. /\ i \in IpcRecords /\ i.pending = ipc[a].pending /\ i.todo = ipc[a].todo
        /\ \A k \in Replies(i) : n + k \in Replies(ipc[a]) /\ k \in Nat \ {0}
                                 /\ i.wire[k] = ipc[a].wire[n + k]
    BY <1>1, RestOfFrames
  <2> HIDE DEF i
  <2>2. AttemptInv(a)' /\ IsAt(a, "desktop")' = IsAt(a, "desktop")
    BY <1>4, <1>7, StillKeeps DEF SendsRightly, Unsent
  <2>3. Unsent(a)' = Unsent(a) /\ Transports' = Transports BY <1>4, <1>7, SettingsStay DEF Unsent
  <2>4. \A k, l \in Replies(i) : k = l
    <3> SUFFICES ASSUME NEW k \in Replies(i), NEW l \in Replies(i) PROVE k = l OBVIOUS
    <3>1. n + k = n + l BY <1>1, <2>1 DEF IpcInv
    <3> QED BY <2>1, <3>1
  <2>5. Replies(ipc[a]) = {} => Replies(i) = {} BY <2>1
  <2>6. ipc[a].pending = "startTurn" =>
          \A k \in Replies(i) :
            IF i.wire[k].says = "ok" THEN <<a, "desktop">> \in woken ELSE Unsent(a)
    BY <1>1, <2>1 DEF IpcInv
  <2>7. ipc'[a] = i => IpcInv(a)'
    BY <1>1, <1>2, <1>4, <1>7, <2>1, <2>2, <2>3, <2>4, <2>5, <2>6 DEF IpcInv
  <2> QED BY <1>2, <1>4, <1>7, <2>1, <2>2, <2>7, DesktopStep
<1> QED BY <1>5, <1>6, <1>7 DEF DesktopData

(* A frame more on the wire.                                                *)
LEMMA FrameShape ==
  ASSUME NEW a, ipc[a] \in IpcRecords, NEW ours \in BOOLEAN, NEW r \in {"ok", "noClient", "error", "bad"}
  PROVE  LET f == Frame(a, ours, r)
         IN  /\ f \in IpcRecords /\ f.pending = ipc[a].pending /\ f.todo = ipc[a].todo
             /\ \A k \in Replies(f) :
                  \/ k \in Replies(ipc[a]) /\ f.wire[k] = ipc[a].wire[k]
                  \/ k = Len(ipc[a].wire) + 1 /\ ours /\ f.wire[k].says = r /\ r # "bad"
<1> DEFINE f == Frame(a, ours, r)
           m == [ours |-> ours, says |-> r]
<1>1. ipc[a].wire \in Seq(Frames) /\ m \in Frames /\ m.ours = ours /\ m.says = r
  BY DEF IpcRecords, Frames
<1>2. f = [ipc[a] EXCEPT !.wire = Append(@, m)] BY DEF Frame
<1> HIDE DEF m, f
<1>3. /\ Append(ipc[a].wire, m) \in Seq(Frames)
      /\ DOMAIN Append(ipc[a].wire, m) = 1 .. Len(ipc[a].wire) + 1
      /\ Append(ipc[a].wire, m)[Len(ipc[a].wire) + 1] = m
      /\ \A k \in 1 .. Len(ipc[a].wire) :
           k \in DOMAIN ipc[a].wire /\ Append(ipc[a].wire, m)[k] = ipc[a].wire[k]
  BY <1>1
<1>4. /\ f \in IpcRecords /\ f.pending = ipc[a].pending /\ f.todo = ipc[a].todo
      /\ f.wire = Append(ipc[a].wire, m)
  BY <1>2, <1>3 DEF IpcRecords
<1>5. ASSUME NEW k \in Replies(f)
      PROVE  \/ k \in Replies(ipc[a]) /\ f.wire[k] = ipc[a].wire[k]
             \/ k = Len(ipc[a].wire) + 1 /\ ours /\ f.wire[k].says = r /\ r # "bad"
  <2>1. k \in 1 .. Len(ipc[a].wire) + 1 BY <1>3, <1>4 DEF Replies
  <2>2. CASE k = Len(ipc[a].wire) + 1 BY <1>1, <1>3, <1>4, <2>2 DEF Replies
  <2>3. CASE k # Len(ipc[a].wire) + 1
    <3>1. k \in 1 .. Len(ipc[a].wire) BY <1>1, <2>1, <2>3
    <3> QED BY <1>3, <1>4, <3>1 DEF Replies
  <2> QED BY <2>2, <2>3
<1> QED BY <1>4, <1>5 DEF f

(* A reply on a wire that holds none.                                       *)
OurReply(a, r) == Frame(a, TRUE, r)

LEMMA OurReplyShape ==
  ASSUME NEW a, ipc[a] \in IpcRecords, Replies(ipc[a]) = {}, NEW r \in {"ok", "noClient", "error"}
  PROVE  LET f == OurReply(a, r)
         IN  /\ f \in IpcRecords /\ f.pending = ipc[a].pending /\ f.todo = ipc[a].todo
             /\ \A k \in Replies(f) : k = Len(ipc[a].wire) + 1 /\ f.wire[k].says = r
<1> DEFINE f == OurReply(a, r)
           m == [ours |-> TRUE, says |-> r]
<1>1. ipc[a].wire \in Seq(Frames) /\ m \in Frames /\ m.says = r BY DEF IpcRecords, Frames
<1>2. f = [ipc[a] EXCEPT !.wire = Append(@, m)] BY DEF OurReply, Frame
<1> HIDE DEF m, f
<1>3. /\ Append(ipc[a].wire, m) \in Seq(Frames)
      /\ DOMAIN Append(ipc[a].wire, m) = 1 .. Len(ipc[a].wire) + 1
      /\ Append(ipc[a].wire, m)[Len(ipc[a].wire) + 1] = m
      /\ \A k \in 1 .. Len(ipc[a].wire) :
           k \in DOMAIN ipc[a].wire /\ Append(ipc[a].wire, m)[k] = ipc[a].wire[k]
  BY <1>1
<1>4. /\ f \in IpcRecords /\ f.pending = ipc[a].pending /\ f.todo = ipc[a].todo
      /\ f.wire = Append(ipc[a].wire, m)
  BY <1>2, <1>3 DEF IpcRecords
<1>5. ASSUME NEW k \in Replies(f)
      PROVE  k = Len(ipc[a].wire) + 1 /\ f.wire[k].says = r
  <2>1. k \in 1 .. Len(ipc[a].wire) + 1 BY <1>3, <1>4 DEF Replies
  <2>2. ASSUME k # Len(ipc[a].wire) + 1 PROVE FALSE
    <3>1. k \in 1 .. Len(ipc[a].wire) BY <1>1, <2>1, <2>2
    <3>2. k \in Replies(ipc[a]) BY <1>3, <1>4, <3>1 DEF Replies
    <3> QED BY <3>2
  <2> QED BY <1>1, <1>3, <1>4, <2>2
<1> QED BY <1>4, <1>5 DEF f

LEMMA DesktopPeerKeeps ==
  ASSUME TransportsInv, NEW a \in Attempts, DesktopReplies(a) \/ DesktopBroadcasts(a)
  PROVE  TransportsInv'
<1>1. IpcInv(a) /\ ipc[a] \in IpcRecords /\ attempt \in [Attempts -> AttemptRecords]
  BY DEF TransportsInv, TransportsTypeOK
<1>2. UNCHANGED <<attempt, sent, settingVars, child, tracked, serverUp, woken>>
  BY DEF DesktopReplies, DesktopBroadcasts, desktopRest
<1>3. ipc[a].pending # "none" /\ IsAt(a, "desktop") /\ attempt[a].stage = "calling"
  BY <1>1, NoChildNoIpc DEF DesktopReplies, DesktopBroadcasts, IpcInv
<1>4. AttemptInv(a)' /\ IsAt(a, "desktop")' = IsAt(a, "desktop")
  BY <1>2, StillKeeps DEF SendsRightly, Unsent
<1>5. Unsent(a)' = Unsent(a) /\ Transports' = Transports BY <1>2, SettingsStay DEF Unsent
<1>6. CASE DesktopReplies(a)
  <2>1. PICK r \in {"ok", "noClient", "error"} : Carries(a, [Frame(a, TRUE, r) EXCEPT !.todo = "none"])
    BY <1>6 DEF DesktopReplies
  <2>2. ipc[a].todo # "none" /\ Replies(ipc[a]) = {} /\ ipc[a].pending # "startTurn"
    BY <1>1, <1>6 DEF DesktopReplies, IpcInv
  <2> DEFINE f == OurReply(a, r)
             i == [f EXCEPT !.todo = "none"]
  <2>3. /\ f \in IpcRecords /\ f.pending = ipc[a].pending
        /\ \A k \in Replies(f) : k = Len(ipc[a].wire) + 1
    BY <1>1, <2>2, OurReplyShape
  <2> HIDE DEF f
  <2>4. i \in IpcRecords /\ i.pending = ipc[a].pending /\ i.todo = "none" /\ i.wire = f.wire
    <3>1. f \in IpcRecords /\ f.pending = ipc[a].pending BY <2>3
    <3> QED BY <3>1 DEF IpcRecords
  <2>5. Carries(a, i) BY <2>1 DEF f, OurReply
  <2> HIDE DEF i
  <2>6. \A k, l \in Replies(i) : k = l BY <2>3, <2>4 DEF Replies
  <2>7. ipc'[a] = i => IpcInv(a)'
    BY <1>1, <1>2, <1>3, <1>4, <1>5, <2>2, <2>4, <2>6 DEF IpcInv
  <2> QED BY <1>2, <1>3, <1>1, <1>4, <2>4, <2>5, <2>7, DesktopStep
<1>7. CASE DesktopBroadcasts(a)
  <2>1. PICK ours \in BOOLEAN, r \in {"ok", "noClient", "error", "bad"} :
          (ours => r = "bad") /\ Carries(a, [Frame(a, ours, r) EXCEPT !.stray = @ + 1])
    <3> DEFINE Brings(ours, r) == Carries(a, [Frame(a, ours, r) EXCEPT !.stray = @ + 1])
    <3>1. \E f \in {<<TRUE, "bad">>, <<FALSE, "noClient">>, <<FALSE, "ok">>} : Brings(f[1], f[2])
      BY <1>7 DEF DesktopBroadcasts
    <3> HIDE DEF Brings
    <3>2. Brings(TRUE, "bad") \/ Brings(FALSE, "noClient") \/ Brings(FALSE, "ok")
      <4>1. PICK f \in {<<TRUE, "bad">>, <<FALSE, "noClient">>, <<FALSE, "ok">>} : Brings(f[1], f[2])
        BY <3>1
      <4>2. ASSUME NEW x, NEW y, f = <<x, y>> PROVE Brings(x, y) BY <4>1, <4>2
      <4> QED BY <4>2
    <3>3. CASE Brings(TRUE, "bad") BY <3>3 DEF Brings
    <3>4. CASE Brings(FALSE, "noClient") BY <3>4 DEF Brings
    <3>5. CASE Brings(FALSE, "ok") BY <3>5 DEF Brings
    <3> QED BY <3>2, <3>3, <3>4, <3>5
  <2> DEFINE g == Frame(a, ours, r)
             i == [g EXCEPT !.stray = @ + 1]
  <2>2. /\ g \in IpcRecords /\ g.pending = ipc[a].pending /\ g.todo = ipc[a].todo
        /\ \A k \in Replies(g) : k \in Replies(ipc[a]) /\ g.wire[k] = ipc[a].wire[k]
    BY <1>1, <2>1, FrameShape
  <2> HIDE DEF g
  <2>3. i \in IpcRecords /\ i.pending = ipc[a].pending /\ i.todo = ipc[a].todo /\ i.wire = g.wire
    BY <2>2 DEF IpcRecords
  <2>4. Carries(a, i) BY <2>1 DEF g
  <2> HIDE DEF i
  <2>5. \A k \in Replies(i) : k \in Replies(ipc[a]) /\ i.wire[k] = ipc[a].wire[k]
    BY <2>2, <2>3 DEF Replies
  <2>6. ipc'[a] = i => IpcInv(a)'
    BY <1>1, <1>2, <1>3, <1>4, <1>5, <2>3, <2>5 DEF IpcInv
  <2> QED BY <1>2, <1>3, <1>1, <1>4, <2>3, <2>4, <2>6, DesktopStep
<1> QED BY <1>6, <1>7

-----------------------------------------------------------------------------
(* The sessions.                                                            *)

(* The session over one transport takes up or declines what it was sent; to *)
(* the last call over the desktop app it may answer.                        *)
LEMMA SessionStep ==
  ASSUME TransportsInv, NEW a \in Attempts, NEW transport \in {"messaging", "desktop"},
         <<a, transport>> \in sent, sent' = sent \ {<<a, transport>>},
         woken' \in {woken, woken \cup {<<a, transport>>}}, NEW r \in SUBSET {"ok", "noClient", "error"},
         Answers(a, transport, r), \A says \in r : says = "ok" <=> woken' # woken \/ <<a, transport>> \in woken,
         UNCHANGED <<settingVars, attempt, child, tracked, serverUp>>
  PROVE  TransportsInv'
<1>1. /\ IpcInv(a) /\ ChildInv(a) /\ ipc \in [Attempts -> IpcRecords] /\ ipc[a] \in IpcRecords
  BY DEF TransportsInv, TransportsTypeOK
<1>2. Unsent(a) => Unsent(a)' BY DEF Unsent
<1>3. AttemptInv(a)' /\ (\A t : IsAt(a, t)' = IsAt(a, t)) /\ Transports' = Transports
  BY <1>2, StillKeeps, SettingsStay DEF SendsRightly
<1>4. ChildInv(a)' BY <1>1, <1>3 DEF ChildInv
<1>5. /\ ipc' \in [Attempts -> IpcRecords] /\ IpcInv(a)'
      /\ \A b \in Attempts \ {a} : ipc'[b] = ipc[b]
  <2>1. CASE transport = "desktop" /\ ipc[a].pending = "startTurn"
    <3>1. PICK says \in r : Carries(a, Frame(a, TRUE, says)) BY <2>1 DEF Answers
    <3> DEFINE i == OurReply(a, says)
    <3>2. Replies(ipc[a]) = {} /\ <<a, "desktop">> \notin woken /\ ipc[a].todo = "none"
      BY <1>1, <2>1 DEF IpcInv
    <3>3. /\ i \in IpcRecords /\ i.pending = "startTurn" /\ i.todo = "none"
          /\ \A k \in Replies(i) : k = Len(ipc[a].wire) + 1 /\ i.wire[k].says = says
      <4>1. says \in {"ok", "noClient", "error"} OBVIOUS
      <4> QED BY <1>1, <2>1, <3>2, <4>1, OurReplyShape
    <3>4. Carries(a, i) BY <3>1 DEF OurReply
    <3> HIDE DEF i
    <3>5. ipc' = [ipc EXCEPT ![a] = i] BY <3>4 DEF Carries
    <3>6. IF says = "ok" THEN <<a, "desktop">> \in woken' ELSE Unsent(a)'
      BY <2>1, <3>2 DEF Unsent
    <3>7. IpcInv(a)' BY <1>1, <1>3, <2>1, <3>3, <3>5, <3>6 DEF IpcInv
    <3> QED BY <1>1, <3>3, <3>5, <3>7
  <2>2. CASE ~(transport = "desktop" /\ ipc[a].pending = "startTurn")
    <3>1. ipc' = ipc BY <2>2 DEF Answers
    <3>2. CASE transport = "messaging"
      <4>1. /\ <<a, "desktop">> \in sent' <=> <<a, "desktop">> \in sent
            /\ <<a, "desktop">> \in woken' <=> <<a, "desktop">> \in woken
        BY <3>2
      <4> QED BY <1>1, <1>3, <3>1, <4>1 DEF IpcInv, Unsent
    <3>3. CASE transport = "desktop"
      <4>1. ipc[a].pending # "startTurn" /\ ~Unsent(a) BY <2>2, <3>3 DEF Unsent
      <4> QED BY <1>1, <1>3, <3>1, <4>1 DEF IpcInv
    <3> QED BY <3>2, <3>3
  <2> QED BY <2>1, <2>2
<1>6. TransportsTypeOK' BY <1>5 DEF TransportsInv, TransportsTypeOK, settingVars
<1>7. OnlyOf(a) BY <1>5 DEF OnlyOf
<1> QED BY <1>3, <1>4, <1>5, <1>6, <1>7, OthersKeep

LEMMA SessionsKeep ==
  ASSUME TransportsInv, NEW a \in Attempts, NEW transport \in {"messaging", "desktop"},
         SessionTakesUp(a, transport) \/ SessionDeclines(a, transport)
  PROVE  TransportsInv'
<1>1. CASE SessionTakesUp(a, transport)
  <2>1. \A says \in {"ok"} : says = "ok" <=> woken' # woken \/ <<a, transport>> \in woken
    BY <1>1 DEF SessionTakesUp
  <2>2. Answers(a, transport, {"ok"}) BY <1>1 DEF SessionTakesUp
  <2>3. {"ok"} \in SUBSET {"ok", "noClient", "error"} OBVIOUS
  <2>4. /\ <<a, transport>> \in sent /\ sent' = sent \ {<<a, transport>>}
        /\ woken' \in {woken, woken \cup {<<a, transport>>}}
        /\ UNCHANGED <<settingVars, attempt, child, tracked, serverUp>>
    BY <1>1 DEF SessionTakesUp
  <2> QED BY <2>1, <2>2, <2>3, <2>4, SessionStep
<1>2. CASE SessionDeclines(a, transport)
  <2>1. /\ <<a, transport>> \in sent /\ sent' = sent \ {<<a, transport>>} /\ woken' = woken
        /\ Answers(a, transport, {"noClient", "error"})
        /\ UNCHANGED <<settingVars, attempt, child, tracked, serverUp>>
    BY <1>2 DEF SessionDeclines
  <2>2. CASE transport = "desktop" /\ ipc[a].pending = "startTurn"
    <3> DEFINE r == {"noClient", "error"}
    <3>1. <<a, transport>> \notin woken BY <2>1, <2>2 DEF TransportsInv, IpcInv
    <3>2. \A says \in r : says = "ok" <=> woken' # woken \/ <<a, transport>> \in woken BY <2>1, <3>1
    <3>3. r \in SUBSET {"ok", "noClient", "error"} OBVIOUS
    <3>4. Answers(a, transport, r) BY <2>1
    <3> HIDE DEF r
    <3> QED BY <2>1, <3>2, <3>3, <3>4, SessionStep
  <2>3. CASE ~(transport = "desktop" /\ ipc[a].pending = "startTurn")
    <3>1. Answers(a, transport, {}) BY <2>1, <2>3 DEF Answers
    <3>2. {} \in SUBSET {"ok", "noClient", "error"} OBVIOUS
    <3>3. \A says \in {} : says = "ok" <=> woken' # woken \/ <<a, transport>> \in woken OBVIOUS
    <3> QED BY <2>1, <3>1, <3>2, <3>3, SessionStep
  <2> QED BY <2>2, <2>3
<1> QED BY <1>1, <1>2

-----------------------------------------------------------------------------

LEMMA TransportsStepKeeps ==
  ASSUME TransportsInv, [Next]_vars PROVE TransportsInv'
<1>1. CASE serverUp /\ ServerExits BY <1>1, ServerExitKeeps
<1>2. ASSUME NEW a \in Attempts, serverUp, Wake(a) PROVE TransportsInv'
  <2>1. CASE Dispatch(a) /\ UNCHANGED <<settingVars, child, tracked, serverUp, ipc, sent, woken>>
    BY <2>1, DispatchKeeps
  <2>2. CASE \/ MessagingStarts(a) \/ Connects(a) \/ LineWritten(a) \/ SocketFails(a)
             \/ ConnectTimesOut(a) \/ SocketCloses(a) \/ GraceEnds(a)
    BY <2>2, MessagingKeeps
  <2>3. CASE Spawns(a) \/ SpawnFails(a) BY <1>2, <2>3, SpawnKeeps
  <2>4. CASE TermGraceEnds(a) \/ RequestTimesOut(a) \/ WaitTimesOut(a)
    BY <1>2, <2>4, ChildTimersKeep
  <2>5. CASE ChildExits(a) BY <2>5, ChildExitKeeps
  <2>6. CASE \E n \in 1 .. Len(child[a].wire) : StdoutData(a, n) BY <1>2, <2>6, StdoutKeeps
  <2>7. CASE DesktopStarts(a) \/ DesktopConnects(a) \/ DesktopTimesOut(a)
    BY <2>7, DesktopBeginsKeeps
  <2>8. CASE \E n \in 1 .. Len(ipc[a].wire) : DesktopData(a, n) BY <2>8, DesktopDataKeeps
  <2> QED BY <1>2, <2>1, <2>2, <2>3, <2>4, <2>5, <2>6, <2>7, <2>8 DEF Wake, Starts, TimersFire
<1>3. ASSUME NEW a \in Attempts, Others(a) PROVE TransportsInv'
  <2>1. CASE AppServerReplies(a) \/ TurnStarts(a) \/ TurnCompletes(a) \/ OtherThreadStarts(a)
    BY <2>1, AppServerKeeps
  <2>2. CASE DesktopReplies(a) \/ DesktopBroadcasts(a) BY <2>2, DesktopPeerKeeps
  <2>3. CASE \E transport \in {"messaging", "desktop"} :
               SessionTakesUp(a, transport) \/ SessionDeclines(a, transport)
    BY <2>3, SessionsKeep
  <2> QED BY <1>3, <2>1, <2>2, <2>3 DEF Others
<1>4. ASSUME NEW a \in Attempts, KilledChildGoes(a) PROVE TransportsInv' BY <1>4, KilledChildKeeps
<1>5. CASE UNCHANGED vars
  <2>1. ASSUME NEW a \in Attempts PROVE AttemptInv(a)' /\ ChildInv(a)' /\ IpcInv(a)'
    <3>1. /\ Transports' = Transports /\ inherited' = inherited
      BY <1>5, SettingsStay DEF vars
    <3>2. AttemptInv(a) /\ ChildInv(a) /\ IpcInv(a) BY DEF TransportsInv
    <3>3. UNCHANGED <<attempt, child, tracked, serverUp, ipc, sent, woken>> BY <1>5 DEF vars
    <3> QED BY <3>1, <3>2, <3>3 DEF AttemptInv, ChildInv, IpcInv, IsAt, Unsent
  <2>2. TransportsTypeOK' BY <1>5 DEF vars, settingVars, TransportsInv, TransportsTypeOK
  <2> QED BY <2>1, <2>2 DEF TransportsInv
<1> QED BY <1>1, <1>2, <1>3, <1>4, <1>5 DEF Next

THEOREM TransportsInvariance == Spec => []TransportsInv
BY TransportsInvInit, TransportsStepKeeps, PTL DEF Spec

(* When the server exits, at whatever moment of whatever probe, wake or     *)
(* supervision, no app-server is left to itself.                            *)
THEOREM NoChildIsLeft == Spec => []ExitLeavesNoChild
<1>1. TransportsInv => ExitLeavesNoChild BY DEF TransportsInv, ChildInv, ExitLeavesNoChild
<1> QED BY <1>1, TransportsInvariance, PTL

(* A wake reported as delivered over a channel that answers was one; a      *)
(* refusal of the desktop app is the answer to that wake and final; and     *)
(* "never" is said only where no transport could serve a later attempt.     *)
THEOREM AnswersAreTrue == Spec => []AnswersStandUp
<1>1. TransportsInv => DeliveryIsReal
  <2> SUFFICES ASSUME TransportsInv, NEW a \in Attempts, attempt[a].outcome = "delivered"
               PROVE  Transports[attempt[a].n] = "messaging"
                        \/ <<a, Transports[attempt[a].n]>> \in woken
    BY DEF DeliveryIsReal
  <2> QED BY DEF TransportsInv, AttemptInv, IsAt
<1>2. TransportsInv => DesktopRefusalIsFinal
  BY DEF TransportsInv, AttemptInv, DesktopRefusalIsFinal, Unsent
<1>3. TransportsInv => PermanentStays
  <2> SUFFICES ASSUME TransportsInv, NEW a \in Attempts, attempt[a].permanent
               PROVE  ~inherited /\ \A n \in DOMAIN Transports : Transports[n] = "messaging"
    BY DEF PermanentStays
  <2>1. AttemptInv(a) /\ attempt[a].log \in Seq(LogEntries)
    BY DEF TransportsInv, TransportsTypeOK, AttemptRecords
  <2>2. DOMAIN attempt[a].log = DOMAIN Transports BY <2>1, TransportsShape DEF AttemptInv
  <2>3. /\ attempt[a].log # <<>>
        /\ \A n \in DOMAIN Transports : attempt[a].log[n].permanent
    BY <2>1, <2>2 DEF AttemptInv, AggregatePermanence
  <2>4. 1 \in DOMAIN attempt[a].log BY <2>1, <2>3
  <2> QED BY <2>1, <2>2, <2>3, <2>4 DEF AttemptInv
<1> QED BY <1>1, <1>2, <1>3, TransportsInvariance, PTL DEF AnswersStandUp, ConclusionsHold

=============================================================================
