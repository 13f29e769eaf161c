--------------------------- MODULE DoorbellCutover ---------------------------
(***************************************************************************)
(* The handoff of the wake trigger between the two detectors                *)
(* (CutoverController), driven by scripts/doorbell-cutover-harness.mjs: a   *)
(* cutover to ghantika, mails one at a time, a cutover back to the monitor, *)
(* one more mail, and the reap of both detectors, which also ends a run     *)
(* that fails anywhere.                                                     *)
(*                                                                         *)
(* What follows a callback in microtasks is part of its step.               *)
(***************************************************************************)
EXTENDS TriggerDetectors, FiniteSets

CONSTANTS
  CYCLE_COUNT,
  RETRY_COUNT,
  MaxUnread       \* bound on the contents a check fails to read

ASSUME CutoverAssumption ==
  CYCLE_COUNT \in Nat \ {0} /\ RETRY_COUNT \in Nat \ {0} /\ MaxUnread \in Nat

VARIABLES
  owner,
  step,           \* of cutover(): "none", "arming" or "probing"
  cutoverAttempt,
  stage,          \* of the harness: "initial", "cycles", "fallback", "last", then
                  \* "done" or "failed", and "reaped"
  mailsSent,           \* mails sent: their nonces are expected
  consumed,       \* mails that resumed the agent
  duplicates,     \* mails reported again, inside the dedupe window or after it
  spurious,       \* something else was reported
  unread          \* what a detector's check could not read, reported as spurious too

controlVars == <<owner, step, cutoverAttempt>>
reportVars  == <<consumed, duplicates, spurious, unread>>
doorbellVars        == <<detectorVars, controlVars, reportVars, stage, mailsSent>>

target == Other(owner)

DoorbellInit ==
  /\ DetectorsInit
  /\ owner = "monitor" /\ step = "none" /\ cutoverAttempt = 0
  /\ stage = "initial" /\ mailsSent = 0
  /\ consumed = {} /\ duplicates = {} /\ spurious = FALSE /\ unread = {}

-----------------------------------------------------------------------------
(* cutover().                                                               *)

(* One attempt, from the detectors in watching on: the target is armed and, *)
(* once that is settled, probed.  The monitor needs no turn to settle.  An  *)
(* arm that cannot read the file says nothing of it.                        *)
BeginsAttempt(n, watching) ==
  /\ cutoverAttempt' = n
  /\ armed' = watching \cup {target}
  /\ \E content \in {trigger, Unreadable} :
       lastContent' = [lastContent EXCEPT ![target] = content]
  /\ live' = (live /\ "ghantika" \in watching)
  /\ IF target = "monitor"
     THEN step' = "probing" /\ BeginsProbe("monitor", live')
     ELSE /\ step' = "arming" /\ notified' = FALSE
          /\ pendingTest' = [pendingTest EXCEPT !["ghantika"] = 0]
          /\ UNCHANGED <<trigger, probes>>
  /\ UNCHANGED <<followUps, owner>>

(* Fault: the source is disarmed before the target has proved itself.       *)
KeptWatchingNone == armed \ {owner}

(* While the target is armed and probed the source goes on watching.        *)
KeptWatching == armed \ {target}

Cutover ==
  /\ stage \in {"initial", "fallback"} /\ step = "none"
  /\ BeginsAttempt(1, KeptWatching)
  /\ UNCHANGED <<recent, reportVars, stage, mailsSent>>

ArmSettles ==
  /\ step = "arming"
  /\ step' = "probing"
  /\ BeginsProbe("ghantika", live)
  /\ recent' = FALSE
  /\ UNCHANGED <<armed, live, followUps, lastContent, owner, cutoverAttempt, reportVars, stage, mailsSent>>

(* Retries exhausted, or the deadline passed: the target is disarmed, the   *)
(* source armed, and the owner is still who it was.                         *)
RollsBack ==
  /\ armed' = KeptWatching \cup {owner}
  /\ live' = (live /\ "ghantika" \in armed')
  /\ notified' = (notified /\ "ghantika" \in armed')
  /\ pendingTest' = [pendingTest EXCEPT ![target] = 0]
  /\ step' = "none" /\ cutoverAttempt' = 0 /\ stage' = "failed"
  /\ UNCHANGED <<trigger, followUps, lastContent, probes, owner>>

(* The self-test's timer, or an arm() that throws.                          *)
AttemptFails ==
  /\ step # "none"
  /\ \/ cutoverAttempt < RETRY_COUNT /\ BeginsAttempt(cutoverAttempt + 1, KeptWatching) /\ UNCHANGED stage
     \/ RollsBack
  /\ recent' = FALSE
  /\ UNCHANGED <<reportVars, mailsSent>>

(* The target saw its own sentinel: the source is disarmed, the owner moves. *)
Succeeds ==
  /\ armed' = armed \ {owner}
  /\ owner' = target
  /\ pendingTest' = [pendingTest EXCEPT ![target] = 0]
  /\ step' = "none" /\ cutoverAttempt' = 0
  /\ stage' = IF stage = "initial" THEN "cycles" ELSE "last"

-----------------------------------------------------------------------------
(* What a detector makes of a change: #handleRawEvent, a self-test that     *)
(* passes, or nothing.                                                      *)

handleRawEvent ==
  IF IsMail /\ trigger[2] \in 1 .. mailsSent
  THEN /\ consumed' = consumed \cup {trigger[2]}
       /\ duplicates' = IF trigger[2] \in consumed THEN duplicates \cup {trigger[2]}
                        ELSE duplicates
       /\ UNCHANGED <<spurious, unread>>
  ELSE spurious' = TRUE /\ UNCHANGED <<consumed, duplicates, unread>>

(* left: whether an event of the watcher is still on its way afterwards.    *)
Detects(role, left) ==
  /\ Changed(role) /\ TakesNote(role)
  /\ IF PassesOn(role) THEN handleRawEvent ELSE UNCHANGED reportVars
  /\ IF PassesTest(role) THEN Succeeds
     ELSE UNCHANGED <<armed, controlVars, pendingTest, stage>>
  /\ live' = (live /\ "ghantika" \in armed')
  /\ notified' = (left /\ "ghantika" \in armed')
  /\ UNCHANGED <<trigger, probes, mailsSent>>

Tick == /\ "monitor" \in armed /\ Detects("monitor", notified)
        /\ recent' = FALSE /\ UNCHANGED followUps

(* #checkAndScheduleFollowUp, with left events and pending timers.          *)
Checks(left, pending) ==
  \/ Detects("ghantika", left) /\ followUps' = FollowUpsAfter(pending)
  \/ /\ ~Changed("ghantika")
     /\ notified' = left /\ followUps' = pending
     /\ UNCHANGED <<trigger, armed, live, lastContent, pendingTest, probes, controlVars,
                    reportVars, stage, mailsSent>>

(* What a change that is found sets off may run in the same turn.           *)
OnEvent == notified /\ Checks(FALSE, followUps) /\ recent' = Changed("ghantika")

(* disarm() leaves this timer running.                                      *)
FollowUp == followUps > 0 /\ Checks(notified, followUps - 1) /\ recent' = FALSE

(* readError: the detector reports it and takes note of nothing.            *)
ReadFails(role) ==
  /\ unread' = unread \cup {<<role, trigger>>} /\ Cardinality(unread') <= MaxUnread
  /\ recent' = FALSE
  /\ UNCHANGED <<trigger, armed, live, lastContent, pendingTest, probes, controlVars,
                 consumed, duplicates, spurious, stage, mailsSent>>

(* The monitor reads again at its next tick; the watcher schedules nothing. *)
CheckFails ==
  \/ "monitor" \in armed /\ ReadFails("monitor") /\ UNCHANGED <<notified, followUps>>
  \/ notified /\ ReadFails("ghantika") /\ notified' = FALSE /\ UNCHANGED followUps
  \/ followUps > 0 /\ ReadFails("ghantika") /\ followUps' = followUps - 1 /\ UNCHANGED notified

-----------------------------------------------------------------------------
(* The harness.                                                             *)

Answered == mailsSent = 0 \/ mailsSent \in consumed

SendMail ==
  /\ step = "none" /\ Answered
  /\ \/ stage = "cycles" /\ mailsSent < CYCLE_COUNT
     \/ stage = "last" /\ mailsSent = CYCLE_COUNT
  /\ mailsSent' = mailsSent + 1
  /\ Writes(<<"mail", mailsSent + 1>>, live)
  /\ UNCHANGED <<armed, live, recent, followUps, lastContent, pendingTest, probes,
                 controlVars, reportVars, stage>>

(* The cycles end with assertions on all that was reported so far.          *)
StageEnds ==
  /\ Answered
  /\ \/ stage = "cycles" /\ mailsSent = CYCLE_COUNT
        /\ stage' = IF spurious \/ unread # {} \/ duplicates # {} THEN "failed" ELSE "fallback"
     \/ stage = "last" /\ mailsSent > CYCLE_COUNT /\ stage' = "done"
  /\ UNCHANGED <<detectorVars, controlVars, reportVars, mailsSent>>

(* waitUntil: its ten seconds outlast every check that is still to come.    *)
WaitFails ==
  /\ stage = "cycles" /\ ~Answered /\ ~notified /\ followUps = 0
  /\ stage' = "failed"
  /\ UNCHANGED <<detectorVars, controlVars, reportVars, mailsSent>>

ReapAll ==
  /\ stage \in {"done", "failed"}
  /\ stage' = "reaped"
  /\ armed' = {} /\ live' = FALSE /\ notified' = FALSE /\ recent' = FALSE
  /\ UNCHANGED <<trigger, followUps, lastContent, pendingTest, probes, controlVars,
                 reportVars, mailsSent>>

UnseenBefore == WatchTakesEffect /\ UNCHANGED <<controlVars, reportVars, stage, mailsSent>>

DoorbellNext ==
  \/ Cutover \/ ArmSettles \/ AttemptFails
  \/ Tick \/ OnEvent \/ FollowUp \/ CheckFails \/ UnseenBefore
  \/ SendMail \/ StageEnds \/ WaitFails \/ ReapAll

DoorbellSpec == DoorbellInit /\ [][DoorbellNext]_doorbellVars

(* Timers fire, events that are on their way arrive, a registration takes   *)
(* effect, and the monitor does not fail to read for ever.                  *)
FairDoorbell ==
  DoorbellSpec /\ WF_doorbellVars(Tick) /\ WF_doorbellVars(OnEvent) /\ WF_doorbellVars(FollowUp) /\ WF_doorbellVars(UnseenBefore)

-----------------------------------------------------------------------------
(* A mail is not missed: whichever detector owns the trigger, and whatever  *)
(* its watcher's events were merged with, the mail resumes the agent, unless *)
(* the watcher could not read it: the monitor polls on, the watcher does not.*)
MailsResume ==
  \A n \in 1 .. CYCLE_COUNT + 1 :
    mailsSent = n ~> n \in consumed \/ <<"ghantika", <<"mail", n>>>> \in unread

(* From the baseline to the reap the owner's detector is armed, through     *)
(* every attempt, retry and rollback.                                       *)
OwnerIsArmed == stage # "reaped" => owner \in armed

(* The harness's assertions of the cycles: nothing but the mails is ever    *)
(* reported but a failed read, the self-tests of the other detector         *)
(* included, and until the fallback each is reported once.                  *)
CyclesAreClean == ~spurious /\ (stage \in {"initial", "cycles"} => duplicates = {})

(* The harness's comment: after the fallback it is the monitor that must    *)
(* deliver.                                                                 *)
OnlyTheArmedReport ==
  [][lastContent'["ghantika"] # lastContent["ghantika"] => "ghantika" \in armed \cup armed']_doorbellVars

(* The owner of the trigger watches it, and only mails are reported, and    *)
(* failed reads.                                                            *)
HandoffIsClean == OwnerIsArmed /\ CyclesAreClean

=============================================================================
