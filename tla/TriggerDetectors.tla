-------------------------- MODULE TriggerDetectors --------------------------
(***************************************************************************)
(* The trigger file of the doorbell and its two detectors: the monitor,     *)
(* which polls it, and ghantika, which watches it with fs.watch and checks  *)
(* it once more after every change.  The file is a register: a write        *)
(* replaces what was there, whether or not a detector has seen it.          *)
(***************************************************************************)
EXTENDS Integers

VARIABLES
  trigger,        \* content: <<"empty", 0>>, <<"mail", seq>> or <<"probe", token>>
  armed,          \* detectors with a timer or a watcher
  live,           \* the watcher's registration has taken effect
  notified,       \* an event of the watcher is on its way
  recent,         \* one was delivered in this turn of the event loop
  followUps,      \* pending timers of #checkAndScheduleFollowUp
  lastContent,    \* of each detector; Unreadable if its arm could not read the file
  pendingTest,    \* token each detector's self-test waits for, 0 for none
  probes          \* self-tests begun: their tokens are all different

detectorVars == <<trigger, armed, live, notified, recent, followUps, lastContent, pendingTest,
                  probes>>

Roles == {"monitor", "ghantika"}
Other(role) == IF role = "monitor" THEN "ghantika" ELSE "monitor"

Unreadable == <<"unreadable", 0>>

IsProbe == trigger[1] = "probe"
IsMail  == trigger[1] = "mail"

DetectorsInit ==
  /\ trigger = <<"empty", 0>>
  /\ armed = {"monitor"}                 \* the baseline
  /\ live = FALSE /\ notified = FALSE /\ recent = FALSE /\ followUps = 0
  /\ lastContent = [r \in Roles |-> <<"empty", 0>>]
  /\ pendingTest = [r \in Roles |-> 0] /\ probes = 0

-----------------------------------------------------------------------------
(* A write, by watchers as they are after it.  In the turn in which an event *)
(* was delivered, the new event may be coalesced with that one.             *)
Writes(content, watching) ==
  /\ trigger' = content
  /\ \/ notified' = (notified \/ watching)
     \/ recent /\ notified' = notified

(* probeArmed up to its await.                                              *)
BeginsProbe(role, watching) ==
  /\ probes' = probes + 1
  /\ pendingTest' = [pendingTest EXCEPT ![role] = probes + 1]
  /\ Writes(<<"probe", probes + 1>>, watching)

WatchTakesEffect ==
  /\ "ghantika" \in armed /\ ~live
  /\ live' = TRUE /\ recent' = FALSE
  /\ UNCHANGED <<trigger, armed, notified, followUps, lastContent, pendingTest, probes>>

-----------------------------------------------------------------------------
Changed(role) == trigger # lastContent[role]

(* A detector takes note of the content; a sentinel is never passed on.     *)
TakesNote(role) == lastContent' = [lastContent EXCEPT ![role] = trigger]

(* Fault: a detector passes on the sentinels it does not wait for.          *)
PassesOnForeignSentinel(role) == ~IsProbe \/ pendingTest[role] # trigger[2]

PassesOn(role) == ~IsProbe

PassesTest(role) == IsProbe /\ pendingTest[role] = trigger[2]

(* Fault: no check follows a change.                                        *)
FollowUpsAfterNone(pending) == pending

(* Another check follows every change that was found.                       *)
FollowUpsAfter(pending) == pending + 1

=============================================================================
