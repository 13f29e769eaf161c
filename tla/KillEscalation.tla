--------------------------- MODULE KillEscalation ---------------------------
(***************************************************************************)
(* Every way the server signals a job's process group: kill() with the     *)
(* default signal or one of the caller's, the deadline of run(), the       *)
(* shutdown, and the reap at the leader's exit or on a terminal record.    *)
(* They share evaluatePreSignalIdentityGate and killProcessGroupPosix of   *)
(* src/process.ts, may overlap on one job, and write the same record.      *)
(* Each observation is a step of its own: what it saw may be stale when    *)
(* the signal that depends on it is sent.                                  *)
(***************************************************************************)
EXTENDS ProcessGroup, FiniteSets

CONSTANTS
  Signallers,     \* calls that signal, besides the reap at the leader's exit
  Roles,          \* what they may be: "kill", "deadline", "shutdown"
  CustomSignals,  \* the signals kill() may be asked for besides SIGTERM
  MaxActive       \* how many calls may be in progress at once

Callers == Signallers \cup {"exit"}

Phases == {"idle", "gate", "proceed", "leaderRead", "enumerate", "memberRead", "term", "grace",
           "reread", "escalate", "confirm", "missed", "done"}

(* The reap at the exit is nobody else's call, and a call that awaits what  *)
(* came of a custom signal, whose phase is the signal, is in no other phase.*)
ASSUME CallsAssumption == "exit" \notin Signallers /\ CustomSignals \cap Phases = {}

VARIABLES
  state,              \* the record: "running", "exited", "killed", "failed"
  signal,             \* record.signal, "none" when absent
  killConfirmed,      \* record.kill_confirmed: "unset", "yes", "no"
  identityConfirmed,  \* record.identity_confirmed, likewise
  refusedReason,      \* record.escalation_refused_reason is present
  reapAttempted, reapEntered, \* the job's membership of the store's sets
  call                \* what each caller has done so far

recordVars == <<state, signal, killConfirmed, identityConfirmed, refusedReason>>
reapVars   == <<reapAttempted, reapEntered>>
vars == <<osVars, captureVars, recordVars, reapVars, call>>

(* snapshot: whose start times captureEscalationIdentitySnapshot recorded;  *)
(* met: a stranger took the leader's pid "early", before the call's first   *)
(* look at it, or "between" the snapshot's look and the escalation's.       *)
Idle == [phase |-> "idle", role |-> "exit", reaps |-> FALSE, snapshot |-> {}, degraded |-> FALSE,
         sure |-> FALSE, refused |-> FALSE, met |-> "never"]

Init ==
  /\ GroupInit
  /\ state = "running" /\ signal = "none" /\ killConfirmed = "unset"
  /\ identityConfirmed = "unset" /\ refusedReason = FALSE
  /\ reapAttempted = FALSE /\ reapEntered = FALSE
  /\ call = [c \in Callers |-> Idle]

IsTerminal == state \in {"exited", "killed", "failed"}

-----------------------------------------------------------------------------
(* The record.                                                              *)

Said(b) == IF b THEN "yes" ELSE "no"

(* The mark* transitions: the first terminal state stays.                   *)
Mark(st, sig) ==
  IF IsTerminal THEN UNCHANGED <<state, signal>> ELSE state' = st /\ signal' = sig

UpdateKillSignal(sig) ==
  /\ state' = state
  /\ signal' = IF state = "killed" THEN sig ELSE signal

(* onSignaled, by caller: a reap passes no callback.                        *)
OnSignaled(c, sig) ==
  CASE call[c].reaps  -> UNCHANGED <<state, signal>>
    [] ~call[c].reaps /\ call[c].role = "deadline" -> Mark("failed", "none")
    [] ~call[c].reaps /\ call[c].role # "deadline" ->
         IF sig = "SIGTERM" THEN Mark("killed", "SIGTERM") ELSE UpdateKillSignal("SIGKILL")

-----------------------------------------------------------------------------
(* The steps of a call.                                                     *)

Enters(c, phase) == call' = [call EXCEPT ![c].phase = phase]

(* The snapshot is not looked at again.                                     *)
Concludes(c, phase, refused) ==
  [call EXCEPT ![c] = [@ EXCEPT !.phase = phase, !.snapshot = {}, !.degraded = FALSE,
                                !.refused = refused, !.met = "never"]]

(* The call returns.                                                        *)
ReturnsAs(c, role) == [call EXCEPT ![c] = [Idle EXCEPT !.phase = "done", !.role = role]]

Returns(c) == ReturnsAs(c, call[c].role)

(* What the call writes once the group's end is confirmed, or is not.       *)
Writes(c, reaps, confirmed) ==
  /\ killConfirmed' = Said(confirmed)
  /\ identityConfirmed' = IF reaps THEN identityConfirmed ELSE Said(call[c].sure)
  /\ refusedReason' = (refusedReason \/ (/\ call[c].refused /\ IsTerminal
                                         /\ ~reaps /\ call[c].role # "shutdown"))
  /\ reapAttempted' = \/ reapAttempted
                      \/ call[c].role = "shutdown" /\ ~reaps
                      \/ confirmed /\ (reaps \/ call[c].role = "kill")
  /\ UNCHANGED <<state, signal>>

(* reapProcessGroupOnce up to its first await.                              *)
IsRetry == reapEntered \/ killConfirmed # "unset"

Reaps(c, role, phase) ==
  /\ call' = [call EXCEPT ![c].role = role, ![c].reaps = TRUE, ![c].phase = phase]
  /\ UNCHANGED <<recordVars, reapAttempted>>

BeginReap(c, role) ==
  /\ reapEntered' = (reapEntered \/ (~reapAttempted /\ ~IsRetry))
  /\ \/ reapAttempted /\ call' = ReturnsAs(c, role) /\ UNCHANGED <<recordVars, reapAttempted>>
     \/ ~reapAttempted /\ IsRetry /\ Reaps(c, role, "confirm")
     \/ ~reapAttempted /\ ~IsRetry /\ isProcessGroupAlive /\ Reaps(c, role, "leaderRead")
     \/ /\ ~reapAttempted /\ ~IsRetry /\ ~isProcessGroupAlive
        /\ Writes(c, TRUE, TRUE) /\ call' = ReturnsAs(c, role)

MayBegin(c) ==
  /\ call[c].phase = "idle"
  /\ Cardinality({d \in Callers : call[d].phase \notin {"idle", "done"}}) < MaxActive

(* The deadline and the shutdown come once.                                 *)
MayPlay(c, role) ==
  /\ c \in Signallers /\ MayBegin(c) /\ role \in Roles
  /\ role = "kill" \/ \A d \in Signallers : call[d].role # role

(* kill(), the deadline's timer and the shutdown on a live record.          *)
SignalLive(c, role) ==
  /\ MayPlay(c, role) /\ ~IsTerminal
  /\ call' = [call EXCEPT ![c].phase = "gate", ![c].role = role]
  /\ UNCHANGED <<osVars, captureVars, recordVars, reapVars>>

(* kill() and the shutdown on a terminal one.                               *)
SignalTerminal(c, role) ==
  /\ MayPlay(c, role) /\ role # "deadline" /\ IsTerminal
  /\ BeginReap(c, role)
  /\ UNCHANGED <<osVars, captureVars>>

(* As if being there were enough.                                           *)
CheckPresence(result) ==
  \/ result = "observer-failure"
  \/ result = "not-found" /\ PidHolders = {}
  \/ result = "alive-confirmed" /\ PidHolders # {}

(* checkProcessIdentity: the start time now read for the pid.               *)
CheckProcessIdentity(result) ==
  \/ result = "observer-failure"
  \/ result = "not-found" /\ PidHolders = {}
  \/ \E x \in PidHolders :
       result = IF StartsLike(birth, x) THEN "alive-confirmed" ELSE "identity-mismatch"

(* resolveBirthIdentityForKill, then evaluatePreSignalIdentityGate.         *)
PreSignalGate(c) ==
  /\ call[c].phase = "gate" /\ capture = "settled"
  /\ \/ birth = "none" /\ Enters(c, "proceed")
     \/ /\ birth # "none"
        /\ \E result \in {"not-found", "identity-mismatch", "observer-failure", "alive-confirmed"} :
             /\ CheckProcessIdentity(result)
             /\ call' = IF result \in {"not-found", "identity-mismatch"} THEN Returns(c)
                        ELSE [call EXCEPT ![c].phase = "proceed",
                                          ![c].sure = (result = "alive-confirmed")]
  /\ UNCHANGED <<osVars, captureVars, recordVars, reapVars>>

(* killProcessGroupPosix up to its first await; the shutdown spends the one *)
(* reap before.                                                             *)
Proceeds(c) ==
  /\ call[c].phase = "proceed"
  /\ \/ ~isProcessGroupAlive /\ Writes(c, FALSE, TRUE) /\ call' = Returns(c)
     \/ /\ isProcessGroupAlive /\ Enters(c, "leaderRead")
        /\ reapAttempted' = (reapAttempted \/ call[c].role = "shutdown")
        /\ UNCHANGED recordVars
  /\ UNCHANGED <<osVars, captureVars, reapEntered>>

-----------------------------------------------------------------------------
(* captureEscalationIdentitySnapshot: three observations under one budget,  *)
(* whose exhaustion counts as the failure of the observation it cuts off.   *)

Degrades(c, phase) ==
  call' = [call EXCEPT ![c].phase = phase, ![c].degraded = TRUE, ![c].snapshot = {}]

(* A degraded snapshot records nobody.                                      *)
Records(c, rows) == IF call[c].degraded THEN {} ELSE call[c].snapshot \cup rows

LeaderRead(c) ==
  /\ call[c].phase = "leaderRead"
  /\ \/ \E rows \in ReadPidStartTimes({"leader", "stranger"}) :
          call' = [call EXCEPT ![c].phase = "enumerate", ![c].snapshot = Records(c, rows)]
     \/ Degrades(c, "enumerate")
  /\ UNCHANGED <<osVars, captureVars, recordVars, reapVars>>

Enumerate(c) ==
  /\ call[c].phase = "enumerate"
  /\ \/ Enters(c, IF member = "in" THEN "memberRead" ELSE "term")
     \/ Degrades(c, "term")
  /\ UNCHANGED <<osVars, captureVars, recordVars, reapVars>>

MemberRead(c) ==
  /\ call[c].phase = "memberRead"
  /\ \/ \E rows \in ReadPidStartTimes({"member"}) :
          call' = [call EXCEPT ![c].phase = "term", ![c].snapshot = Records(c, rows)]
     \/ Degrades(c, "term")
  /\ UNCHANGED <<osVars, captureVars, recordVars, reapVars>>

-----------------------------------------------------------------------------
(* signalProcessGroupPosix: delivered, ESRCH, or EPERM, which needs a group *)
(* with nobody in it the server may signal.                                 *)

Delivers(sig) ==
  /\ GroupMembers # {}
  /\ delivered' = IF OwnMembers # {} THEN delivered \cup {sig} ELSE delivered

Denied == GroupMembers # {} /\ GroupMembers \subseteq
            {"stranger"} \cup IF leader = "zombie" THEN {"leader"} ELSE {}

(* As if every attempt were a delivery.                                     *)
SendClaimsUnsent(c, sig, next) ==
  /\ \/ Delivers(sig)
     \/ GroupMembers = {} /\ delivered' = delivered
  /\ OnSignaled(c, sig) /\ Enters(c, next)
  /\ UNCHANGED <<leader, member, stranger, looksSame, cause, captureVars,
                 killConfirmed, identityConfirmed, refusedReason, reapVars>>

(* SIGTERM, or the escalation's SIGKILL.  After EPERM pgrep arbitrates      *)
(* (throwUnlessBenignAlreadyGoneRace): the group has gone, or the call      *)
(* throws, and a reap that throws writes its failure.                       *)
Send(c, sig, next) ==
  /\ \/ /\ Delivers(sig) /\ OnSignaled(c, sig) /\ Enters(c, next)
        /\ killConfirmed' = killConfirmed
     \/ /\ GroupMembers = {} /\ Enters(c, next)
        /\ UNCHANGED <<delivered, state, signal, killConfirmed>>
     \/ /\ Denied /\ Unlisted /\ Enters(c, "confirm")
        /\ UNCHANGED <<delivered, state, signal, killConfirmed>>
     \/ /\ Denied /\ call' = Returns(c)
        /\ killConfirmed' = IF call[c].reaps THEN "no" ELSE killConfirmed
        /\ UNCHANGED <<delivered, state, signal>>
  /\ UNCHANGED <<leader, member, stranger, looksSame, cause, captureVars,
                 identityConfirmed, refusedReason, reapVars>>

SendTerm(c) == call[c].phase = "term" /\ Send(c, "SIGTERM", "grace")

SendKill(c) == call[c].phase = "escalate" /\ Send(c, "SIGKILL", "confirm")

(* waitForProcessDeath, the second look at the group, and the gate's answer *)
(* to a snapshot that recorded nobody.                                      *)
GraceEnds(c) ==
  /\ call[c].phase = "grace"
  /\ call' = IF isProcessGroupAlive /\ call[c].snapshot # {}
             THEN [call EXCEPT ![c].phase = "reread", ![c].degraded = FALSE]
             ELSE Concludes(c, "confirm", isProcessGroupAlive)
  /\ UNCHANGED <<osVars, captureVars, recordVars, reapVars>>

(* By pid alone: a holder of the leader's pid passes for the leader.        *)
MatchedByPid(c, rows) == \E x \in rows : x = "member" \/ {"leader", "stranger"} \cap call[c].snapshot # {}

Matched(c, rows) == \E r \in call[c].snapshot, x \in rows : StartsLike(r, x)

(* The pids of the snapshot.                                                *)
Pids(recorded) ==
  recorded \cup IF recorded \cap {"leader", "stranger"} # {} THEN {"leader", "stranger"} ELSE {}

EvaluateEscalationIdentityGate(c) ==
  /\ call[c].phase = "reread"
  /\ \/ \E rows \in ReadPidStartTimes(Pids(call[c].snapshot)) :
          IF Matched(c, rows) THEN Enters(c, "escalate")
          ELSE call' = Concludes(c, "confirm", TRUE)
     \/ call' = Concludes(c, "confirm", TRUE)
  /\ UNCHANGED <<osVars, captureVars, recordVars, reapVars>>

-----------------------------------------------------------------------------
(* confirmProcessGroupReapedPosix: a pgrep that fails reads as alive.       *)
Confirm(c) ==
  /\ call[c].phase = "confirm"
  /\ (Unlisted /\ Writes(c, call[c].reaps, TRUE)) \/ Writes(c, call[c].reaps, FALSE)
  /\ call' = Returns(c)
  /\ UNCHANGED <<osVars, captureVars, reapEntered>>

-----------------------------------------------------------------------------
(* kill() with a signal of the caller's: sent once; nothing is written      *)
(* unless the group's end is confirmed.                                     *)

SendCustom(c, sig) ==
  /\ call[c].role = "kill" /\ call[c].phase = "proceed"
  /\ reapAttempted' = (reapAttempted \/ sig = "SIGKILL")
  /\ \/ Delivers(sig) /\ call' = [call EXCEPT ![c].phase = sig]
     \/ GroupMembers = {} /\ Enters(c, "missed") /\ delivered' = delivered
     \/ Denied /\ call' = Returns(c) /\ delivered' = delivered
  /\ UNCHANGED <<leader, member, stranger, looksSame, cause, captureVars, recordVars,
                 reapEntered>>

ConfirmCustom(c) ==
  /\ call[c].phase \in CustomSignals \cup {"missed"}
  /\ call' = Returns(c)
  /\ \/ UNCHANGED recordVars
     \/ /\ Unlisted
        /\ IF call[c].phase = "missed" THEN UNCHANGED <<state, signal>>
           ELSE Mark("killed", call[c].phase)
        /\ killConfirmed' = "yes" /\ identityConfirmed' = Said(call[c].sure)
        /\ refusedReason' = refusedReason
  /\ UNCHANGED <<osVars, captureVars, reapVars>>

-----------------------------------------------------------------------------
(* The leader's exit, and the marks of the terminal-mark gate after it.     *)

OnExit ==
  /\ leader = "gone" /\ MayBegin("exit")
  /\ BeginReap("exit", "exit")
  /\ UNCHANGED <<osVars, captureVars>>

GateMarks ==
  /\ call["exit"].phase # "idle" /\ ~IsTerminal
  /\ IF cause = "code" THEN Mark("exited", "none") ELSE Mark("killed", cause)
  /\ UNCHANGED <<osVars, captureVars, killConfirmed, identityConfirmed, refusedReason,
                 reapVars, call>>

StrangerArrives ==
  /\ StrangerTakesPid
  /\ call' = [c \in Callers |-> [call[c] EXCEPT !.met =
       CASE call[c].phase \in {"idle", "gate"} -> "early"
         [] call[c].phase \in {"enumerate", "memberRead", "term", "grace", "reread"} -> "between"
         [] OTHER -> "never"]]
  /\ UNCHANGED <<recordVars, reapVars>>

Call(c) ==
  \/ PreSignalGate(c) \/ Proceeds(c)
  \/ LeaderRead(c) \/ Enumerate(c) \/ MemberRead(c)
  \/ SendTerm(c) \/ SendKill(c) \/ GraceEnds(c)
  \/ EvaluateEscalationIdentityGate(c) \/ Confirm(c) \/ ConfirmCustom(c)
  \/ \E role \in Roles : SignalLive(c, role) \/ SignalTerminal(c, role)
  \/ \E sig \in CustomSignals : SendCustom(c, sig)

Next ==
  \/ \E c \in Callers : Call(c)
  \/ OnExit \/ GateMarks \/ StrangerArrives
  \/ GroupNext /\ UNCHANGED <<recordVars, reapVars, call>>

Spec == Init /\ [][Next]_vars

-----------------------------------------------------------------------------
(* The record, the flags and the calls hold values of their types.          *)
TypeOK ==
  /\ state \in {"running", "exited", "killed", "failed"}
  /\ signal \in {"none", "code", "SIGTERM", "SIGKILL"} \cup CustomSignals
  /\ {killConfirmed, identityConfirmed} \subseteq {"unset", "yes", "no"}
  /\ {refusedReason, reapAttempted, reapEntered, looksSame} \subseteq BOOLEAN
  /\ \A c \in Callers :
       /\ call[c].phase \in Phases \cup CustomSignals
       /\ call[c].snapshot \subseteq {"leader", "member", "stranger"}

Passes(c, phase, next) == call[c].phase = phase /\ call'[c].phase = next

(* The escalation gate never clears a SIGKILL for an id that a stranger     *)
(* took over between the snapshot's look and its own: not unless the        *)
(* stranger's start time reads like the leader's, or a recorded member      *)
(* lives on outside the group and vouches for it.                           *)
NewcomersAreSpared ==
  [][\A c \in Callers :
       /\ Passes(c, "reread", "escalate")
       /\ call[c].met = "between" /\ stranger \in {"pid", "group"}
       => looksSame \/ member = "left"]_vars

(* A call whose pre-signal gate confirmed the leader sends its SIGTERM to   *)
(* nobody who had taken the leader's pid before the gate looked, unless the *)
(* birth identity it compared is the stranger's own or reads like it.       *)
GateKnowsTheLeader ==
  [][\A c \in Callers :
       /\ Passes(c, "term", "grace") /\ "stranger" \in GroupMembers
       /\ call[c].sure /\ call[c].met = "early"
       => looksSame \/ birth = "stranger"]_vars

(* A record says "killed" with a signal only when the system took that      *)
(* signal for the group or the leader died of it: an attempt that found the *)
(* group gone, or was denied, never turns an exit into a kill.              *)
KilledBySomeSignal ==
  state = "killed" => signal \in delivered \cup {cause} \/ stranger \in {"group", "gone"}

(* No capture outlasts its aggregate deadline, however the observers' waits *)
(* and the retries' sleeps add up: a kill() that awaits it is not held.     *)
CaptureIsBounded == elapsed <= AggregateDeadline

(* What a record says of a kill is what was done, and is said in time.      *)
KillsAreRecorded == KilledBySomeSignal /\ CaptureIsBounded

(* The doc of JobRecord.escalation_refused_reason: absent "when escalation  *)
(* proceeded".                                                              *)
RefusalMeansNoEscalation == refusedReason => signal # "SIGKILL"

=============================================================================
