------------------------ MODULE KillEscalationProofs ------------------------
(***************************************************************************)
(* What KillEscalation promises of the signals sent to a process group,    *)
(* proved for any set of calls, any signals kill() may be asked for and    *)
(* any durations of the birth identity's capture.                          *)
(***************************************************************************)
EXTENDS KillEscalation, TLAPS

(* The phases of a call that has not looked at the leader's pid for its     *)
(* snapshot yet.                                                            *)
Unread == {"idle", "gate", "proceed", "leaderRead"}

Pidded == {"leader", "member", "stranger"}

CallRecords ==
  [phase : Phases \cup CustomSignals, role : Roles \cup {"exit"}, reaps : BOOLEAN,
   snapshot : SUBSET Pidded, degraded : BOOLEAN, sure : BOOLEAN, refused : BOOLEAN,
   met : {"never", "early", "between"}]

CallsTypeOK == call \in [Callers -> CallRecords]

(* A pid is given away only when the leader was collected and its group was *)
(* empty, and nobody joins the group afterwards.                            *)
GroupInv ==
  /\ stranger # "none" => leader = "gone" /\ member # "in"
  /\ stranger \in {"none", "pid", "group", "gone"}
  /\ cause \in {"none", "code"} \cup delivered
  /\ delivered \subseteq {"SIGTERM", "SIGKILL"} \cup CustomSignals

(* The capture's clock.                                                     *)
ClockInv == elapsed \in Nat /\ retryUntil \in Nat /\ elapsed <= AggregateDeadline

(* What a call knows when a stranger takes the pid: "early", its gate will  *)
(* compare the stranger; "between", its snapshot is of others.              *)
CallInv(c) ==
  /\ call[c].phase \in {"idle", "gate"} => ~call[c].sure
  /\ call[c].sure => capture = "settled"
  /\ call[c].met # "never" => stranger # "none"
  /\ call[c].met = "between" => call[c].phase \notin Unread /\ "stranger" \notin call[c].snapshot
  /\ stranger = "none" => "stranger" \notin call[c].snapshot
  /\ call[c].sure /\ call[c].met = "early" =>
       looksSame \/ birth = "stranger" \/ stranger = "gone"
  /\ call[c].phase \in CustomSignals => call[c].phase \in delivered \/ stranger \in {"group", "gone"}
  /\ c = "exit" /\ call[c].phase # "idle" => leader = "gone"

(* The signal of a kill was taken by the group, ended the leader, or went   *)
(* to a stranger.                                                           *)
RecordInv ==
  state = "killed" => \/ signal \in delivered
                      \/ leader # "alive" /\ signal = cause
                      \/ stranger \in {"group", "gone"}

RecordTypeOK ==
  /\ state \in {"running", "exited", "killed", "failed"}
  /\ signal \in {"none", "code", "SIGTERM", "SIGKILL"} \cup CustomSignals
  /\ killConfirmed \in {"unset", "yes", "no"} /\ identityConfirmed \in {"unset", "yes", "no"}

FlagsTypeOK == {refusedReason, reapAttempted, reapEntered, looksSame} \subseteq BOOLEAN

IInv ==
  /\ RecordTypeOK /\ FlagsTypeOK /\ CallsTypeOK
  /\ GroupInv /\ ClockInv /\ (\A c \in Callers : CallInv(c)) /\ RecordInv

-----------------------------------------------------------------------------
(* Shapes of a call's next record.                                          *)

LEMMA EntersShape ==
  ASSUME CallsTypeOK, NEW c \in Callers, NEW p \in Phases \cup CustomSignals, Enters(c, p)
  PROVE  /\ CallsTypeOK' /\ \A d \in Callers \ {c} : call'[d] = call[d]
         /\ call'[c].phase = p /\ call'[c].snapshot = call[c].snapshot
         /\ call'[c].met = call[c].met /\ (call'[c].sure => call[c].sure)
<1> DEFINE t == [call[c] EXCEPT !.phase = p]
<1>1. call[c] \in CallRecords BY DEF CallsTypeOK
<1>2. /\ t \in CallRecords /\ t.phase = p /\ t.snapshot = call[c].snapshot
      /\ t.met = call[c].met /\ (t.sure => call[c].sure)
  BY <1>1 DEF CallRecords
<1>3. call' = [call EXCEPT ![c] = t] BY DEF Enters
<1> HIDE DEF t
<1> QED BY <1>2, <1>3 DEF CallsTypeOK

LEMMA ReturnsShape ==
  ASSUME CallsTypeOK, NEW c \in Callers, NEW role \in Roles \cup {"exit"}, call' = ReturnsAs(c, role)
  PROVE  /\ CallsTypeOK' /\ \A d \in Callers \ {c} : call'[d] = call[d]
         /\ call'[c].phase = "done" /\ call'[c].snapshot = {}
         /\ call'[c].met = "never" /\ ~call'[c].sure
<1> DEFINE t == [Idle EXCEPT !.phase = "done", !.role = role]
<1>1. /\ t \in CallRecords /\ t.phase = "done" /\ t.snapshot = {}
      /\ t.met = "never" /\ ~t.sure
  BY DEF Idle, CallRecords, Phases, Pidded
<1>2. call' = [call EXCEPT ![c] = t] BY DEF ReturnsAs
<1> HIDE DEF t
<1> QED BY <1>1, <1>2 DEF CallsTypeOK

LEMMA ConcludesShape ==
  ASSUME CallsTypeOK, NEW c \in Callers, NEW p \in Phases, NEW r \in BOOLEAN, call' = Concludes(c, p, r)
  PROVE  /\ CallsTypeOK' /\ \A d \in Callers \ {c} : call'[d] = call[d]
         /\ call'[c].phase = p /\ call'[c].snapshot = {}
         /\ call'[c].met = "never" /\ (call'[c].sure => call[c].sure)
<1> DEFINE t == [call[c] EXCEPT !.phase = p, !.snapshot = {}, !.degraded = FALSE,
                                !.refused = r, !.met = "never"]
<1>1. call[c] \in CallRecords BY DEF CallsTypeOK
<1>2. /\ t \in CallRecords /\ t.phase = p /\ t.snapshot = {}
      /\ t.met = "never" /\ (t.sure => call[c].sure)
  BY <1>1 DEF CallRecords
<1>3. call' = [call EXCEPT ![c] = t] BY DEF Concludes
<1> HIDE DEF t
<1> QED BY <1>2, <1>3 DEF CallsTypeOK

(* A reading of start times, or its failure.                                *)
LEMMA ReadShape ==
  ASSUME CallsTypeOK, NEW c \in Callers, NEW p \in Phases, NEW rows \in SUBSET Pidded,
         \/ call' = [call EXCEPT ![c].phase = p, ![c].snapshot = Records(c, rows)]
         \/ Degrades(c, p)
  PROVE  /\ CallsTypeOK' /\ \A d \in Callers \ {c} : call'[d] = call[d]
         /\ call'[c].phase = p /\ call'[c].snapshot \subseteq call[c].snapshot \cup rows
         /\ call'[c].met = call[c].met /\ (call'[c].sure => call[c].sure)
<1>1. call[c] \in CallRecords BY DEF CallsTypeOK
<1>2. CASE call' = [call EXCEPT ![c].phase = p, ![c].snapshot = Records(c, rows)]
  <2> DEFINE s == Records(c, rows)
             t == [call[c] EXCEPT !.phase = p, !.snapshot = s]
  <2>1. s \in SUBSET Pidded /\ s \subseteq call[c].snapshot \cup rows
    BY <1>1 DEF Records, CallRecords
  <2> HIDE DEF s
  <2>2. /\ t \in CallRecords /\ t.phase = p /\ t.snapshot = s
        /\ t.met = call[c].met /\ (t.sure => call[c].sure)
    BY <1>1, <2>1 DEF CallRecords
  <2>3. call' = [call EXCEPT ![c] = t] BY <1>2 DEF s, CallsTypeOK
  <2> HIDE DEF t
  <2> QED BY <2>1, <2>2, <2>3 DEF CallsTypeOK
<1>3. CASE Degrades(c, p)
  <2> DEFINE t == [call[c] EXCEPT !.phase = p, !.degraded = TRUE, !.snapshot = {}]
  <2>1. /\ t \in CallRecords /\ t.phase = p /\ t.snapshot = {}
        /\ t.met = call[c].met /\ (t.sure => call[c].sure)
    BY <1>1 DEF CallRecords
  <2>2. call' = [call EXCEPT ![c] = t] BY <1>3 DEF Degrades, CallsTypeOK
  <2> HIDE DEF t
  <2> QED BY <2>1, <2>2 DEF CallsTypeOK
<1> QED BY <1>2, <1>3

-----------------------------------------------------------------------------
(* The steps of a call.                                                     *)

(* The bodies of NewcomersAreSpared and GateKnowsTheLeader.                 *)
Spares(c) ==
  /\ Passes(c, "reread", "escalate")
  /\ call[c].met = "between" /\ stranger \in {"pid", "group"}
  => looksSame \/ member = "left"

Knows(c) ==
  /\ Passes(c, "term", "grace") /\ "stranger" \in GroupMembers
  /\ call[c].sure /\ call[c].met = "early"
  => looksSame \/ birth = "stranger"

Kept == IInv' /\ \A c \in Callers : Spares(c) /\ Knows(c)

(* The system and the capture stand still, but for a signal delivered.      *)
Still == UNCHANGED <<leader, member, stranger, looksSame, cause, captureVars>>

(* A step of one call that looks at nothing new: what the other calls know  *)
(* and what this one knew holds as before.                                  *)
LEMMA AdvanceKeeps ==
  ASSUME IInv, NEW c \in Callers, CallsTypeOK', \A d \in Callers \ {c} : call'[d] = call[d],
         Still, delivered \subseteq delivered',
         call'[c].phase \notin {"idle", "gate"} \/ ~call'[c].sure,
         call'[c].sure => call[c].sure, call'[c].met \in {call[c].met, "never"},
         "stranger" \in call'[c].snapshot => "stranger" \in call[c].snapshot,
         call'[c].met = "between" => call'[c].phase \notin Unread,
         call'[c].phase \in CustomSignals =>
           call'[c].phase \in delivered' \/ stranger \in {"group", "gone"},
         c # "exit" \/ call[c].phase # "idle" \/ leader = "gone"
  PROVE  /\ \A d \in Callers : CallInv(d)'
         /\ \A d \in Callers : Knows(d)
         /\ ~Passes(c, "reread", "escalate") => \A d \in Callers : Spares(d)
<1> USE DEF Still, captureVars
<1>1. ASSUME NEW d \in Callers \ {c} PROVE CallInv(d)' /\ Knows(d) /\ Spares(d)
  <2>1. CallInv(d) /\ call'[d] = call[d] BY DEF IInv
  <2> QED BY <2>1 DEF CallInv, Knows, Spares, Passes
<1>2. CallInv(c)' BY DEF IInv, CallInv
<1>3. Knows(c)
  <2>1. "stranger" \in GroupMembers => stranger = "group" BY DEF GroupMembers
  <2> QED BY <2>1 DEF IInv, CallInv, Knows
<1>4. ~Passes(c, "reread", "escalate") => Spares(c) BY DEF Spares
<1> QED BY <1>1, <1>2, <1>3, <1>4

(* A step that tells the record nothing.                                    *)
Quiet == Still /\ UNCHANGED <<delivered, state, signal>>

LEMMA QuietKeeps ==
  ASSUME IInv, Quiet, RecordTypeOK', FlagsTypeOK', CallsTypeOK', \A d \in Callers : CallInv(d)'
  PROVE  IInv'
BY DEF IInv, Quiet, Still, captureVars, GroupInv, ClockInv, RecordInv, AggregateDeadline

LEMMA WritesType ==
  ASSUME RecordTypeOK, FlagsTypeOK, NEW c \in Callers, NEW reaps \in BOOLEAN, NEW confirmed \in BOOLEAN,
         Writes(c, reaps, confirmed), looksSame' = looksSame, reapEntered' \in BOOLEAN
  PROVE  RecordTypeOK' /\ FlagsTypeOK' /\ UNCHANGED <<state, signal>>
<1>1. killConfirmed' \in {"yes", "no"} BY DEF Writes, Said
<1>2. identityConfirmed' \in {"unset", "yes", "no"} BY DEF Writes, Said, RecordTypeOK
<1>3. UNCHANGED <<state, signal>> BY DEF Writes
<1>4. refusedReason' \in BOOLEAN /\ reapAttempted' \in BOOLEAN BY DEF Writes
<1> QED BY <1>1, <1>2, <1>3, <1>4 DEF RecordTypeOK, FlagsTypeOK

LEMMA RolesInBounds == ASSUME CallsTypeOK, NEW c \in Callers
                       PROVE /\ call[c].role \in Roles \cup {"exit"} /\ call[c].reaps \in BOOLEAN
                             /\ call[c] \in CallRecords
BY DEF CallsTypeOK, CallRecords

(* A call returns and the record's state and signal stay as they are.       *)
LEMMA QuietReturn ==
  ASSUME IInv, NEW c \in Callers, NEW role \in Roles \cup {"exit"}, call' = ReturnsAs(c, role), Quiet,
         RecordTypeOK', FlagsTypeOK', c # "exit" \/ call[c].phase # "idle" \/ leader = "gone"
  PROVE  Kept
<1>1. /\ CallsTypeOK' /\ \A d \in Callers \ {c} : call'[d] = call[d]
      /\ call'[c].phase = "done" /\ call'[c].snapshot = {} /\ call'[c].met = "never" /\ ~call'[c].sure
  BY ReturnsShape DEF IInv
<1>2. "done" \notin CustomSignals BY CallsAssumption DEF Phases
<1>3. Still /\ delivered \subseteq delivered' /\ ~Passes(c, "reread", "escalate")
  BY <1>1 DEF Quiet, Passes
<1>4. (\A d \in Callers : CallInv(d)') /\ \A d \in Callers : Spares(d) /\ Knows(d)
  BY <1>1, <1>2, <1>3, AdvanceKeeps
<1> QED BY <1>1, <1>4, QuietKeeps DEF Kept

(* It goes on to a phase that comes after looking at the group's id only.   *)
LEMMA QuietEnter ==
  ASSUME IInv, NEW c \in Callers, call[c].phase \notin {"idle", "reread"},
         NEW p \in Phases \ {"idle", "gate"}, p \in Unread => call[c].phase \in Unread,
         Enters(c, p), Quiet, RecordTypeOK', FlagsTypeOK'
  PROVE  Kept
<1>1. /\ CallsTypeOK' /\ \A d \in Callers \ {c} : call'[d] = call[d]
      /\ call'[c].phase = p /\ call'[c].snapshot = call[c].snapshot
      /\ call'[c].met = call[c].met /\ (call'[c].sure => call[c].sure)
  BY EntersShape DEF IInv
<1>2. p \notin CustomSignals BY CallsAssumption
<1>3. Still /\ delivered \subseteq delivered' /\ ~Passes(c, "reread", "escalate")
  BY DEF Quiet, Passes
<1>4. call'[c].met = "between" => call'[c].phase \notin Unread BY <1>1 DEF IInv, CallInv
<1>5. (\A d \in Callers : CallInv(d)') /\ \A d \in Callers : Spares(d) /\ Knows(d)
  BY <1>1, <1>2, <1>3, <1>4, AdvanceKeeps
<1> QED BY <1>1, <1>5, QuietKeeps DEF Kept

LEMMA QuietConclude ==
  ASSUME IInv, NEW c \in Callers, NEW p \in Phases \ (Unread \cup {"escalate"}), NEW r \in BOOLEAN,
         call[c].phase # "idle", call' = Concludes(c, p, r), Quiet, RecordTypeOK', FlagsTypeOK'
  PROVE  Kept
<1>1. /\ CallsTypeOK' /\ \A d \in Callers \ {c} : call'[d] = call[d]
      /\ call'[c].phase = p /\ call'[c].snapshot = {}
      /\ call'[c].met = "never" /\ (call'[c].sure => call[c].sure)
  BY ConcludesShape DEF IInv
<1>2. p \notin CustomSignals /\ p \notin {"idle", "gate"} BY CallsAssumption DEF Unread
<1>3. Still /\ delivered \subseteq delivered' /\ ~Passes(c, "reread", "escalate")
  BY <1>1 DEF Quiet, Passes
<1>5. (\A d \in Callers : CallInv(d)') /\ \A d \in Callers : Spares(d) /\ Knows(d)
  BY <1>1, <1>2, <1>3, AdvanceKeeps
<1> QED BY <1>1, <1>5, QuietKeeps DEF Kept

-----------------------------------------------------------------------------
(* One lemma per action of a call.                                          *)

LEMMA BeginReapKeeps ==
  ASSUME IInv, NEW c \in Callers, NEW role \in Roles \cup {"exit"}, call[c].phase = "idle",
         c # "exit" \/ leader = "gone", BeginReap(c, role), UNCHANGED <<osVars, captureVars>>
  PROVE  Kept
<1>1. Quiet BY DEF BeginReap, Reaps, Writes, Quiet, Still, osVars, recordVars
<1>2. reapEntered' \in BOOLEAN /\ looksSame' = looksSame BY DEF BeginReap, osVars
<1>3. RecordTypeOK' /\ FlagsTypeOK'
  <2>1. CASE UNCHANGED <<recordVars, reapAttempted>>
    BY <1>2, <2>1 DEF IInv, RecordTypeOK, FlagsTypeOK, recordVars
  <2>2. CASE Writes(c, TRUE, TRUE) BY <1>2, <2>2, WritesType DEF IInv
  <2> QED BY <2>1, <2>2 DEF BeginReap, Reaps
<1>4. CASE call' = ReturnsAs(c, role) BY <1>1, <1>3, <1>4, QuietReturn
<1>5. ASSUME NEW p \in {"confirm", "leaderRead"}, Reaps(c, role, p) PROVE Kept
  <2> DEFINE t == [call[c] EXCEPT !.role = role, !.reaps = TRUE, !.phase = p]
  <2>1. call[c] \in CallRecords BY DEF IInv, CallsTypeOK
  <2>2. p \in Phases BY DEF Phases
  <2>3. /\ t \in CallRecords /\ t.phase = p /\ t.snapshot = call[c].snapshot
        /\ t.met = call[c].met /\ (t.sure => call[c].sure)
    BY <2>1, <2>2 DEF CallRecords
  <2>4. call' = [call EXCEPT ![c] = t] BY <1>5 DEF Reaps, IInv, CallsTypeOK
  <2> HIDE DEF t
  <2>5. /\ CallsTypeOK' /\ \A d \in Callers \ {c} : call'[d] = call[d] /\ call'[c] = t
    BY <2>3, <2>4 DEF IInv, CallsTypeOK
  <2>6. /\ CallsTypeOK' /\ \A d \in Callers \ {c} : call'[d] = call[d]
        /\ call'[c].phase = p /\ call'[c].snapshot = call[c].snapshot
        /\ call'[c].met = call[c].met /\ (call'[c].sure => call[c].sure)
    BY <2>3, <2>4, <2>5 DEF IInv, CallsTypeOK
  <2>7. p \notin CustomSignals /\ p \notin {"idle", "gate"} BY <2>2, CallsAssumption
  <2>8. call'[c].met # "between" BY <2>6 DEF IInv, CallInv, Unread
  <2>9. ~Passes(c, "reread", "escalate") BY DEF Passes
  <2>10. (\A d \in Callers : CallInv(d)') /\ \A d \in Callers : Spares(d) /\ Knows(d)
    BY <1>1, <2>6, <2>7, <2>8, <2>9, AdvanceKeeps DEF Quiet
  <2> QED BY <1>1, <1>3, <2>6, <2>10, QuietKeeps DEF Kept
<1> QED BY <1>4, <1>5 DEF BeginReap

LEMMA SignalLiveKeeps ==
  ASSUME IInv, NEW c \in Callers, NEW role \in Roles, SignalLive(c, role)
  PROVE  Kept
<1> DEFINE t == [call[c] EXCEPT !.phase = "gate", !.role = role]
<1>1. /\ Quiet /\ RecordTypeOK' /\ FlagsTypeOK'
      /\ call[c].phase = "idle" /\ c # "exit"
  BY CallsAssumption DEF SignalLive, MayPlay, MayBegin, Quiet, Still, osVars, recordVars, reapVars,
                         IInv, RecordTypeOK, FlagsTypeOK
<1>2. call[c] \in CallRecords BY DEF IInv, CallsTypeOK
<1>3. "gate" \in Phases BY DEF Phases
<1>4. /\ t \in CallRecords /\ t.phase = "gate" /\ t.snapshot = call[c].snapshot
      /\ t.met = call[c].met /\ (t.sure => call[c].sure)
  BY <1>2, <1>3 DEF CallRecords
<1>5. call' = [call EXCEPT ![c] = t] BY DEF SignalLive, IInv, CallsTypeOK
<1> HIDE DEF t
<1>6. /\ CallsTypeOK' /\ \A d \in Callers \ {c} : call'[d] = call[d]
      /\ call'[c].phase = "gate" /\ call'[c].snapshot = call[c].snapshot
      /\ call'[c].met = call[c].met /\ (call'[c].sure => call[c].sure)
  BY <1>4, <1>5 DEF IInv, CallsTypeOK
<1>7. ~call[c].sure /\ call[c].met # "between" BY <1>1 DEF IInv, CallInv, Unread
<1>8. "gate" \notin CustomSignals BY <1>3, CallsAssumption
<1>9. ~Passes(c, "reread", "escalate") BY <1>1 DEF Passes
<1>10. (\A d \in Callers : CallInv(d)') /\ \A d \in Callers : Spares(d) /\ Knows(d)
  BY <1>1, <1>6, <1>7, <1>8, <1>9, AdvanceKeeps DEF Quiet
<1> QED BY <1>1, <1>6, <1>10, QuietKeeps DEF Kept

LEMMA SignalTerminalKeeps ==
  ASSUME IInv, NEW c \in Callers, NEW role \in Roles, SignalTerminal(c, role)
  PROVE  Kept
<1>1. /\ call[c].phase = "idle" /\ c # "exit" /\ BeginReap(c, role)
      /\ UNCHANGED <<osVars, captureVars>>
  BY CallsAssumption DEF SignalTerminal, MayPlay, MayBegin
<1> QED BY <1>1, BeginReapKeeps

(* What the gate confirms is who holds the pid: the stranger alone, when it *)
(* came early.                                                              *)
LEMMA PreSignalGateKeeps ==
  ASSUME IInv, NEW c \in Callers, PreSignalGate(c)
  PROVE  Kept
<1>1. Quiet /\ RecordTypeOK' /\ FlagsTypeOK' /\ call[c].phase = "gate" /\ capture = "settled"
  BY DEF PreSignalGate, Quiet, Still, osVars, recordVars, reapVars, IInv, RecordTypeOK, FlagsTypeOK
<1>2. CASE Enters(c, "proceed")
  <2>1. /\ "proceed" \in Phases \ {"idle", "gate"} /\ call[c].phase \notin {"idle", "reread"}
        /\ call[c].phase \in Unread
    BY <1>1 DEF Phases, Unread
  <2> QED BY <1>1, <1>2, <2>1, QuietEnter
<1>3. CASE call' = Returns(c)
  <2>1. call[c].role \in Roles \cup {"exit"} /\ call' = ReturnsAs(c, call[c].role)
    BY <1>3, RolesInBounds DEF Returns, IInv
  <2> QED BY <1>1, <2>1, QuietReturn
<1>4. ASSUME NEW result \in {"observer-failure", "alive-confirmed"}, CheckProcessIdentity(result),
             call' = [call EXCEPT ![c].phase = "proceed", ![c].sure = (result = "alive-confirmed")]
      PROVE  Kept
  <2> DEFINE s == (result = "alive-confirmed")
             t == [call[c] EXCEPT !.phase = "proceed", !.sure = s]
  <2>1. call[c] \in CallRecords BY DEF IInv, CallsTypeOK
  <2>2. "proceed" \in Phases /\ s \in BOOLEAN BY DEF Phases
  <2>3. call' = [call EXCEPT ![c] = t] BY <1>4 DEF IInv, CallsTypeOK
  <2> HIDE DEF s
  <2>4. /\ t \in CallRecords /\ t.phase = "proceed" /\ t.snapshot = call[c].snapshot
        /\ t.met = call[c].met /\ (t.sure => s)
    BY <2>1, <2>2 DEF CallRecords
  <2> HIDE DEF t
  <2>5. /\ CallsTypeOK' /\ \A d \in Callers \ {c} : call'[d] = call[d]
        /\ call'[c].phase = "proceed" /\ call'[c].snapshot = call[c].snapshot
        /\ call'[c].met = call[c].met /\ (call'[c].sure => s)
    BY <2>3, <2>4 DEF IInv, CallsTypeOK
  <2>6. s /\ call[c].met = "early" => looksSame \/ birth = "stranger"
    <3> SUFFICES ASSUME s, call[c].met = "early" PROVE looksSame \/ birth = "stranger" OBVIOUS
    <3>1. leader = "gone" BY DEF IInv, CallInv, GroupInv
    <3>2. PICK x \in PidHolders : StartsLike(birth, x)
      BY <1>4 DEF CheckProcessIdentity, s
    <3>3. x = "stranger" BY <3>1, <3>2 DEF PidHolders, Present
    <3> QED BY <3>2, <3>3 DEF StartsLike
  <2>7. "proceed" \notin CustomSignals BY <2>2, CallsAssumption
  <2>8. call[c].met # "between" BY <1>1 DEF IInv, CallInv, Unread
  <2>9. CallInv(c)'
    BY <1>1, <2>5, <2>6, <2>7, <2>8 DEF IInv, CallInv, Quiet, Still, captureVars
  <2>10. Spares(c) /\ Knows(c) BY <1>1 DEF Spares, Knows, Passes
  <2>11. ASSUME NEW d \in Callers \ {c} PROVE CallInv(d)' /\ Knows(d) /\ Spares(d)
    <3>1. CallInv(d) /\ call'[d] = call[d] BY <2>5 DEF IInv
    <3> QED BY <1>1, <3>1 DEF CallInv, Knows, Spares, Passes, Quiet, Still, captureVars
  <2>12. \A d \in Callers : CallInv(d)' BY <2>9, <2>11
  <2> QED BY <1>1, <2>5, <2>10, <2>11, <2>12, QuietKeeps DEF Kept
<1> QED BY <1>2, <1>3, <1>4 DEF PreSignalGate

LEMMA ProceedsKeeps ==
  ASSUME IInv, NEW c \in Callers, Proceeds(c)
  PROVE  Kept
<1>1. /\ Quiet /\ call[c].phase = "proceed" /\ looksSame' = looksSame
      /\ reapEntered' = reapEntered /\ reapEntered' \in BOOLEAN
  BY DEF Proceeds, Quiet, Still, osVars, recordVars, Writes, IInv, FlagsTypeOK
<1>2. CASE Writes(c, FALSE, TRUE) /\ call' = Returns(c)
  <2>1. RecordTypeOK' /\ FlagsTypeOK' BY <1>1, <1>2, WritesType DEF IInv
  <2>2. call[c].role \in Roles \cup {"exit"} /\ call' = ReturnsAs(c, call[c].role)
    BY <1>2, RolesInBounds DEF Returns, IInv
  <2> QED BY <1>1, <2>1, <2>2, QuietReturn
<1>3. CASE /\ Enters(c, "leaderRead") /\ UNCHANGED recordVars
           /\ reapAttempted' = (reapAttempted \/ call[c].role = "shutdown")
  <2>1. RecordTypeOK' /\ FlagsTypeOK'
    BY <1>1, <1>3 DEF IInv, RecordTypeOK, FlagsTypeOK, recordVars
  <2>2. /\ "leaderRead" \in Phases \ {"idle", "gate"} /\ call[c].phase \notin {"idle", "reread"}
        /\ call[c].phase \in Unread
    BY <1>1 DEF Phases, Unread
  <2> QED BY <1>1, <1>3, <2>1, <2>2, QuietEnter
<1> QED BY <1>2, <1>3 DEF Proceeds

(* Who is read was there: a stranger only after it came, and the members    *)
(* are not the stranger.                                                    *)
LEMMA ReadKeeps ==
  ASSUME IInv, NEW c \in Callers, NEW p \in {"enumerate", "term"}, NEW rows \in SUBSET Pidded,
         call[c].phase \in {"leaderRead", "enumerate", "memberRead"},
         "stranger" \in rows => stranger # "none" /\ call[c].phase = "leaderRead",
         \/ call' = [call EXCEPT ![c].phase = p, ![c].snapshot = Records(c, rows)]
         \/ Degrades(c, p),
         UNCHANGED <<osVars, captureVars, recordVars, reapVars>>
  PROVE  Kept
<1>1. Quiet /\ RecordTypeOK' /\ FlagsTypeOK'
  BY DEF Quiet, Still, osVars, recordVars, reapVars, IInv, RecordTypeOK, FlagsTypeOK
<1>2. p \in Phases /\ p \notin CustomSignals /\ p \notin Unread
  BY CallsAssumption DEF Phases, Unread
<1>3. /\ CallsTypeOK' /\ \A d \in Callers \ {c} : call'[d] = call[d]
      /\ call'[c].phase = p /\ call'[c].snapshot \subseteq call[c].snapshot \cup rows
      /\ call'[c].met = call[c].met /\ (call'[c].sure => call[c].sure)
  BY <1>2, ReadShape DEF IInv
<1>4. CallInv(c)'
  BY <1>1, <1>2, <1>3 DEF IInv, CallInv, Quiet, Still, captureVars, Unread
<1>5. Spares(c) /\ Knows(c) BY DEF Spares, Knows, Passes
<1>6. ASSUME NEW d \in Callers \ {c} PROVE CallInv(d)' /\ Knows(d) /\ Spares(d)
  <2>1. CallInv(d) /\ call'[d] = call[d] BY <1>3 DEF IInv
  <2> QED BY <1>1, <2>1 DEF CallInv, Knows, Spares, Passes, Quiet, Still, captureVars
<1>7. \A d \in Callers : CallInv(d)' BY <1>4, <1>6
<1> QED BY <1>1, <1>3, <1>5, <1>6, <1>7, QuietKeeps DEF Kept

LEMMA SnapshotKeeps ==
  ASSUME IInv, NEW c \in Callers, LeaderRead(c) \/ Enumerate(c) \/ MemberRead(c)
  PROVE  Kept
<1>0. {} \in SUBSET Pidded /\ "stranger" \notin {} OBVIOUS
<1>1. CASE LeaderRead(c)
  <2>1. /\ UNCHANGED <<osVars, captureVars, recordVars, reapVars>> /\ call[c].phase = "leaderRead"
    BY <1>1 DEF LeaderRead
  <2>2. CASE Degrades(c, "enumerate") BY <1>0, <2>1, <2>2, ReadKeeps
  <2>3. ASSUME NEW rows \in ReadPidStartTimes({"leader", "stranger"}),
               call' = [call EXCEPT ![c].phase = "enumerate", ![c].snapshot = Records(c, rows)]
        PROVE  Kept
    <3>1. rows \in SUBSET Pidded /\ ("stranger" \in rows => stranger # "none")
      BY DEF ReadPidStartTimes, Pidded, Present
    <3> QED BY <2>1, <2>3, <3>1, ReadKeeps
  <2> QED BY <1>1, <2>2, <2>3 DEF LeaderRead
<1>2. CASE Enumerate(c)
  <2>1. /\ UNCHANGED <<osVars, captureVars, recordVars, reapVars>> /\ call[c].phase = "enumerate"
    BY <1>2 DEF Enumerate
  <2>2. CASE Degrades(c, "term") BY <1>0, <2>1, <2>2, ReadKeeps
  <2>3. ASSUME NEW p \in {"memberRead", "term"}, Enters(c, p) PROVE Kept
    <3>1. Quiet /\ RecordTypeOK' /\ FlagsTypeOK'
      BY <2>1 DEF Quiet, Still, osVars, recordVars, reapVars, IInv, RecordTypeOK, FlagsTypeOK
    <3>2. p \in Phases \ {"idle", "gate"} /\ p \notin Unread BY DEF Phases, Unread
    <3> QED BY <2>1, <2>3, <3>1, <3>2, QuietEnter
  <2> QED BY <1>2, <2>2, <2>3 DEF Enumerate
<1>3. CASE MemberRead(c)
  <2>1. /\ UNCHANGED <<osVars, captureVars, recordVars, reapVars>> /\ call[c].phase = "memberRead"
    BY <1>3 DEF MemberRead
  <2>2. CASE Degrades(c, "term") BY <1>0, <2>1, <2>2, ReadKeeps
  <2>3. ASSUME NEW rows \in ReadPidStartTimes({"member"}),
               call' = [call EXCEPT ![c].phase = "term", ![c].snapshot = Records(c, rows)]
        PROVE  Kept
    <3>1. rows \in SUBSET Pidded /\ "stranger" \notin rows BY DEF ReadPidStartTimes, Pidded
    <3> QED BY <2>1, <2>3, <3>1, ReadKeeps
  <2> QED BY <1>3, <2>2, <2>3 DEF MemberRead
<1> QED BY <1>1, <1>2, <1>3

-----------------------------------------------------------------------------
(* The signals.                                                             *)

(* A signal the group took was taken by a process of the job, or by the     *)
(* stranger that leads a group of the same id.                              *)
LEMMA DeliveryIsTaken ==
  ASSUME IInv, NEW sig \in {"SIGTERM", "SIGKILL"} \cup CustomSignals, Delivers(sig)
  PROVE  /\ delivered \subseteq delivered'
         /\ delivered' \subseteq {"SIGTERM", "SIGKILL"} \cup CustomSignals
         /\ sig \in delivered' \/ stranger = "group"
<1>1. OwnMembers = {} => "stranger" \in GroupMembers BY DEF Delivers, OwnMembers
<1>2. "stranger" \in GroupMembers => stranger = "group" BY DEF GroupMembers
<1> QED BY <1>1, <1>2 DEF Delivers, IInv, GroupInv

(* What onSignaled writes of a signal that was taken.                       *)
LEMMA OnSignaledKeeps ==
  ASSUME IInv, NEW c \in Callers, NEW sig \in {"SIGTERM", "SIGKILL"}, OnSignaled(c, sig), Still,
         delivered \subseteq delivered', sig \in delivered' \/ stranger = "group"
  PROVE  /\ RecordInv' /\ state' \in {"running", "exited", "killed", "failed"}
         /\ signal' \in {"none", "code", "SIGTERM", "SIGKILL"} \cup CustomSignals
<1>1. /\ UNCHANGED <<leader, stranger, cause>> /\ RecordInv
      /\ state \in {"running", "exited", "killed", "failed"}
      /\ signal \in {"none", "code", "SIGTERM", "SIGKILL"} \cup CustomSignals
  BY DEF Still, IInv, RecordTypeOK
<1>2. CASE UNCHANGED <<state, signal>> BY <1>1, <1>2 DEF RecordInv
<1>3. CASE Mark("failed", "none") BY <1>1, <1>3 DEF RecordInv, Mark
<1>4. CASE sig = "SIGTERM" /\ Mark("killed", "SIGTERM") BY <1>1, <1>4 DEF RecordInv, Mark
<1>5. CASE sig = "SIGKILL" /\ UpdateKillSignal("SIGKILL")
  BY <1>1, <1>5 DEF RecordInv, UpdateKillSignal
<1>6. call[c].reaps \in BOOLEAN BY RolesInBounds DEF IInv
<1>7. \/ UNCHANGED <<state, signal>> \/ Mark("failed", "none")
      \/ IF sig = "SIGTERM" THEN Mark("killed", "SIGTERM") ELSE UpdateKillSignal("SIGKILL")
  <2>1. CASE call[c].reaps BY <2>1 DEF OnSignaled
  <2>2. CASE ~call[c].reaps /\ call[c].role = "deadline" BY <2>2 DEF OnSignaled
  <2>3. CASE ~call[c].reaps /\ call[c].role # "deadline" BY <2>3 DEF OnSignaled
  <2> QED BY <2>1, <2>2, <2>3
<1> QED BY <1>2, <1>3, <1>4, <1>5, <1>7

LEMMA SendKeeps ==
  ASSUME IInv, NEW c \in Callers, NEW p \in {"grace", "confirm"}, NEW sig \in {"SIGTERM", "SIGKILL"},
         call[c].phase \in {"term", "escalate"}, Send(c, sig, p)
  PROVE  Kept
<1>1. /\ Still /\ UNCHANGED <<identityConfirmed, refusedReason, reapVars>>
      /\ killConfirmed' \in {"unset", "yes", "no"} /\ FlagsTypeOK'
  BY DEF Send, Still, IInv, RecordTypeOK, FlagsTypeOK, reapVars
<1>2. CASE Delivers(sig) /\ OnSignaled(c, sig) /\ Enters(c, p)
  <2>1. /\ delivered \subseteq delivered'
        /\ delivered' \subseteq {"SIGTERM", "SIGKILL"} \cup CustomSignals
        /\ sig \in delivered' \/ stranger = "group"
    BY <1>2, DeliveryIsTaken
  <2>2. /\ RecordInv' /\ state' \in {"running", "exited", "killed", "failed"}
        /\ signal' \in {"none", "code", "SIGTERM", "SIGKILL"} \cup CustomSignals
    BY <1>1, <1>2, <2>1, OnSignaledKeeps
  <2>3. RecordTypeOK' BY <1>1, <2>2 DEF IInv, RecordTypeOK
  <2>4. p \in Phases /\ p \notin CustomSignals /\ p \notin Unread /\ p # "escalate"
    BY CallsAssumption DEF Phases, Unread
  <2>5. /\ CallsTypeOK' /\ \A d \in Callers \ {c} : call'[d] = call[d]
        /\ call'[c].phase = p /\ call'[c].snapshot = call[c].snapshot
        /\ call'[c].met = call[c].met /\ (call'[c].sure => call[c].sure)
    BY <1>2, <2>4, EntersShape DEF IInv
  <2>6. ~Passes(c, "reread", "escalate") BY DEF Passes
  <2>7. (\A d \in Callers : CallInv(d)') /\ \A d \in Callers : Spares(d) /\ Knows(d)
    <3>1. call'[c].phase \notin {"idle", "gate"} BY <2>4, <2>5 DEF Unread
    <3> QED BY <1>1, <2>1, <2>4, <2>5, <2>6, <3>1, AdvanceKeeps
  <2>8. GroupInv' /\ ClockInv'
    BY <1>1, <2>1 DEF Still, captureVars, IInv, GroupInv, ClockInv, AggregateDeadline
  <2> QED BY <1>1, <2>2, <2>3, <2>5, <2>7, <2>8 DEF Kept, IInv
<1>3. CASE Quiet /\ \E next \in {p, "confirm"} : Enters(c, next)
  <2>1. PICK next \in {p, "confirm"} : Enters(c, next) BY <1>3
  <2>2. RecordTypeOK' BY <1>1, <1>3 DEF IInv, RecordTypeOK, Quiet
  <2>3. /\ next \in Phases \ {"idle", "gate"} /\ next \notin Unread
        /\ call[c].phase \notin {"idle", "reread"}
    BY DEF Phases, Unread
  <2> QED BY <1>1, <1>3, <2>1, <2>2, <2>3, QuietEnter
<1>4. CASE Quiet /\ call' = Returns(c)
  <2>1. RecordTypeOK' BY <1>1, <1>4 DEF IInv, RecordTypeOK, Quiet
  <2>2. call[c].role \in Roles \cup {"exit"} /\ call' = ReturnsAs(c, call[c].role)
    BY <1>4, RolesInBounds DEF Returns, IInv
  <2> QED BY <1>1, <1>4, <2>1, <2>2, QuietReturn
<1> QED BY <1>1, <1>2, <1>3, <1>4 DEF Send, Quiet

LEMMA GraceEndsKeeps ==
  ASSUME IInv, NEW c \in Callers, GraceEnds(c)
  PROVE  Kept
<1>1. Quiet /\ RecordTypeOK' /\ FlagsTypeOK' /\ call[c].phase = "grace"
  BY DEF GraceEnds, Quiet, Still, osVars, recordVars, reapVars, IInv, RecordTypeOK, FlagsTypeOK
<1>2. CASE call' = Concludes(c, "confirm", isProcessGroupAlive)
  <2>1. "confirm" \in Phases \ (Unread \cup {"escalate"}) /\ isProcessGroupAlive \in BOOLEAN
    BY DEF Phases, Unread, isProcessGroupAlive
  <2> QED BY <1>1, <1>2, <2>1, QuietConclude
<1>3. CASE call' = [call EXCEPT ![c].phase = "reread", ![c].degraded = FALSE]
  <2> DEFINE t == [call[c] EXCEPT !.phase = "reread", !.degraded = FALSE]
  <2>1. call[c] \in CallRecords BY DEF IInv, CallsTypeOK
  <2>2. "reread" \in Phases BY DEF Phases
  <2>3. /\ t \in CallRecords /\ t.phase = "reread" /\ t.snapshot = call[c].snapshot
        /\ t.met = call[c].met /\ (t.sure => call[c].sure)
    BY <2>1, <2>2 DEF CallRecords
  <2>4. call' = [call EXCEPT ![c] = t] BY <1>3 DEF IInv, CallsTypeOK
  <2> HIDE DEF t
  <2>5. /\ CallsTypeOK' /\ \A d \in Callers \ {c} : call'[d] = call[d]
        /\ call'[c].phase = "reread" /\ call'[c].snapshot = call[c].snapshot
        /\ call'[c].met = call[c].met /\ (call'[c].sure => call[c].sure)
    BY <2>3, <2>4 DEF IInv, CallsTypeOK
  <2>6. "reread" \notin CustomSignals /\ "reread" \notin Unread BY <2>2, CallsAssumption DEF Unread
  <2>7. ~Passes(c, "reread", "escalate") BY <2>5 DEF Passes
  <2>8. (\A d \in Callers : CallInv(d)') /\ \A d \in Callers : Spares(d) /\ Knows(d)
    BY <1>1, <2>5, <2>6, <2>7, AdvanceKeeps DEF Quiet
  <2> QED BY <1>1, <2>5, <2>8, QuietKeeps DEF Kept
<1> QED BY <1>2, <1>3 DEF GraceEnds

(* A match is of two that are there or were: the leader is gone, no member  *)
(* is in the group any more, and the stranger was not in the snapshot.      *)
LEMMA MatchSpares ==
  ASSUME IInv, NEW c \in Callers, call[c].met = "between", NEW rows \in ReadPidStartTimes(Pids(call[c].snapshot)),
         Matched(c, rows)
  PROVE  looksSame \/ member = "left"
<1>1. PICK r \in call[c].snapshot, x \in rows : StartsLike(r, x) BY DEF Matched
<1>2. /\ leader = "gone" /\ member # "in" /\ "stranger" \notin call[c].snapshot
      /\ call[c].snapshot \subseteq Pidded
  BY RolesInBounds DEF IInv, CallInv, GroupInv, CallRecords
<1>3. x \in {"leader", "member", "stranger"} /\ Present(x)
  BY <1>2 DEF ReadPidStartTimes, Pids, Pidded
<1>4. x # "leader" BY <1>2, <1>3 DEF Present
<1>5. CASE x = "member" BY <1>2, <1>3, <1>5 DEF Present
<1>6. CASE x = "stranger" BY <1>1, <1>2, <1>6 DEF StartsLike
<1> QED BY <1>3, <1>4, <1>5, <1>6

LEMMA GateKeeps ==
  ASSUME IInv, NEW c \in Callers, EvaluateEscalationIdentityGate(c)
  PROVE  Kept
<1>1. Quiet /\ RecordTypeOK' /\ FlagsTypeOK' /\ call[c].phase = "reread"
  BY DEF EvaluateEscalationIdentityGate, Quiet, Still, osVars, recordVars, reapVars, IInv,
         RecordTypeOK, FlagsTypeOK
<1>2. CASE call' = Concludes(c, "confirm", TRUE)
  <2>1. "confirm" \in Phases \ (Unread \cup {"escalate"}) /\ TRUE \in BOOLEAN BY DEF Phases, Unread
  <2> QED BY <1>1, <1>2, <2>1, QuietConclude
<1>3. ASSUME NEW rows \in ReadPidStartTimes(Pids(call[c].snapshot)), Matched(c, rows), Enters(c, "escalate")
      PROVE  Kept
  <2>1. "escalate" \in Phases /\ "escalate" \notin CustomSignals /\ "escalate" \notin Unread
    BY CallsAssumption DEF Phases, Unread
  <2>2. /\ CallsTypeOK' /\ \A d \in Callers \ {c} : call'[d] = call[d]
        /\ call'[c].phase = "escalate" /\ call'[c].snapshot = call[c].snapshot
        /\ call'[c].met = call[c].met /\ (call'[c].sure => call[c].sure)
    BY <1>3, <2>1, EntersShape DEF IInv
  <2>3. (\A d \in Callers : CallInv(d)') /\ \A d \in Callers : Knows(d)
    BY <1>1, <2>1, <2>2, AdvanceKeeps DEF Quiet
  <2>4. Spares(c) BY <1>3, MatchSpares DEF Spares
  <2>5. \A d \in Callers \ {c} : Spares(d) BY <2>2 DEF Spares, Passes
  <2> QED BY <1>1, <2>2, <2>3, <2>4, <2>5, QuietKeeps DEF Kept
<1> QED BY <1>2, <1>3 DEF EvaluateEscalationIdentityGate

LEMMA ConfirmKeeps ==
  ASSUME IInv, NEW c \in Callers, Confirm(c)
  PROVE  Kept
<1>1. /\ Quiet /\ call[c].phase = "confirm" /\ looksSame' = looksSame
      /\ reapEntered' \in BOOLEAN
  BY DEF Confirm, Quiet, Still, osVars, Writes, IInv, FlagsTypeOK
<1>2. PICK confirmed \in BOOLEAN : Writes(c, call[c].reaps, confirmed)
  <2>1. CASE Writes(c, call[c].reaps, TRUE) BY <2>1
  <2>2. CASE Writes(c, call[c].reaps, FALSE) BY <2>2
  <2> QED BY <2>1, <2>2 DEF Confirm
<1>3. /\ call[c].role \in Roles \cup {"exit"} /\ call[c].reaps \in BOOLEAN
      /\ call' = ReturnsAs(c, call[c].role)
  BY RolesInBounds DEF Confirm, Returns, IInv
<1>4. RecordTypeOK' /\ FlagsTypeOK' BY <1>1, <1>2, <1>3, WritesType DEF IInv
<1> QED BY <1>1, <1>3, <1>4, QuietReturn

LEMMA SendCustomKeeps ==
  ASSUME IInv, NEW c \in Callers, NEW sig \in CustomSignals, SendCustom(c, sig)
  PROVE  Kept
<1>1. /\ Still /\ UNCHANGED recordVars /\ call[c].phase = "proceed" /\ RecordTypeOK' /\ FlagsTypeOK'
  BY DEF SendCustom, Still, recordVars, IInv, RecordTypeOK, FlagsTypeOK
<1>2. CASE Delivers(sig) /\ call' = [call EXCEPT ![c].phase = sig]
  <2>1. /\ delivered \subseteq delivered'
        /\ delivered' \subseteq {"SIGTERM", "SIGKILL"} \cup CustomSignals
        /\ sig \in delivered' \/ stranger = "group"
    BY <1>2, DeliveryIsTaken
  <2>2. sig \notin Phases /\ sig \notin {"idle", "gate", "escalate"} BY CallsAssumption DEF Phases
  <2>3. /\ CallsTypeOK' /\ \A d \in Callers \ {c} : call'[d] = call[d]
        /\ call'[c].phase = sig /\ call'[c].snapshot = call[c].snapshot
        /\ call'[c].met = call[c].met /\ (call'[c].sure => call[c].sure)
    BY <1>2, EntersShape DEF IInv, Enters
  <2>4. call[c].met # "between" BY <1>1 DEF IInv, CallInv, Unread
  <2>5. ~Passes(c, "reread", "escalate") BY <1>1 DEF Passes
  <2>6. (\A d \in Callers : CallInv(d)') /\ \A d \in Callers : Spares(d) /\ Knows(d)
    BY <1>1, <2>1, <2>2, <2>3, <2>4, <2>5, AdvanceKeeps
  <2>7. GroupInv' /\ ClockInv'
    BY <1>1, <2>1 DEF Still, captureVars, IInv, GroupInv, ClockInv, AggregateDeadline
  <2>8. RecordInv' BY <1>1, <2>1 DEF Still, recordVars, IInv, RecordInv
  <2> QED BY <1>1, <2>3, <2>6, <2>7, <2>8 DEF Kept, IInv
<1>3. CASE Enters(c, "missed") /\ delivered' = delivered
  <2>1. Quiet BY <1>1, <1>3 DEF Quiet, recordVars
  <2>2. /\ "missed" \in Phases \ {"idle", "gate"} /\ "missed" \notin Unread
        /\ call[c].phase \notin {"idle", "reread"}
    BY <1>1 DEF Phases, Unread
  <2> QED BY <1>1, <1>3, <2>1, <2>2, QuietEnter
<1>4. CASE call' = Returns(c) /\ delivered' = delivered
  <2>1. Quiet BY <1>1, <1>4 DEF Quiet, recordVars
  <2>2. call[c].role \in Roles \cup {"exit"} /\ call' = ReturnsAs(c, call[c].role)
    BY <1>4, RolesInBounds DEF Returns, IInv
  <2> QED BY <1>1, <2>1, <2>2, QuietReturn
<1> QED BY <1>2, <1>3, <1>4 DEF SendCustom

(* A record is marked with a custom signal after the group took it.         *)
LEMMA ConfirmCustomKeeps ==
  ASSUME IInv, NEW c \in Callers, ConfirmCustom(c)
  PROVE  Kept
<1>1. /\ Still /\ delivered' = delivered /\ FlagsTypeOK' /\ call[c].phase \in CustomSignals \cup {"missed"}
  BY DEF ConfirmCustom, Still, osVars, reapVars, recordVars, IInv, FlagsTypeOK
<1>2. /\ call[c].role \in Roles \cup {"exit"} /\ call' = ReturnsAs(c, call[c].role)
      /\ call[c].phase \notin {"idle", "reread", "term"}
  BY <1>1, RolesInBounds, CallsAssumption DEF ConfirmCustom, Returns, IInv, Phases
<1>3. CASE UNCHANGED <<state, signal>>
  <2>1. Quiet BY <1>1, <1>3 DEF Quiet
  <2>2. RecordTypeOK'
    BY <1>3 DEF ConfirmCustom, recordVars, Said, IInv, RecordTypeOK
  <2> QED BY <1>1, <1>2, <2>1, <2>2, QuietReturn
<1>4. CASE /\ call[c].phase # "missed" /\ Mark("killed", call[c].phase)
           /\ killConfirmed' = "yes" /\ identityConfirmed' = Said(call[c].sure)
  <2>1. call[c].phase \in CustomSignals BY <1>1, <1>4
  <2>2. call[c].phase \in delivered \/ stranger \in {"group", "gone"} BY <2>1 DEF IInv, CallInv
  <2>3. RecordInv' BY <1>1, <1>4, <2>2 DEF Still, IInv, RecordInv, Mark
  <2>4. RecordTypeOK' BY <1>4, <2>1 DEF Mark, Said, IInv, RecordTypeOK
  <2>5. /\ CallsTypeOK' /\ \A d \in Callers \ {c} : call'[d] = call[d]
        /\ call'[c].phase = "done" /\ call'[c].snapshot = {} /\ call'[c].met = "never" /\ ~call'[c].sure
    BY <1>2, ReturnsShape DEF IInv
  <2>6. "done" \notin CustomSignals BY CallsAssumption DEF Phases
  <2>7. ~Passes(c, "reread", "escalate") BY <2>5 DEF Passes
  <2>8. (\A d \in Callers : CallInv(d)') /\ \A d \in Callers : Spares(d) /\ Knows(d)
    BY <1>1, <1>2, <2>5, <2>6, <2>7, AdvanceKeeps
  <2>9. GroupInv' /\ ClockInv'
    BY <1>1 DEF Still, captureVars, IInv, GroupInv, ClockInv, AggregateDeadline
  <2> QED BY <1>1, <2>3, <2>4, <2>5, <2>8, <2>9 DEF Kept, IInv
<1> QED BY <1>3, <1>4 DEF ConfirmCustom, recordVars

-----------------------------------------------------------------------------
(* The exit, the gate's marks, the system and the capture.                  *)

LEMMA GateMarksKeep ==
  ASSUME IInv, GateMarks PROVE Kept
<1>1. /\ Still /\ UNCHANGED <<delivered, call>> /\ FlagsTypeOK'
      /\ UNCHANGED <<killConfirmed, identityConfirmed>>
  BY DEF GateMarks, Still, osVars, reapVars, IInv, FlagsTypeOK
<1>2. "exit" \in Callers BY DEF Callers
<1>3. leader = "gone" BY <1>2 DEF GateMarks, IInv, CallInv
<1>4. cause \in {"none", "code", "SIGTERM", "SIGKILL"} \cup CustomSignals BY DEF IInv, GroupInv
<1>5. RecordTypeOK' BY <1>1, <1>4 DEF GateMarks, Mark, IInv, RecordTypeOK
<1>6. RecordInv' BY <1>1, <1>3 DEF Still, GateMarks, Mark, IInv, RecordInv
<1>7. CallsTypeOK' BY <1>1 DEF IInv, CallsTypeOK
<1>8. ASSUME NEW d \in Callers PROVE CallInv(d)' /\ Knows(d) /\ Spares(d)
  <2>1. CallInv(d) BY DEF IInv
  <2> QED BY <1>1, <2>1 DEF CallInv, Knows, Spares, Passes, Still, captureVars
<1>9. GroupInv' /\ ClockInv'
  BY <1>1 DEF Still, captureVars, IInv, GroupInv, ClockInv, AggregateDeadline
<1>10. \A d \in Callers : CallInv(d)' BY <1>8
<1> QED BY <1>1, <1>5, <1>6, <1>7, <1>8, <1>9, <1>10 DEF Kept, IInv

(* Who was in a snapshot before the stranger came is not the stranger.      *)
LEMMA StrangerArrivesKeeps ==
  ASSUME IInv, StrangerArrives PROVE Kept
<1>1. /\ stranger = "none" /\ stranger' = "pid" /\ leader = "gone" /\ member # "in"
      /\ looksSame' \in BOOLEAN /\ UNCHANGED <<leader, member, cause, delivered, captureVars>>
      /\ UNCHANGED <<recordVars, reapVars>>
  <2>1. StrangerTakesPid /\ UNCHANGED <<recordVars, reapVars>> BY DEF StrangerArrives
  <2>2. member = "in" => "member" \in GroupMembers BY DEF GroupMembers, Present
  <2> QED BY <2>1, <2>2 DEF StrangerTakesPid
<1>2. ASSUME NEW c \in Callers
      PROVE  /\ call'[c] \in CallRecords /\ call'[c].phase = call[c].phase
             /\ call'[c].snapshot = call[c].snapshot /\ (call'[c].sure => call[c].sure)
             /\ call'[c].met = "early" => call[c].phase \in {"idle", "gate"}
             /\ call'[c].met = "between" => call[c].phase \notin Unread
  <2> DEFINE m == CASE call[c].phase \in {"idle", "gate"} -> "early"
                    [] call[c].phase \in {"enumerate", "memberRead", "term", "grace", "reread"} -> "between"
                    [] OTHER -> "never"
             t == [call[c] EXCEPT !.met = m]
  <2>1. call[c] \in CallRecords BY DEF IInv, CallsTypeOK
  <2>2. /\ m \in {"never", "early", "between"}
        /\ m = "early" => call[c].phase \in {"idle", "gate"}
        /\ m = "between" => call[c].phase \notin Unread
    BY DEF Unread
  <2>3. call'[c] = t BY DEF StrangerArrives
  <2> HIDE DEF m
  <2>4. /\ t \in CallRecords /\ t.phase = call[c].phase /\ t.snapshot = call[c].snapshot
        /\ t.met = m /\ (t.sure => call[c].sure)
    BY <2>1, <2>2 DEF CallRecords
  <2> HIDE DEF t
  <2> QED BY <2>2, <2>3, <2>4
<1>3. CallsTypeOK' BY <1>2 DEF StrangerArrives, CallsTypeOK
<1>4. ASSUME NEW c \in Callers PROVE CallInv(c)' /\ Knows(c) /\ Spares(c)
  <2>1. CallInv(c) BY DEF IInv
  <2>2. CallInv(c)' BY <1>1, <1>2, <2>1 DEF CallInv, captureVars
  <2>3. ~Passes(c, "term", "grace") /\ ~Passes(c, "reread", "escalate") BY <1>2 DEF Passes
  <2> QED BY <2>2, <2>3 DEF Knows, Spares
<1>5. RecordTypeOK' /\ FlagsTypeOK'
  BY <1>1 DEF IInv, RecordTypeOK, FlagsTypeOK, recordVars, reapVars
<1>6. GroupInv' /\ ClockInv' /\ RecordInv'
  BY <1>1 DEF captureVars, recordVars, IInv, GroupInv, ClockInv, RecordInv, AggregateDeadline
<1>7. \A c \in Callers : CallInv(c)' BY <1>4
<1> QED BY <1>3, <1>4, <1>5, <1>6, <1>7 DEF Kept, IInv

(* The least of a few integers.                                             *)
LEMMA AtMostIsLeast ==
  ASSUME NEW bounds \in SUBSET Int, NEW least \in bounds, \A b \in bounds : least <= b
  PROVE  AtMost(bounds) \in bounds /\ \A b \in bounds : AtMost(bounds) <= b
BY DEF AtMost

LEMMA AtMostOfTwo ==
  ASSUME NEW a \in Int, NEW b \in Int
  PROVE  AtMost({a, b}) \in {a, b} /\ AtMost({a, b}) <= a /\ AtMost({a, b}) <= b
<1>1. {a, b} \in SUBSET Int OBVIOUS
<1>2. CASE a <= b BY <1>1, <1>2, AtMostIsLeast
<1>3. CASE b <= a BY <1>1, <1>3, AtMostIsLeast
<1> QED BY <1>2, <1>3

LEMMA AtMostOfThree ==
  ASSUME NEW a \in Int, NEW b \in Int, NEW c \in Int
  PROVE  LET least == AtMost({a, b} \cup {c})
         IN  least \in {a, b, c} /\ least <= a /\ least <= b /\ least <= c
<1> DEFINE s == {a, b} \cup {c}
<1>1. s \in SUBSET Int /\ a \in s /\ b \in s /\ c \in s OBVIOUS
<1>2. CASE a <= b /\ a <= c
  <2>1. \A x \in s : a <= x BY <1>2
  <2> HIDE DEF s
  <2>2. AtMost(s) \in s /\ \A x \in s : AtMost(s) <= x BY <1>1, <2>1, AtMostIsLeast
  <2> QED BY <1>1, <2>2 DEF s
<1>3. CASE b <= a /\ b <= c
  <2>1. \A x \in s : b <= x BY <1>3
  <2> HIDE DEF s
  <2>2. AtMost(s) \in s /\ \A x \in s : AtMost(s) <= x BY <1>1, <2>1, AtMostIsLeast
  <2> QED BY <1>1, <2>2 DEF s
<1>4. CASE c <= a /\ c <= b
  <2>1. \A x \in s : c <= x BY <1>4
  <2> HIDE DEF s
  <2>2. AtMost(s) \in s /\ \A x \in s : AtMost(s) <= x BY <1>1, <2>1, AtMostIsLeast
  <2> QED BY <1>1, <2>2 DEF s
<1> QED BY <1>2, <1>3, <1>4

(* An attempt is allowed what is left of the aggregate deadline, the        *)
(* settlement's grace included, and the sleep after it no more.             *)
LEMMA AttemptInTime ==
  ASSUME ClockInv, CaptureAttempt PROVE ClockInv' /\ elapsed' >= elapsed
<1> DEFINE A == AggregateDeadline
           W == EffectiveTimeout
<1>1. /\ CaptureTimeout \in Nat /\ SettleGrace \in Nat /\ RetryBound \in Nat /\ PollInterval \in Nat
      /\ A = CaptureTimeout + SettleGrace /\ elapsed \in Nat /\ retryUntil \in Nat
  BY DurationsAssumption DEF ClockInv, AggregateDeadline
<1> HIDE DEF A
<1>2. A - elapsed > SettleGrace BY <1>1 DEF CaptureAttempt, CaptureOver, A
<1>3. W \in {CaptureTimeout, A - elapsed - SettleGrace} /\ W <= A - elapsed - SettleGrace
  BY <1>1, AtMostOfTwo DEF EffectiveTimeout, A
<1> HIDE DEF W
<1>4. PICK took \in 0 .. SettledBy :
       LET now      == elapsed + took
           until    == IF retryUntil = 0 THEN now + RetryBound ELSE retryUntil
           remains  == {until - now, AggregateDeadline - now}
       IN  \/ elapsed' = now /\ retryUntil' = retryUntil
           \/ /\ retryUntil' = until
              /\ IF \E r \in remains : r <= 0
                   THEN elapsed' = now
                   ELSE elapsed' = now + AtMost(remains \cup {PollInterval})
  BY DEF CaptureAttempt
<1> DEFINE now   == elapsed + took
           until == IF retryUntil = 0 THEN now + RetryBound ELSE retryUntil
<1>5. took \in Nat /\ now \in Nat /\ now <= A /\ now >= elapsed
  BY <1>1, <1>2, <1>3, <1>4 DEF SettledBy, W
<1>6. until \in Nat BY <1>1, <1>5
<1> HIDE DEF now, until
<1>7. CASE elapsed' = now /\ retryUntil' \in {retryUntil, until}
  BY <1>1, <1>5, <1>6, <1>7 DEF ClockInv, A, AggregateDeadline
<1>8. CASE /\ retryUntil' = until /\ until - now > 0 /\ A - now > 0
           /\ elapsed' = now + AtMost({until - now, A - now} \cup {PollInterval})
  <2> DEFINE least == AtMost({until - now, A - now} \cup {PollInterval})
  <2>1. until - now \in Int /\ A - now \in Int /\ PollInterval \in Int BY <1>1, <1>5, <1>6
  <2>2. least \in {until - now, A - now, PollInterval} /\ least <= A - now
    BY <2>1, AtMostOfThree
  <2> HIDE DEF least
  <2>3. least \in Nat BY <1>1, <1>5, <1>6, <1>8, <2>2
  <2>4. elapsed' = now + least BY <1>8 DEF least
  <2> QED BY <1>1, <1>5, <1>6, <1>8, <2>2, <2>3, <2>4 DEF ClockInv, A, AggregateDeadline
<1>9. \/ elapsed' = now /\ retryUntil' \in {retryUntil, until}
      \/ /\ retryUntil' = until /\ until - now > 0 /\ A - now > 0
         /\ elapsed' = now + AtMost({until - now, A - now} \cup {PollInterval})
  <2>1. until - now \in Int /\ A - now \in Int BY <1>1, <1>5, <1>6
  <2> QED BY <1>4, <2>1 DEF now, until, A
<1> QED BY <1>7, <1>8, <1>9

(* The group's own steps and the capture's.                                 *)
LEMMA GroupStepKeeps ==
  ASSUME IInv, GroupNext, UNCHANGED <<recordVars, reapVars, call>> PROVE Kept
<1>1. /\ RecordTypeOK' /\ CallsTypeOK'
      /\ UNCHANGED <<state, signal, call>> /\ reapAttempted' \in BOOLEAN
      /\ reapEntered' \in BOOLEAN /\ refusedReason' \in BOOLEAN
  BY DEF IInv, RecordTypeOK, FlagsTypeOK, CallsTypeOK, recordVars, reapVars
<1>2. FlagsTypeOK'
  <2>1. looksSame' \in BOOLEAN
    BY DEF GroupNext, LeaderEnds, LeaderCollected, MemberStarts, MemberLeaves, MemberEnds,
           StrangerLeadsGroup, StrangerEnds, CaptureGivesUp, CaptureAttempt, CaptureSettles, osVars,
           IInv, FlagsTypeOK
  <2> QED BY <1>1, <2>1 DEF FlagsTypeOK
<1>3. GroupInv'
  BY DEF GroupNext, LeaderEnds, LeaderCollected, MemberStarts, MemberLeaves, MemberEnds,
         StrangerLeadsGroup, StrangerEnds, CaptureGivesUp, CaptureAttempt, CaptureSettles, osVars,
         IInv, GroupInv
<1>4. ClockInv'
  <2>1. CASE CaptureAttempt BY <2>1, AttemptInTime DEF IInv
  <2>2. CASE CaptureSettles
    BY <2>2, DurationsAssumption DEF CaptureSettles, ClockInv, AggregateDeadline
  <2>3. CASE CaptureGivesUp BY <2>3 DEF CaptureGivesUp, IInv, ClockInv, AggregateDeadline
  <2>4. CASE UNCHANGED captureVars BY <2>4 DEF captureVars, IInv, ClockInv, AggregateDeadline
  <2> QED BY <2>1, <2>2, <2>3, <2>4
        DEF GroupNext, LeaderEnds, LeaderCollected, MemberStarts, MemberLeaves, MemberEnds,
            StrangerLeadsGroup, StrangerEnds
<1>5. /\ stranger = "none" => stranger' = "none"
      /\ stranger # "none" => stranger' # "none"
      /\ stranger \in {"group", "gone"} => stranger' \in {"group", "gone"}
      /\ stranger = "gone" => stranger' = "gone"
      /\ delivered' = delivered
      /\ leader = "gone" => leader' = "gone"
      /\ leader # "alive" => leader' # "alive" /\ cause' = cause
      /\ capture = "settled" => capture' = "settled" /\ birth' = birth
      /\ looksSame => looksSame' \/ stranger' = "gone"
  BY DEF GroupNext, LeaderEnds, LeaderCollected, MemberStarts, MemberLeaves, MemberEnds,
         StrangerLeadsGroup, StrangerEnds, CaptureGivesUp, CaptureAttempt, CaptureSettles, osVars,
         captureVars
<1>6. ASSUME NEW c \in Callers PROVE CallInv(c)' /\ Knows(c) /\ Spares(c)
  <2>1. CallInv(c) /\ call' = call BY <1>1 DEF IInv
  <2>2. CallInv(c)' BY <1>5, <2>1 DEF CallInv
  <2> QED BY <2>1, <2>2 DEF Knows, Spares, Passes
<1>7. RecordInv' BY <1>1, <1>5 DEF IInv, RecordInv
<1>8. \A c \in Callers : CallInv(c)' BY <1>6
<1> QED BY <1>1, <1>2, <1>3, <1>4, <1>6, <1>7, <1>8 DEF Kept, IInv

-----------------------------------------------------------------------------
(* The theorems.                                                            *)

LEMMA IInvInit == Init => IInv
<1> SUFFICES ASSUME Init PROVE IInv OBVIOUS
<1>1. Idle \in CallRecords BY DEF Idle, CallRecords, Phases, Pidded
<1>2. CallsTypeOK BY <1>1 DEF Init, CallsTypeOK
<1>3. ASSUME NEW c \in Callers PROVE CallInv(c)
  <2>1. call[c] = Idle BY DEF Init
  <2>2. "idle" \notin CustomSignals BY CallsAssumption DEF Phases
  <2> QED BY <2>1, <2>2 DEF CallInv, Idle, Init, GroupInit
<1>4. ClockInv BY DurationsAssumption DEF Init, GroupInit, ClockInv, AggregateDeadline
<1> QED BY <1>2, <1>3, <1>4
      DEF Init, GroupInit, IInv, RecordTypeOK, FlagsTypeOK, GroupInv, RecordInv

LEMMA StepKeeps == IInv /\ [Next]_vars => Kept
<1> SUFFICES ASSUME IInv, [Next]_vars PROVE Kept OBVIOUS
<1>1. ASSUME NEW c \in Callers, Call(c) PROVE Kept
  <2>1. CASE PreSignalGate(c) BY <2>1, PreSignalGateKeeps
  <2>2. CASE Proceeds(c) BY <2>2, ProceedsKeeps
  <2>3. CASE LeaderRead(c) \/ Enumerate(c) \/ MemberRead(c) BY <2>3, SnapshotKeeps
  <2>4. CASE SendTerm(c) BY <2>4, SendKeeps DEF SendTerm
  <2>5. CASE SendKill(c) BY <2>5, SendKeeps DEF SendKill
  <2>6. CASE GraceEnds(c) BY <2>6, GraceEndsKeeps
  <2>7. CASE EvaluateEscalationIdentityGate(c) BY <2>7, GateKeeps
  <2>8. CASE Confirm(c) BY <2>8, ConfirmKeeps
  <2>9. CASE ConfirmCustom(c) BY <2>9, ConfirmCustomKeeps
  <2>10. ASSUME NEW role \in Roles, SignalLive(c, role) \/ SignalTerminal(c, role) PROVE Kept
    BY <2>10, SignalLiveKeeps, SignalTerminalKeeps
  <2>11. ASSUME NEW sig \in CustomSignals, SendCustom(c, sig) PROVE Kept
    BY <2>11, SendCustomKeeps
  <2> QED BY <1>1, <2>1, <2>2, <2>3, <2>4, <2>5, <2>6, <2>7, <2>8, <2>9, <2>10, <2>11 DEF Call
<1>2. CASE OnExit
  <2>1. /\ "exit" \in Callers /\ call["exit"].phase = "idle" /\ leader = "gone"
        /\ BeginReap("exit", "exit") /\ UNCHANGED <<osVars, captureVars>>
    BY <1>2 DEF OnExit, MayBegin, Callers
  <2> QED BY <2>1, BeginReapKeeps
<1>3. CASE GateMarks BY <1>3, GateMarksKeep
<1>4. CASE StrangerArrives BY <1>4, StrangerArrivesKeeps
<1>5. CASE GroupNext /\ UNCHANGED <<recordVars, reapVars, call>> BY <1>5, GroupStepKeeps
<1>6. CASE UNCHANGED vars
  <2>1. Quiet /\ RecordTypeOK' /\ FlagsTypeOK' /\ CallsTypeOK' /\ call' = call
    BY <1>6 DEF vars, osVars, recordVars, reapVars, Quiet, Still, IInv, RecordTypeOK, FlagsTypeOK,
                CallsTypeOK
  <2>2. ASSUME NEW c \in Callers PROVE CallInv(c)' /\ Knows(c) /\ Spares(c)
    <3>1. CallInv(c) BY DEF IInv
    <3> QED BY <2>1, <3>1 DEF CallInv, Knows, Spares, Passes, Quiet, Still, captureVars
  <2>3. \A c \in Callers : CallInv(c)' BY <2>2
  <2> QED BY <2>1, <2>2, <2>3, QuietKeeps DEF Kept
<1> QED BY <1>1, <1>2, <1>3, <1>4, <1>5, <1>6 DEF Next

(* The inductive invariant, and with it the two action properties.          *)
THEOREM Invariance == Spec => []IInv
<1>1. IInv /\ [Next]_vars => IInv' BY StepKeeps DEF Kept
<1> QED BY <1>1, IInvInit, PTL DEF Spec

(* The record, the flags and the calls hold values of their types.          *)
THEOREM TypeCorrect == Spec => []TypeOK
<1>1. IInv => TypeOK
  BY DEF IInv, TypeOK, RecordTypeOK, FlagsTypeOK, CallsTypeOK, CallRecords, Pidded
<1> QED BY <1>1, Invariance, PTL

(* A record says "killed" with a signal only when the job took that signal  *)
(* or its leader died of it, or the id was a stranger's by then; and no     *)
(* kill() is held by a capture beyond the aggregate deadline.               *)
THEOREM KillsAreTrue == Spec => []KillsAreRecorded
<1>1. IInv => KillsAreRecorded
  BY DEF IInv, RecordInv, ClockInv, KillsAreRecorded, KilledBySomeSignal, CaptureIsBounded
<1> QED BY <1>1, Invariance, PTL

(* The escalation gate clears no SIGKILL for an id that a stranger took     *)
(* over between the snapshot's look and its own, but for the two gaps the   *)
(* property names.                                                          *)
THEOREM NewcomersStaySpared == Spec => NewcomersAreSpared
<1>1. IInv /\ [Next]_vars => \A c \in Callers : Spares(c) BY StepKeeps DEF Kept
<1>2. IInv /\ [Next]_vars =>
        [\A c \in Callers :
           /\ Passes(c, "reread", "escalate")
           /\ call[c].met = "between" /\ stranger \in {"pid", "group"}
           => looksSame \/ member = "left"]_vars
  BY <1>1 DEF Spares
<1> QED BY <1>2, Invariance, PTL DEF Spec, NewcomersAreSpared

(* A call whose pre-signal gate confirmed the leader signals no stranger    *)
(* that had the leader's pid before the gate looked, unless the identity it *)
(* compared is the stranger's or reads like it.                             *)
THEOREM GateStaysWithTheLeader == Spec => GateKnowsTheLeader
<1>1. IInv /\ [Next]_vars => \A c \in Callers : Knows(c) BY StepKeeps DEF Kept
<1>2. IInv /\ [Next]_vars =>
        [\A c \in Callers :
           /\ Passes(c, "term", "grace") /\ "stranger" \in GroupMembers
           /\ call[c].sure /\ call[c].met = "early"
           => looksSame \/ birth = "stranger"]_vars
  BY <1>1 DEF Knows
<1> QED BY <1>2, Invariance, PTL DEF Spec, GateKnowsTheLeader

=============================================================================
