---------------------------- MODULE ProcessGroup ----------------------------
(***************************************************************************)
(* One job's process group and the two ways src/process.ts looks at it: by *)
(* the group id (signal 0, pgrep -g) and by the start time the system      *)
(* reports for a pid.  The id is the leader's pid.  When the last member   *)
(* has gone the system may give the id away: a stranger then answers for   *)
(* the pid, and for the group once it leads one.  The module also holds    *)
(* captureBirthIdentityPosixAsync, which run() starts right after the spawn *)
(* and which retries "not found" under a retry bound and an aggregate one. *)
(***************************************************************************)
EXTENDS Integers

CONSTANTS
  CaptureTimeout,   \* ASYNC_BIRTH_IDENTITY_CAPTURE_TIMEOUT_MS
  SettleGrace,      \* ASYNC_ELAPSED_READ_SETTLEMENT_GRACE_MS
  RetryBound,       \* BIRTH_IDENTITY_NOT_FOUND_RETRY_BOUND_MS
  PollInterval      \* BIRTH_IDENTITY_NOT_FOUND_RETRY_POLL_INTERVAL_MS

ASSUME DurationsAssumption ==
  /\ CaptureTimeout \in Nat \ {0} /\ SettleGrace \in Nat
  /\ RetryBound \in Nat \ {0} /\ PollInterval \in Nat \ {0}

VARIABLES
  leader,      \* "alive", "zombie" (not collected), "gone"
  member,      \* a descendant: "none", "in" the group, "left" it, "gone"
  stranger,    \* "none", holds the "pid", leads the "group", "gone"
  looksSame,   \* the stranger's start time reads like the leader's
  cause,       \* what ended the leader: "none", "code" or a signal
  delivered,   \* the signals a process of the job has been sent
  birth,       \* birthIdentity: whose start time it is, "none" without one
  capture,     \* the capture: "running", "found", "failed", "settled"
  elapsed,     \* the time since the capture began, while it runs
  retryUntil   \* retryDeadline, 0 until the first "not found"

osVars      == <<leader, member, stranger, looksSame, cause, delivered>>
captureVars == <<birth, capture, elapsed, retryUntil>>

GroupInit ==
  /\ leader = "alive" /\ member = "none" /\ stranger = "none" /\ looksSame = FALSE
  /\ cause = "none" /\ delivered = {}
  /\ birth = "none" /\ capture = "running" /\ elapsed = 0 /\ retryUntil = 0

-----------------------------------------------------------------------------
(* What can be observed.                                                    *)

Present(x) == CASE x = "leader"   -> leader \in {"alive", "zombie"}
                [] x = "member"   -> member \in {"in", "left"}
                [] x = "stranger" -> stranger \in {"pid", "group"}

GroupMembers == {x \in {"leader", "member", "stranger"} :
                   Present(x) /\ (x = "member" => member = "in")
                              /\ (x = "stranger" => stranger = "group")}

OwnMembers == GroupMembers \ {"stranger"}

isProcessGroupAlive == GroupMembers # {}

(* pgrep -g: an uncollected leader may or may not be listed.                *)
Unlisted == GroupMembers \subseteq (IF leader = "zombie" THEN {"leader"} ELSE {})

(* Who answers for the leader's pid.                                        *)
PidHolders == {x \in {"leader", "stranger"} : Present(x)}

(* A start time read now equals the one recorded of x.                      *)
StartsLike(recorded, x) ==
  \/ recorded = x
  \/ looksSame /\ {recorded, x} = {"leader", "stranger"}

(* The rows of one batched ps: of those still present some may be lost to a *)
(* malformed line; who is absent has no row.                                *)
ReadPidStartTimes(asked) == SUBSET {x \in asked : Present(x)}

-----------------------------------------------------------------------------
(* The system.                                                              *)

LeaderEnds ==
  /\ leader = "alive" /\ leader' = "zombie"
  /\ \E why \in {"code"} \cup delivered : cause' = why
  /\ UNCHANGED <<member, stranger, looksSame, delivered, captureVars>>

(* waitpid; the exit event follows on a later turn.                         *)
LeaderCollected ==
  /\ leader = "zombie" /\ leader' = "gone"
  /\ UNCHANGED <<member, stranger, looksSame, cause, delivered, captureVars>>

MemberStarts ==
  /\ leader = "alive" /\ member = "none" /\ member' = "in"
  /\ UNCHANGED <<leader, stranger, looksSame, cause, delivered, captureVars>>

(* setsid: the one escape the module's docs disclose.                       *)
MemberLeaves ==
  /\ member = "in" /\ member' = "left"
  /\ UNCHANGED <<leader, stranger, looksSame, cause, delivered, captureVars>>

MemberEnds ==
  /\ member \in {"in", "left"} /\ member' = "gone"
  /\ UNCHANGED <<leader, stranger, looksSame, cause, delivered, captureVars>>

(* Neither the pid nor the group id is given away while the group lives.    *)
StrangerTakesPid ==
  /\ stranger = "none" /\ leader = "gone" /\ GroupMembers = {}
  /\ stranger' = "pid"
  /\ looksSame' \in BOOLEAN
  /\ UNCHANGED <<leader, member, cause, delivered, captureVars>>

StrangerLeadsGroup ==
  /\ stranger = "pid" /\ stranger' = "group"
  /\ UNCHANGED <<leader, member, looksSame, cause, delivered, captureVars>>

StrangerEnds ==
  /\ stranger \in {"pid", "group"} /\ stranger' = "gone" /\ looksSame' = FALSE
  /\ UNCHANGED <<leader, member, cause, delivered, captureVars>>

-----------------------------------------------------------------------------
(* captureBirthIdentityPosixAsync.                                          *)

AtMost(bounds) == CHOOSE b \in bounds : \A other \in bounds : b <= other

AggregateDeadline == CaptureTimeout + SettleGrace

(* As if every attempt had the whole allowance.                             *)
EffectiveTimeoutUncapped == CaptureTimeout

EffectiveTimeout == AtMost({CaptureTimeout, AggregateDeadline - elapsed - SettleGrace})

(* Entered again, the loop ends when a deadline has passed.                 *)
CaptureOver ==
  \/ AggregateDeadline - elapsed <= SettleGrace
  \/ retryUntil # 0 /\ elapsed >= retryUntil

CaptureGivesUp ==
  /\ capture = "running" /\ CaptureOver
  /\ capture' = "failed"
  /\ UNCHANGED <<osVars, birth, elapsed, retryUntil>>

(* readProcessElapsedSecondsAsync: the observer settles by its timeout, or  *)
(* by a bound of its own after it.                                          *)
SettledBy == EffectiveTimeout + SettleGrace

(* One observation of the leader's pid and, after "not found", the sleep.   *)
CaptureAttempt ==
  /\ capture = "running" /\ ~CaptureOver
  /\ \E took \in 0 .. SettledBy :
       LET now      == elapsed + took
           until    == IF retryUntil = 0 THEN now + RetryBound ELSE retryUntil
           remains  == {until - now, AggregateDeadline - now}
       IN  \/ /\ PidHolders # {}
              /\ birth' \in PidHolders
              /\ capture' = "found" /\ elapsed' = now /\ retryUntil' = retryUntil
           \/ /\ capture' = "failed" /\ elapsed' = now
              /\ UNCHANGED <<birth, retryUntil>>
           \/ /\ PidHolders = {}
              /\ retryUntil' = until /\ birth' = birth
              /\ IF \E r \in remains : r <= 0
                   THEN capture' = "failed" /\ elapsed' = now
                   ELSE /\ capture' = "running"
                        /\ elapsed' = now + AtMost(remains \cup {PollInterval})
  /\ UNCHANGED osVars

(* attachPendingIdentityCapture's continuation, and what a kill awaits.     *)
CaptureSettles ==
  /\ capture \in {"found", "failed"}
  /\ capture' = "settled" /\ elapsed' = 0 /\ retryUntil' = 0
  /\ UNCHANGED <<osVars, birth>>

GroupNext ==
  \/ LeaderEnds \/ LeaderCollected \/ MemberStarts \/ MemberLeaves \/ MemberEnds
  \/ StrangerLeadsGroup \/ StrangerEnds
  \/ CaptureGivesUp \/ CaptureAttempt \/ CaptureSettles

=============================================================================
