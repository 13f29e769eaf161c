--------------------------- MODULE PidObservation ---------------------------
(***************************************************************************)
(* src/process.ts asks the system about pids, while processes start, end   *)
(* and hand their pid on: readPidStartTimesBatchPosix (one ps for many     *)
(* pids, asked again for those missing), confirmProcessGroupReapedPosix    *)
(* (pgrep until nothing is left or time is up), checkProcessIdentity       *)
(* behind evaluatePreSignalIdentityGate (a read of /proc/<pid>/stat), and  *)
(* the blocking readers.  An observer reads at some moment of its call and *)
(* its answer arrives later, or never: a second timer settles the call.    *)
(***************************************************************************)
EXTENDS ObserverText

CONSTANTS
  Pids, MaxLife,       \* bound on the starts and ends of one pid's processes
  Texts,               \* texts to parse, for the runs of the parsers alone
  ReadTimeout,         \* PROCESS_IDENTITY_OBSERVATION_TIMEOUT_MS and
                       \* ASYNC_BIRTH_IDENTITY_CAPTURE_TIMEOUT_MS
  SettleGrace,         \* ASYNC_ELAPSED_READ_SETTLEMENT_GRACE_MS
  RetryBound,          \* BIRTH_IDENTITY_NOT_FOUND_RETRY_BOUND_MS
  PollInterval,        \* BIRTH_IDENTITY_NOT_FOUND_RETRY_POLL_INTERVAL_MS, and 50
  PgrepTimeout,        \* PGREP_SINGLE_CALL_TIMEOUT_MS
  ConfirmTimeout       \* GROUP_CONFIRMATION_TIMEOUT_MS

ASSUME TimesAssumption ==
  /\ MaxLife \in Nat
  /\ \A t \in {ReadTimeout, RetryBound, PollInterval, PgrepTimeout, ConfirmTimeout} :
       t \in Nat \ {0}
  /\ SettleGrace \in Nat

ASSUME PidsAssumption == Pids \subseteq Nat \ {0}

(* Fields of a row that its patterns and lists of names let through, or -1. *)
Rows ==
  [tokens : Nat, pid : Nat, weekday : -1 .. 6, month : -1 .. 11, day : -1 .. 99,
   hours : -1 .. 99, minutes : -1 .. 99, seconds : -1 .. 99,
   year : {-1} \cup {y \in Nat : y < 10000}]

ASSUME TextsAssumption ==
  \A t \in Texts :
    \/ t.form = "row" /\ t.raw \in Rows
    \/ t.form = "stat" /\ t.name \in Seq(Tokens) /\ t.ticks \in Nat
    \/ t.form = "etime" /\ t.elapsed \in Nat /\ t.elapsed \div 86400 <= MAX_PLAUSIBLE_ETIME_DAYS

VARIABLES
  op,          \* "batch", "confirm", "gate", "atOnce" or "text"
  text,        \* the text of a "text" behaviour
  life,        \* per pid: odd while its n-th process lives, even between two
  now, phase,  \* "top", "reading", "asleep", "over"
  remaining,   \* remainingPids
  foundRows,
  retryUntil,  \* retryDeadline, 0 while unset
  call,        \* the observer's call: who is asked, its bounds, its reply
  result,
  held,        \* history: <<pid, life>> that were there at some moment
  absent,      \* history: pids without a process at some moment
  bare,        \* history: no pid had a process at some moment
  listed       \* history: the rows settled calls brought

obsVars == <<op, text, life, now, phase, remaining, foundRows, retryUntil, call, result,
             held, absent, bare, listed>>

Lives(p) == life[p] % 2 = 1
StartedAt(l) == [day |-> 59 + l \div 86400, sec |-> l % 86400]

ObsInit ==
  /\ \/ op \in {"batch", "confirm", "gate", "atOnce"} /\ text = None
     \/ op = "text" /\ text \in Texts
  /\ life \in IF op = "text" THEN {[p \in Pids |-> 0]} ELSE [Pids -> {0, 1}]
  /\ now = 0 /\ phase = "top" /\ remaining = Pids /\ foundRows = {} /\ retryUntil = 0
  /\ call = None /\ result = None
  /\ held = {<<p, life[p]>> : p \in {q \in Pids : Lives(q)}}
  /\ absent = {p \in Pids : ~Lives(p)} /\ bare = (absent = Pids) /\ listed = {}

-----------------------------------------------------------------------------
(* The system.                                                              *)

LifeTurns(p) ==
  /\ phase # "over" /\ op # "text" /\ life[p] < MaxLife
  /\ life' = [life EXCEPT ![p] = @ + 1]
  /\ held' = held \cup {<<q, life'[q]>> : q \in {q \in Pids : life'[q] % 2 = 1}}
  /\ absent' = absent \cup {q \in Pids : life'[q] % 2 = 0}
  /\ bare' = (bare \/ \A q \in Pids : life'[q] % 2 = 0)
  /\ UNCHANGED <<op, text, now, phase, remaining, foundRows, retryUntil, call, result, listed>>

Tick ==
  /\ phase \in {"reading", "asleep"} /\ now < call.until
  /\ now' = now + 1
  /\ UNCHANGED <<op, text, life, phase, remaining, foundRows, retryUntil, call, result,
                 held, absent, bare, listed>>

-----------------------------------------------------------------------------
(* What an observer may answer.                                             *)

Present(asked) == {p \in asked : Lives(p)}

Garbled(row) == [row EXCEPT !.month = -1]

(* ps -p: exit status 1 when none of them is there.                         *)
PsReplies(asked) ==
  IF Present(asked) = {} THEN {[kind |-> "exit1"]}
  ELSE {[kind |-> "output",
         lines |-> {LET row == RowOf(p, StartedAt(life[p]))
                    IN  IF p \in bad THEN Garbled(row) ELSE row : p \in Present(asked)}] :
          bad \in SUBSET Present(asked)}

PgrepReplies == IF Present(Pids) = {} THEN {[kind |-> "exit1"]}
                ELSE {[kind |-> "output", lines |-> Present(Pids)]}

(* A line of /proc/<pid>/stat, whatever the process is called.              *)
StatOf(comm, ticks) ==
  <<Numeral(1), Space, OpenParen>> \o comm \o <<CloseParen>>
    \o [i \in 1 .. 2 * START_FIELD + 4 |->
          IF i % 2 = 1 THEN Space
          ELSE IF i = 2 * START_FIELD + 2 THEN Numeral(ticks) ELSE Numeral(0)]

ProcReplies(p) ==
  IF Lives(p) THEN {[kind |-> "output", raw |-> StatOf(<<Char("n")>>, life[p])]}
  ELSE {[kind |-> "error", code |-> "ENOENT"]}

(* It could not be run, or its own timeout ended it.                        *)
Failures == {[kind |-> "error", code |-> "EACCES"]}
              \cup (IF phase = "reading" /\ now >= call.ownTimeout
                      THEN {[kind |-> "killed"]} ELSE {})

Replies ==
  Failures \cup CASE op = "batch"   -> PsReplies(call.asked)
                  [] op = "confirm" -> PgrepReplies
                  [] op = "gate"    -> UNION {ProcReplies(p) : p \in call.asked}

-----------------------------------------------------------------------------
(* Calling the observer.                                                    *)

(* readPidStartTimesBatchPosixOnce and hasLiveProcessGroupMembersPosixAsync *)
(* give the child a timeout and settle a grace later; the read of /proc has *)
(* the one bound.                                                           *)
Ask(asked, timeout, grace) ==
  /\ call' = [asked |-> asked, reply |-> None, ownTimeout |-> now + timeout,
              until |-> now + timeout + grace]
  /\ phase' = "reading"

Answers ==
  /\ phase = "reading" /\ call.reply = None
  /\ \E r \in Replies : call' = [call EXCEPT !.reply = r]
  /\ UNCHANGED <<op, text, life, now, phase, remaining, foundRows, retryUntil, result,
                 held, absent, bare, listed>>

(* The callback of the child, or the bound: whichever comes first.          *)
Settled ==
  IF phase # "reading" THEN {}
  ELSE ({call.reply} \ {None}) \cup {r \in {[kind |-> "bound"]} : now = call.until}

Over(answer) == phase' = "over" /\ result' = answer

-----------------------------------------------------------------------------
(* readPidStartTimesBatchPosix.                                             *)

AtMost(bounds) == CHOOSE b \in bounds : \A other \in bounds : b <= other

AggregateLeft == ReadTimeout + SettleGrace - now

EffectiveTimeout == AtMost({ReadTimeout, AggregateLeft - SettleGrace})

BatchOver == [status |-> "ok", rows |-> foundRows']

BatchTop ==
  /\ op = "batch" /\ phase = "top"
  /\ IF AggregateLeft <= SettleGrace \/ (retryUntil # 0 /\ now >= retryUntil)
       THEN Over([status |-> "ok", rows |-> foundRows]) /\ call' = call
       ELSE Ask(remaining, EffectiveTimeout, SettleGrace) /\ result' = result
  /\ UNCHANGED <<op, text, life, now, remaining, foundRows, retryUntil, held, absent, bare, listed>>

(* As if a failed retry undid what the calls before it had found.           *)
BatchFailsWhole(reply) ==
  /\ reply.kind \in {"error", "killed", "bound"}
  /\ Over(Failure(reply.kind # "error"))
  /\ UNCHANGED <<remaining, foundRows, retryUntil, call, listed>>

BatchFails(reply) ==
  /\ reply.kind \in {"error", "killed", "bound"}
  /\ Over(IF foundRows = {} THEN Failure(reply.kind # "error")
          ELSE [status |-> "ok", rows |-> foundRows])
  /\ UNCHANGED <<remaining, foundRows, retryUntil, call, listed>>

BatchListed(reply) ==
  LET rows  == IF reply.kind = "exit1" THEN {} ELSE parseLstartBatchOutput(reply.lines)
      newly == {row \in rows : row.pid \in remaining}
      until == IF retryUntil = 0 THEN now + RetryBound ELSE retryUntil
      left  == {until - now, AggregateLeft}
  IN  /\ reply.kind \in {"output", "exit1"}
      /\ listed' = listed \cup rows
      /\ foundRows' = foundRows \cup newly
      /\ LET missing == remaining \ {row.pid : row \in newly}
         IN  IF missing = {}
               THEN Over(BatchOver) /\ UNCHANGED <<remaining, retryUntil, call>>
               ELSE /\ remaining' = missing /\ retryUntil' = until
                    /\ IF \E b \in left : b <= 0
                         THEN Over(BatchOver) /\ call' = call
                         ELSE /\ phase' = "asleep" /\ result' = result
                              /\ call' = [until |-> now + AtMost(left \cup {PollInterval})]

BatchSettles ==
  /\ op = "batch"
  /\ \E reply \in Settled : BatchFails(reply) \/ BatchListed(reply)
  /\ UNCHANGED <<op, text, life, now, held, absent, bare>>

Wakes ==
  /\ phase = "asleep" /\ now = call.until
  /\ phase' = "top"
  /\ UNCHANGED <<op, text, life, now, remaining, foundRows, retryUntil, call, result,
                 held, absent, bare, listed>>

-----------------------------------------------------------------------------
(* confirmProcessGroupReapedPosix: waitForProcessDeath over pgrep.          *)

ConfirmAsks ==
  /\ op = "confirm" /\ phase = "top"
  /\ Ask(Pids, PgrepTimeout, SettleGrace)
  /\ UNCHANGED <<op, text, life, now, remaining, foundRows, retryUntil, result, held, absent,
                 bare, listed>>

(* Fails closed: an observer that failed has seen somebody.                 *)
SeesSomebody(reply) == reply.kind # "exit1" /\ (reply.kind = "output" => reply.lines # {})

ConfirmSettles ==
  /\ op = "confirm"
  /\ \E reply \in Settled :
          IF ~SeesSomebody(reply) THEN Over([dead |-> TRUE]) /\ call' = call
          ELSE IF now >= ConfirmTimeout THEN Over([dead |-> FALSE]) /\ call' = call
          ELSE /\ phase' = "asleep" /\ result' = result
               /\ call' = [until |-> now + AtMost({PollInterval, ConfirmTimeout - now})]
  /\ UNCHANGED <<op, text, life, now, remaining, foundRows, retryUntil, held, absent, bare,
                 listed>>

-----------------------------------------------------------------------------
(* checkProcessIdentity and evaluatePreSignalIdentityGate for one pid whose *)
(* first process the job is.                                                *)

birthIdentity == 1

GateAsks ==
  /\ op = "gate" /\ phase = "top"
  /\ \E p \in Pids : Ask({p}, ReadTimeout, 0)
  /\ UNCHANGED <<op, text, life, now, remaining, foundRows, retryUntil, result, held, absent,
                 bare, listed>>

readLinuxStartTimeTicks(reply) ==
  CASE reply.kind = "output" -> interpretProcStatOutput(reply.raw)
    [] reply.kind = "error"  -> classifyProcStatReadFailure(reply.code)
    [] OTHER                 -> Failure(TRUE)

GateOf(observed) ==
  CASE observed.status = "not-found"        -> [action |-> "skip"]
    [] observed.status = "observer-failure" -> [action |-> "proceed", confirmed |-> FALSE]
    [] observed.status = "found"            ->
         IF observed.value = Numeral(birthIdentity)
           THEN [action |-> "proceed", confirmed |-> TRUE] ELSE [action |-> "refuse"]

GateSettles ==
  /\ op = "gate"
  /\ \E reply \in Settled : Over(GateOf(readLinuxStartTimeTicks(reply)))
  /\ UNCHANGED <<op, text, life, now, remaining, foundRows, retryUntil, call, held, absent,
                 bare, listed>>

-----------------------------------------------------------------------------
(* captureBirthIdentityPosix and hasLiveProcessGroupMembersPosix, which     *)
(* block: the answer is of this moment.                                     *)

(* ps leaves out the days and the hours that are zero.                      *)
EtimeOf(s) ==
  LET days == s \div 86400  hours == (s % 86400) \div 3600
      low  == <<(s % 3600) \div 60, s % 60>>
  IN  [days |-> IF days = 0 THEN -1 ELSE days,
       parts |-> IF days = 0 /\ hours = 0 THEN low ELSE <<hours>> \o low]

EtimeReplies(p) ==
  IF Lives(p) THEN {[kind |-> "output", raw |-> EtimeOf(7)],
                    [kind |-> "output", raw |-> [days |-> -1, parts |-> <<>>]]}
  ELSE {[kind |-> "exit1"]}

readProcessElapsedSeconds(reply) ==
  CASE reply.kind = "exit1"  -> NotFound
    [] reply.kind = "output" -> interpretPsOutput(reply.raw)
    [] OTHER                 -> Failure(FALSE)

BirthIdentity(platform, reply) ==
  <<platform,
    IF platform = "linux" THEN readLinuxStartTimeTicks(reply) ELSE readProcessElapsedSeconds(reply)>>

captureBirthIdentityPosix(p) ==
  \E platform \in {"linux", "darwin"} :
    \E reply \in Failures \cup IF platform = "linux" THEN ProcReplies(p) ELSE EtimeReplies(p) :
      Over([pid |-> p, observed |-> BirthIdentity(platform, reply), live |-> TRUE])

hasLiveProcessGroupMembersPosix(p) ==
  \E reply \in PgrepReplies \cup Failures :
    Over([pid |-> p, observed |-> <<"none", Failure(FALSE)>>, live |-> SeesSomebody(reply)])

AskAtOnce ==
  /\ op = "atOnce" /\ phase = "top"
  /\ \E p \in Pids : captureBirthIdentityPosix(p) \/ hasLiveProcessGroupMembersPosix(p)
  /\ UNCHANGED <<op, text, life, now, remaining, foundRows, retryUntil, call, held, absent,
                 bare, listed>>

ObsNext ==
  \/ \E p \in Pids : LifeTurns(p)
  \/ Tick \/ Answers \/ Wakes
  \/ BatchTop \/ BatchSettles \/ ConfirmAsks \/ ConfirmSettles
  \/ GateAsks \/ GateSettles \/ AskAtOnce

ObsSpec == ObsInit /\ [][ObsNext]_obsVars

-----------------------------------------------------------------------------
(* Properties.                                                              *)

(* Whatever fails, garbles or comes late, a batch names no start time its   *)
(* pid's process did not have while it ran, keeps every asked row that any  *)
(* of its calls brought, and says so when it has failed with nothing.       *)
BatchKeepsWhatItRead ==
  op = "batch" /\ phase = "over" =>
    IF result.status = "ok"
      THEN /\ result.rows = listed
           /\ \A row \in result.rows :
                \E h \in held : h[1] = row.pid /\ StartedAt(h[2]) = row.start
      ELSE listed = {}

(* A group is confirmed gone only if at some moment of the wait it was, and *)
(* the signal is skipped, refused or sent as confirmed only for a pid that  *)
(* really was free, another's, or the job's.                                *)
VerdictsWereTrueOnce ==
  phase = "over" =>
    /\ op = "confirm" /\ result.dead => bare
    /\ op = "gate" =>
         \E p \in call.asked :
           /\ result.action = "skip" => p \in absent
           /\ result.action = "refuse" => \E h \in held : h[1] = p /\ h[2] # birthIdentity
           /\ result.action = "proceed" /\ result.confirmed => <<p, birthIdentity>> \in held
    /\ op = "atOnce" =>
         /\ result.observed[2].status = "found" => Lives(result.pid)
         /\ result.observed[2].status = "not-found" => ~Lives(result.pid)
         /\ ~result.live => bare

(* However slow an observer is, a read has ended by its allowance and the   *)
(* grace, and a confirmation at most one poll of pgrep past its own.        *)
EndsInTime ==
  now <= CASE op = "confirm" -> ConfirmTimeout + PgrepTimeout + SettleGrace
           [] OTHER          -> ReadTimeout + SettleGrace

(* The reference for the texts: a calendar of its own, Zeller's weekday, and *)
(* the elapsed seconds and ticks the text was printed from.                 *)
Leap(year) == year % 4 = 0 /\ (year % 100 = 0 => year % 400 = 0)

DaysIn(month, year) ==
  CASE month = 1              -> IF Leap(year) THEN 29 ELSE 28
    [] month \in {3, 5, 8, 10} -> 30
    [] OTHER                  -> 31

Zeller(row) ==
  LET m == IF row.month < 2 THEN row.month + 13 ELSE row.month + 1
      y == IF row.month < 2 THEN row.year - 1 ELSE row.year
  IN  (row.day + (13 * (m + 1)) \div 5 + y + y \div 4 - y \div 100 + y \div 400 + 6) % 7

IsADate(row) ==
  /\ row.day \in 1 .. DaysIn(row.month, row.year) /\ row.weekday = Zeller(row)
  /\ row.hours < 24 /\ row.minutes < 60 /\ row.seconds < 60 /\ row.year >= 100

(* A row of ps is taken exactly if it is a moment of the calendar, and then *)
(* as that moment; the ticks of /proc are found whatever the process calls  *)
(* itself; an elapsed time is the seconds ps printed it from.               *)
TextsAreUnderstood ==
  op = "text" =>
    CASE text.form = "row"   ->
           LET read == parsePidLstartRow(text.raw)
           IN  /\ read # {} <=> WellShaped(text.raw) /\ IsADate(text.raw)
               /\ \A r \in read : RowOf(r.pid, r.start) = text.raw
      [] text.form = "stat"  ->
           parseLinuxStatStartTimeTicks(StatOf(text.name, text.ticks)) = {Numeral(text.ticks)}
      [] text.form = "etime" -> parseEtime(EtimeOf(text.elapsed)) = {text.elapsed}

(* The three properties of a read.                                          *)
ObservationsHold == BatchKeepsWhatItRead /\ VerdictsWereTrueOnce /\ EndsInTime

(* What the observers of processes say is true, and what they print is      *)
(* understood.                                                              *)
ObserversAreRight == ObservationsHold /\ TextsAreUnderstood

=============================================================================
