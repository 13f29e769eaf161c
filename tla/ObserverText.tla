---------------------------- MODULE ObserverText ----------------------------
(***************************************************************************)
(* What src/process.ts makes of the texts its observers print: one row of  *)
(* ps -o pid=,lstart=, the elapsed time of ps -o etime=, and a line of     *)
(* /proc/<pid>/stat.  A text is its tokens; -1 stands for a token that is  *)
(* refused by its pattern or is in no list of names.                       *)
(***************************************************************************)
EXTENDS Integers, Sequences, FiniteSets

CONSTANTS
  MAX_PLAUSIBLE_ETIME_DAYS,
  START_FIELD   \* index of starttime after the name, 19 in the code

ASSUME TextAssumption ==
  MAX_PLAUSIBLE_ETIME_DAYS \in Nat /\ START_FIELD \in Nat

None == [status |-> "none"]

-----------------------------------------------------------------------------
(* The calendar of JavaScript's Date, in days since 1970 and seconds.       *)

DayOf(year, month, day) ==
  LET y == IF month < 2 THEN year - 1 ELSE year
      yearDays == (153 * ((month + 10) % 12) + 2) \div 5 + day - 1
  IN  365 * y + y \div 4 - y \div 100 + y \div 400 + yearDays - 719468

UTC(row) ==
  LET year    == IF row.year < 100 THEN 1900 + row.year ELSE row.year
      seconds == row.hours * 3600 + row.minutes * 60 + row.seconds
  IN  [day |-> DayOf(year, row.month, 1) + row.day - 1 + seconds \div 86400,
       sec |-> seconds % 86400]

(* A day of an era of 400 years: the year it falls in, counted from March,  *)
(* the day of that year, and the month.                                     *)
YearOfEra(doe) == (doe - doe \div 1460 + doe \div 36524 - doe \div 146096) \div 365

DayOfYear(doe) ==
  LET yoe == YearOfEra(doe) IN doe - (365 * yoe + yoe \div 4 - yoe \div 100)

MonthOfYear(doy) == (5 * doy + 2) \div 153

(* getUTCFullYear, getUTCMonth, getUTCDate, getUTCHours ... of an instant.  *)
Fields(at) ==
  LET doe   == (at.day + 719468) % 146097
      doy   == DayOfYear(doe)
      mp    == MonthOfYear(doy)
      month == (mp + 2) % 12
  IN  [year |-> YearOfEra(doe) + 400 * ((at.day + 719468) \div 146097) + (IF month < 2 THEN 1 ELSE 0),
       month |-> month, day |-> doy - (153 * mp + 2) \div 5 + 1,
       hours |-> at.sec \div 3600, minutes |-> (at.sec % 3600) \div 60,
       seconds |-> at.sec % 60, weekday |-> (at.day + 4) % 7]

(* What ps prints of a process that started at an instant.                  *)
RowOf(pid, at) ==
  LET f == Fields(at)
  IN  [tokens |-> 6, pid |-> pid, weekday |-> f.weekday, month |-> f.month, day |-> f.day,
       hours |-> f.hours, minutes |-> f.minutes, seconds |-> f.seconds, year |-> f.year]

-----------------------------------------------------------------------------
(* parsePidLstartRow.                                                       *)

WellShaped(row) ==
  /\ row.tokens = 6 /\ row.pid > 0
  /\ -1 \notin {row.weekday, row.month, row.day, row.hours, row.minutes, row.seconds, row.year}

(* Date.UTC itself does not look at the weekday.                            *)
RoundTrips(row) ==
  Fields(UTC(row)) =
    [year |-> row.year, month |-> row.month, day |-> row.day, hours |-> row.hours,
     minutes |-> row.minutes, seconds |-> row.seconds, weekday |-> row.weekday]

parsePidLstartRow(row) ==
  IF WellShaped(row) /\ RoundTrips(row) THEN {[pid |-> row.pid, start |-> UTC(row)]} ELSE {}

parseLstartBatchOutput(lines) == UNION {parsePidLstartRow(row) : row \in lines}

-----------------------------------------------------------------------------
(* parseLinuxStatStartTimeTicks: the name in parentheses may hold a closing *)
(* one, blanks and numerals.                                                *)

Char(c)    == [chars |-> c]
OpenParen  == Char("open")
CloseParen == Char("close")
Space      == Char("blank")
Numeral(n) == [digits |-> n]
Tokens     == [chars : STRING] \cup [digits : Nat]

LastParen(raw) ==
  LET at == {i \in DOMAIN raw : raw[i] = CloseParen}
  IN  IF at = {} THEN 0 ELSE CHOOSE i \in at : \A j \in at : j <= i

(* Where the fields after the name stand.                                   *)
TailFields(raw) == {i \in LastParen(raw) + 1 .. Len(raw) : raw[i] # Space}

parseLinuxStatStartTimeTicks(raw) ==
  IF LastParen(raw) = 0 THEN {}
  ELSE {raw[i] : i \in {j \in TailFields(raw) :
                          /\ Cardinality({h \in TailFields(raw) : h < j}) = START_FIELD
                          /\ raw[j] \in [digits : Nat]}}

-----------------------------------------------------------------------------
(* parseEtime: [[dd-]hh:]mm:ss as [days, parts], days -1 without any.        *)

parseEtime(raw) ==
  LET days  == IF raw.days = -1 THEN 0 ELSE raw.days
      hours == IF Len(raw.parts) = 3 THEN Head(raw.parts) ELSE 0
      low   == SubSeq(raw.parts, Len(raw.parts) - 1, Len(raw.parts))
  IN  IF /\ days <= MAX_PLAUSIBLE_ETIME_DAYS
         /\ Len(raw.parts) \in {2, 3}
         /\ \A i \in DOMAIN raw.parts : raw.parts[i] \in 0 .. 99
        THEN {days * 86400 + hours * 3600 + low[1] * 60 + low[2]} ELSE {}

-----------------------------------------------------------------------------
(* What the readers conclude.                                               *)

Failure(timedOut)   == [status |-> "observer-failure", timedOut |-> timedOut]
NotFound            == [status |-> "not-found"]
FoundOr(readings)   == IF readings = {} THEN Failure(FALSE)
                       ELSE [status |-> "found", value |-> CHOOSE v \in readings : TRUE]

interpretPsOutput(output) == IF output.parts = <<>> THEN Failure(FALSE) ELSE FoundOr(parseEtime(output))

interpretProcStatOutput(raw) == FoundOr(parseLinuxStatStartTimeTicks(raw))

classifyProcStatReadFailure(code) == IF code = "ENOENT" THEN NotFound ELSE Failure(FALSE)

=============================================================================
