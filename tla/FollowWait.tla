----------------------------- MODULE FollowWait -----------------------------
(***************************************************************************)
(* The follow tool: calls that wait, bounded, for new output of one job or  *)
(* for its end, while lines arrive, the job ends, timers fire and requests  *)
(* are cancelled; and the budget of outstanding calls in the job store.     *)
(* FollowSession drives these actions with the requests of the server.      *)
(***************************************************************************)
EXTENDS Integers

CONSTANTS
  Calls,                    \* concurrent follow calls
  Streams,
  MAX_OUTSTANDING_FOLLOWS,
  MaxSeq                    \* bound on the lines of a behaviour

VARIABLES
  headSeq,                  \* of each stream
  terminal,                 \* the job's record is terminal
  outstandingFollowCount,
  phase,                    \* "idle", "waiting", "settled" or "returned"
  selected, cursor,         \* what the call waits for
  reason,                   \* what settled it
  subscribed,               \* calls with their two listeners in the store
  timers,                   \* calls whose timer is pending
  admitted,                 \* the handler's own record of holding a slot
  aborted                   \* abortedWhileWaiting

jobVars == <<headSeq, terminal>>

Selections == (SUBSET Streams) \ {{}}

Init ==
  /\ headSeq = [s \in Streams |-> 0] /\ terminal = FALSE
  /\ outstandingFollowCount = 0
  /\ phase = [c \in Calls |-> "idle"] /\ reason = [c \in Calls |-> "none"]
  /\ selected = [c \in Calls |-> Streams] /\ cursor = [c \in Calls |-> 0]
  /\ subscribed = {} /\ timers = {} /\ admitted = {} /\ aborted = {}

MaxOf(S) == CHOOSE x \in S : \A y \in S : y <= x

LastSeq == MaxOf({headSeq[s] : s \in Streams})

currentHeadSeq(sel) == MaxOf({headSeq[s] : s \in sel})

-----------------------------------------------------------------------------
(* The handler up to its await.                                             *)

Ends(c, why) ==
  /\ phase' = [phase EXCEPT ![c] = "returned"]
  /\ reason' = [reason EXCEPT ![c] = why]
  /\ aborted' = aborted \ {c}
  /\ UNCHANGED <<jobVars, outstandingFollowCount, selected, cursor, subscribed, timers,
                 admitted>>

(* Fault: output that came before the subscription is not looked for.       *)
AlreadyTerminalOnly(sel, after) == IF terminal THEN {"terminal"} ELSE {}

(* The recheck right after the subscription; "terminal" is preferred.       *)
Already(sel, after) ==
  CASE terminal                                   -> {"terminal"}
    [] ~terminal /\ currentHeadSeq(sel) > after   -> {"output"}
    [] OTHER                                      -> {}

Follow(c, sel, after) ==
  /\ phase[c] = "idle"
  /\ IF outstandingFollowCount >= MAX_OUTSTANDING_FOLLOWS
       THEN Ends(c, "rejected")
       ELSE \/ \E why \in Already(sel, after) : Ends(c, why)
            \/ /\ Already(sel, after) = {}
               /\ outstandingFollowCount' = outstandingFollowCount + 1
               /\ phase' = [phase EXCEPT ![c] = "waiting"]
               /\ selected' = [selected EXCEPT ![c] = sel]
               /\ cursor' = [cursor EXCEPT ![c] = after]
               /\ reason' = [reason EXCEPT ![c] = "none"]
               /\ subscribed' = subscribed \cup {c}
               /\ timers' = timers \cup {c}
               /\ admitted' = admitted \cup {c}
               /\ aborted' = aborted \ {c}
               /\ UNCHANGED jobVars

(* A request cancelled before the handler starts takes no slot.             *)
FollowAborted(c) ==
  /\ phase[c] = "idle"
  /\ Ends(c, "cancelled")

-----------------------------------------------------------------------------
(* What settles a waiting call: the first of these, whichever it is.        *)

Settle(calls, why) ==
  LET first == {c \in calls : phase[c] = "waiting"}
  IN  /\ phase' = [c \in Calls |-> IF c \in first THEN "settled" ELSE phase[c]]
      /\ reason' = [c \in Calls |-> IF c \in first THEN why ELSE reason[c]]

Wakes(c, s, seq) == s \in selected[c] /\ seq > cursor[c]

(* materializeLine: every listener is called, in the same step.             *)
LineArrives(s) ==
  LET seq == LastSeq + 1
  IN  /\ seq <= MaxSeq
      /\ headSeq' = [headSeq EXCEPT ![s] = seq]
      /\ Settle({c \in subscribed : Wakes(c, s, seq)}, "output")
      /\ UNCHANGED <<terminal, outstandingFollowCount, selected, cursor, subscribed,
                     timers, admitted, aborted>>

JobTerminal ==
  /\ ~terminal
  /\ terminal' = TRUE
  /\ Settle(subscribed, "terminal")
  /\ UNCHANGED <<headSeq, outstandingFollowCount, selected, cursor, subscribed, timers,
                 admitted, aborted>>

Timeout(c) ==
  /\ c \in timers
  /\ timers' = timers \ {c}
  /\ Settle({c}, "timeout")
  /\ UNCHANGED <<jobVars, outstandingFollowCount, selected, cursor, subscribed, admitted,
                 aborted>>

(* Fault: the slot is given back whether or not the call still holds it.    *)
ReleaseUnguarded(c) ==
  /\ outstandingFollowCount' = outstandingFollowCount - 1
  /\ admitted' = admitted \ {c}

ReleaseAdmission(c) ==
  /\ outstandingFollowCount' =
       IF c \in admitted THEN outstandingFollowCount - 1 ELSE outstandingFollowCount
  /\ admitted' = admitted \ {c}

(* unsubscribeBoth and clearTimeout.                                        *)
CleansUp(c) == subscribed' = subscribed \ {c} /\ timers' = timers \ {c}

(* Fault: an abort cleans up but does not resolve what the call awaits.     *)
AbortSettlesNot(c) == UNCHANGED <<phase, reason>>

AbortSettles(c) == Settle({c}, "timeout")

(* The abort may come when the call is settled but has not gone on yet.     *)
OnAbort(c) ==
  /\ phase[c] \in {"waiting", "settled"} /\ c \notin aborted
  /\ aborted' = aborted \cup {c}
  /\ CleansUp(c)
  /\ ReleaseAdmission(c)
  /\ AbortSettles(c)
  /\ UNCHANGED <<jobVars, selected, cursor>>

-----------------------------------------------------------------------------
(* The handler after its await; what no one reads any more is reset.        *)

Resume(c) ==
  /\ phase[c] = "settled"
  /\ phase' = [phase EXCEPT ![c] = "returned"]
  /\ reason' = [reason EXCEPT ![c] = IF c \in aborted THEN "cancelled" ELSE @]
  /\ selected' = [selected EXCEPT ![c] = Streams]
  /\ cursor' = [cursor EXCEPT ![c] = 0]
  /\ aborted' = aborted \ {c}
  /\ CleansUp(c)
  /\ ReleaseAdmission(c)
  /\ UNCHANGED jobVars

=============================================================================
