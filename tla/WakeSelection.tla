--------------------------- MODULE WakeSelection ---------------------------
(***************************************************************************)
(* The attempts to wake an agent session about one job: which transports    *)
(* are eligible, and selectAndWake, which probes and tries them one after   *)
(* the other and says what came of it.  WakeTransports has what a probe and *)
(* a wake do.                                                               *)
(***************************************************************************)
EXTENDS Integers, Sequences

CONSTANT Attempts      \* the attempts made about the job; they may overlap

VARIABLES
  threadId,            \* what the request's _meta says of a thread
  gates,               \* which of the two gates of the environment are open
  inherited,           \* both messaging variables are set
  attempt              \* how far each selectAndWake is

settingVars == <<threadId, gates, inherited>>

ThreadIds == {"absent", "id", "other"}

Unsettled == [n |-> 0, op |-> "none", stage |-> "none", log |-> <<>>,
              outcome |-> "none", permanent |-> FALSE]

InitSelection ==
  /\ threadId \in ThreadIds
  /\ gates \in SUBSET {"messaging", "codex"}
  /\ inherited \in BOOLEAN
  /\ attempt = [a \in Attempts |-> Unsettled]

-----------------------------------------------------------------------------
(* resolveWakeTarget: only a string that is not empty is a target.          *)
resolveWakeTarget ==
  CASE threadId = "absent" -> "absent"
    [] threadId = "id"     -> "resolved"
    [] threadId = "other"  -> "malformed"

(* eligibleWakeTransports: the messaging transport needs no target.         *)
Transports ==
  (IF "messaging" \in gates THEN <<"messaging">> ELSE <<>>)
    \o (IF resolveWakeTarget = "resolved" /\ "codex" \in gates
        THEN <<"appServer", "desktop">> ELSE <<>>)

At(a, transport, op, stage) ==
  /\ attempt[a].n \in DOMAIN Transports /\ Transports[attempt[a].n] = transport
  /\ attempt[a].op = op /\ attempt[a].stage = stage

Stands(a, transport, stage) == \E op \in {"probe", "wake"} : At(a, transport, op, stage)

Moves(a, stage) == attempt' = [attempt EXCEPT ![a].stage = stage]

-----------------------------------------------------------------------------
(* computeAggregatePermanence.                                              *)

AggregatePermanence(log) == log # <<>> /\ \A i \in DOMAIN log : log[i].permanent

AggregateOutcome(log) ==
  IF \E i \in DOMAIN log : log[i].refused THEN "refused" ELSE "unavailable"

(* The loop goes on to the next transport, or is exhausted.                 *)
GoesOn(a, entry) ==
  LET log == Append(attempt[a].log, entry)
      n   == attempt[a].n + 1
  IN  attempt' = [attempt EXCEPT ![a] =
        IF n \in DOMAIN Transports
        THEN [@ EXCEPT !.n = n, !.op = "probe", !.stage = "start", !.log = log]
        ELSE [@ EXCEPT !.n = n, !.op = "none", !.stage = "settled", !.log = log,
                       !.outcome = AggregateOutcome(log),
                       !.permanent = AggregatePermanence(log)]]

Delivers(a) ==
  attempt' = [attempt EXCEPT ![a] = [@ EXCEPT !.op = "none", !.stage = "settled",
                                              !.outcome = "delivered"]]

(* What a probe or a wake reports: available, delivered, refused, or        *)
(* unavailable, and this for good.                                          *)
Reports(a, what) ==
  CASE what = "available"   -> attempt' = [attempt EXCEPT ![a].op = "wake",
                                                          ![a].stage = "start"]
    [] what = "delivered"   -> Delivers(a)
    [] what = "refused"     -> GoesOn(a, [refused |-> TRUE, permanent |-> FALSE])
    [] what = "unavailable" -> GoesOn(a, [refused |-> FALSE, permanent |-> FALSE])
    [] what = "never"       -> GoesOn(a, [refused |-> FALSE, permanent |-> TRUE])

(* dispatchTransportWake, on output or at the end of the job; nothing is    *)
(* done when no transport is eligible.                                      *)
Dispatch(a) ==
  /\ attempt[a].n = 0 /\ Transports # <<>>
  /\ attempt' = [attempt EXCEPT ![a].n = 1, ![a].op = "probe", ![a].stage = "start"]

=============================================================================
