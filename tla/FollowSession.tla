---------------------------- MODULE FollowSession ----------------------------
(***************************************************************************)
(* A client that follows a job over one connection: the requests of         *)
(* src/server.ts and the follow calls they carry.  A cancellation is the    *)
(* abort of the call, whether it comes before, with or after the start of   *)
(* the call's handler.                                                      *)
(***************************************************************************)
EXTENDS ServerRequests

CONSTANTS Streams, MAX_OUTSTANDING_FOLLOWS, MaxSeq

ASSUME BudgetAssumption ==
  MAX_OUTSTANDING_FOLLOWS \in Nat /\ MaxSeq \in Nat /\ Streams # {}

VARIABLES
  headSeq, terminal, outstandingFollowCount,
  phase, selected, cursor, reason, subscribed, timers, admitted, aborted

F == INSTANCE FollowWait WITH Calls <- Ids

followVars == <<headSeq, terminal, outstandingFollowCount, phase, selected, cursor,
                reason, subscribed, timers, admitted, aborted>>
vars       == <<requestVars, followVars>>

Init == RequestsInit /\ F!Init

-----------------------------------------------------------------------------
(* The requests.                                                            *)

Handshake ==
  /\ InitializeArrives \/ InitializeAnswered \/ InitializedArrives
  /\ UNCHANGED followVars

Request(id) ==
  /\ phase[id] = "idle" /\ RequestArrives(id)
  /\ UNCHANGED followVars

(* The tool is called with a signal, aborted or not, or not called at all.  *)
Starts(id) ==
  /\ \/ ~isInitializedForToolCalls /\ F!Ends(id, "rejected")
     \/ isInitializedForToolCalls /\ AbortedAtStart(id) /\ F!FollowAborted(id)
     \/ /\ isInitializedForToolCalls /\ ~AbortedAtStart(id)
        /\ \E sel \in F!Selections :
             \/ F!Follow(id, sel, F!currentHeadSeq(sel))      \* no cursor given
             \/ \E after \in 0 .. MaxSeq : F!Follow(id, sel, after)
  /\ HandlerStarts(id, phase'[id] = "waiting")

Running(id) == phase[id] \in {"waiting", "settled"}

(* The controller that is found under the key is aborted.                   *)
Cancel(id) ==
  /\ phase[id] # "idle" \/ id \in arrived
  /\ CancelArrives(id, Running(id))
  /\ LET hit == {c \in Ids : Running(c) /\ cancellationKey(c) = cancellationKey(id)}
     IN  \/ \E c \in hit : F!OnAbort(c)
         \/ hit \subseteq aborted /\ UNCHANGED followVars

Returns(id) == F!Resume(id) /\ HandlerEnds(id)

-----------------------------------------------------------------------------
(* What the calls wait for.                                                 *)

TimesOut(id) == F!Timeout(id) /\ UNCHANGED requestVars

JobGoesOn ==
  /\ F!JobTerminal \/ \E s \in Streams : F!LineArrives(s)
  /\ UNCHANGED requestVars

(* Handlers run before the next chunk is read, a timer or an event comes.   *)
Next ==
  \/ \E id \in Ids : Request(id) \/ Cancel(id) \/ Starts(id)
  \/ /\ arrived = {}
     /\ Handshake \/ JobGoesOn \/ \E id \in Ids : Returns(id) \/ TimesOut(id)

Spec == Init /\ [][Next]_vars

(* Handlers start, promise continuations run and timers fire.               *)
Fairness ==
  \A id \in Ids : WF_vars(Starts(id)) /\ WF_vars(arrived = {} /\ (Returns(id) \/ TimesOut(id)))

FairSpec == Spec /\ Fairness

-----------------------------------------------------------------------------
(* No lost wake-up: a call still waiting has nothing it should have woken   *)
(* for, however its subscription, the lines and the job's end interleave.   *)
NoLostWakeup ==
  \A c \in Ids : phase[c] = "waiting"
    => ~terminal /\ F!currentHeadSeq(selected[c]) <= cursor[c]

(* The budget: the count is exactly the calls that wait or still have to    *)
(* clean up, so no path leaks a slot or gives one back twice; and a call    *)
(* that returned left neither a listener nor a timer behind.                *)
BudgetIsSound ==
  /\ outstandingFollowCount = Cardinality({c \in Ids : Running(c) /\ c \notin aborted})
  /\ \A c \in subscribed \cup timers : Running(c)

(* A call whose request was cancelled before it was answered ends as        *)
(* cancelled, whatever its id and however early the cancellation came, and  *)
(* no other call does.                                                      *)
CancelledIsCancelled ==
  [][\A id \in Ids :
       phase[id] # "returned" /\ phase'[id] = "returned" /\ isInitializedForToolCalls
         => (reason'[id] = "cancelled" <=> id \in inFlight)]_vars

(* Every request that is sent is answered.                                  *)
RequestsAreAnswered == \A id \in Ids : id \in arrived ~> phase[id] = "returned"

(* A follow that waits has something to wait for, and its slot is counted   *)
(* once.                                                                    *)
FollowsAreSound == NoLostWakeup /\ BudgetIsSound

=============================================================================
