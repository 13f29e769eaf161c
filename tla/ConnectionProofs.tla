-------------------------- MODULE ConnectionProofs --------------------------
(***************************************************************************)
(* Proofs about a connection: the follow calls it carries (FollowSession)   *)
(* and the lines on its wire (ServerWire).  A follow call that waits has    *)
(* nothing it should have woken for, the budget is exactly the calls that   *)
(* hold a place in it, and a call ends as cancelled exactly if its request  *)
(* was cancelled in time.  However the client's text is cut into chunks,    *)
(* each of its lines has its one reply, and every run the server admitted   *)
(* is among those its shutdown reaps.                                       *)
(***************************************************************************)
EXTENDS FollowSession, ServerWire, FiniteSetTheorems, SequenceTheorems, TLAPS

-----------------------------------------------------------------------------
(* The follow calls of a connection.                                        *)

Phases   == {"idle", "waiting", "settled", "returned"}
Reasons  == {"none", "output", "terminal", "timeout", "cancelled", "rejected"}
Holds(c) == Running(c) /\ c \notin aborted

TypeOK ==
  /\ headSeq \in [Streams -> Nat]
  /\ terminal \in BOOLEAN
  /\ outstandingFollowCount \in Nat
  /\ phase \in [Ids -> Phases]
  /\ selected \in [Ids -> (SUBSET Streams) \ {{}}]
  /\ cursor \in [Ids -> Nat]
  /\ reason \in [Ids -> Reasons]
  /\ subscribed \subseteq Ids /\ timers \subseteq Ids
  /\ admitted \subseteq Ids /\ aborted \subseteq Ids

(* Every set of streams has one whose line is the newest: what the code's   *)
(* Math.max is taken of.                                                    *)
HeadsHaveMax ==
  \A sel \in (SUBSET Streams) \ {{}} : \E s \in sel : \A t \in sel : headSeq[t] <= headSeq[s]

(* The handler's own record of holding a place, the count in the store, the *)
(* listeners and the timers agree.                                          *)
BudgetInv ==
  /\ admitted = {c \in Ids : Holds(c)}
  /\ outstandingFollowCount = Cardinality(admitted)
  /\ \A c \in Ids : phase[c] = "waiting" => c \in subscribed /\ c \notin aborted
  /\ subscribed \cup timers \subseteq {c \in Ids : Running(c)}

(* What the server remembers of cancellations, by where their request is.   *)
RequestsInv ==
  /\ arrived \subseteq Ids /\ sdkAborted \subseteq arrived /\ inFlight \subseteq Ids
  /\ \A id \in Ids :
       /\ phase[id] # "idle" => id \notin arrived
       /\ phase[id] = "idle" =>
            /\ id \in inFlight <=> AbortedAtStart(id)
            /\ id \in inFlight => id \in arrived
            /\ cancellationKey(id) \notin controllers
       /\ Running(id) => (id \in inFlight <=> id \in aborted)
       /\ reason[id] = "cancelled" => phase[id] = "returned"

IInv == TypeOK /\ HeadsHaveMax /\ BudgetInv /\ NoLostWakeup /\ RequestsInv

-----------------------------------------------------------------------------
(* Facts about the operators.                                               *)

(* The key of a request names it: the type is part of it.                   *)
LEMMA KeysAreDistinct ==
  ASSUME NEW a \in Ids, NEW b \in Ids, cancellationKey(a) = cancellationKey(b)
  PROVE  a = b
BY IdsAssumption DEF cancellationKey

(* Where there is a greatest element, it is what MaxOf chooses.             *)
LEMMA MaxOfSet ==
  ASSUME NEW S, NEW m \in S, \A y \in S : y <= m
  PROVE  F!MaxOf(S) \in S /\ \A y \in S : y <= F!MaxOf(S)
BY DEF F!MaxOf

(* currentHeadSeq of any streams, and LastSeq of all.                       *)
LEMMA HeadOf ==
  ASSUME TypeOK, HeadsHaveMax, NEW sel \in (SUBSET Streams) \ {{}}
  PROVE  /\ F!currentHeadSeq(sel) \in Nat
         /\ \A s \in sel : headSeq[s] <= F!currentHeadSeq(sel)
<1> DEFINE heads == {headSeq[s] : s \in sel}
<1>1. PICK s \in sel : \A t \in sel : headSeq[t] <= headSeq[s]
  BY DEF HeadsHaveMax
<1>2. heads \subseteq Nat /\ headSeq[s] \in heads /\ \A y \in heads : y <= headSeq[s]
  BY <1>1 DEF TypeOK
<1>3. F!currentHeadSeq(sel) = F!MaxOf(heads)
  BY DEF F!currentHeadSeq
<1> HIDE DEF heads
<1>4. F!MaxOf(heads) \in heads /\ \A y \in heads : y <= F!MaxOf(heads)
  BY <1>2, MaxOfSet
<1> QED BY <1>2, <1>3, <1>4 DEF heads

LEMMA LastOf ==
  ASSUME TypeOK, HeadsHaveMax
  PROVE  F!LastSeq \in Nat /\ \A s \in Streams : headSeq[s] <= F!LastSeq
<1>1. F!LastSeq = F!currentHeadSeq(Streams)
  BY DEF F!LastSeq, F!currentHeadSeq
<1>2. Streams \in (SUBSET Streams) \ {{}}
  BY BudgetAssumption
<1> QED BY <1>1, <1>2, HeadOf

-----------------------------------------------------------------------------
(* The start of a call: it ends at once, or it takes a place and waits.     *)

Waits(c, sel, after) ==
  /\ F!Already(sel, after) = {}
  /\ outstandingFollowCount' = outstandingFollowCount + 1
  /\ phase' = [phase EXCEPT ![c] = "waiting"]
  /\ selected' = [selected EXCEPT ![c] = sel]
  /\ cursor' = [cursor EXCEPT ![c] = after]
  /\ reason' = [reason EXCEPT ![c] = "none"]
  /\ subscribed' = subscribed \cup {c}
  /\ timers' = timers \cup {c}
  /\ admitted' = admitted \cup {c}
  /\ aborted' = aborted \ {c}
  /\ UNCHANGED <<headSeq, terminal>>

LEMMA StartsCases ==
  ASSUME TypeOK, HeadsHaveMax, RequestsInv, NEW id \in Ids, Starts(id)
  PROVE  /\ phase[id] = "idle"
         /\ \/ /\ HandlerStarts(id, FALSE)
               /\ \E why \in Reasons \ {"none", "timeout"} :
                    /\ F!Ends(id, why)
                    /\ isInitializedForToolCalls => (why = "cancelled" <=> AbortedAtStart(id))
            \/ /\ HandlerStarts(id, TRUE) /\ isInitializedForToolCalls /\ ~AbortedAtStart(id)
               /\ \E sel \in (SUBSET Streams) \ {{}}, after \in Nat : Waits(id, sel, after)
<1>1. phase[id] = "idle"
  BY DEF Starts, HandlerStarts, RequestsInv, TypeOK, F!FollowAborted, F!Follow
<1>2. HandlerStarts(id, phase'[id] = "waiting")
  BY DEF Starts
<1>3. ASSUME NEW why, F!Ends(id, why)
      PROVE  HandlerStarts(id, FALSE)
  <2>1. phase'[id] # "waiting"
    BY <1>3 DEF F!Ends, TypeOK
  <2> QED BY <1>2, <2>1 DEF HandlerStarts
<1>4. CASE ~isInitializedForToolCalls /\ F!Ends(id, "rejected")
  BY <1>1, <1>3, <1>4 DEF Reasons
<1>5. CASE isInitializedForToolCalls /\ AbortedAtStart(id) /\ F!FollowAborted(id)
  BY <1>1, <1>3, <1>5 DEF Reasons, F!FollowAborted
<1>6. ASSUME isInitializedForToolCalls, ~AbortedAtStart(id),
             NEW sel \in F!Selections, NEW after \in Nat, F!Follow(id, sel, after)
      PROVE  \/ /\ HandlerStarts(id, FALSE)
                /\ \E why \in Reasons \ {"none", "timeout"} :
                     F!Ends(id, why) /\ why # "cancelled"
             \/ /\ HandlerStarts(id, TRUE)
                /\ \E s \in (SUBSET Streams) \ {{}}, n \in Nat : Waits(id, s, n)
  <2>1. CASE F!Ends(id, "rejected")
    BY <1>3, <2>1 DEF Reasons
  <2>2. CASE \E why \in F!Already(sel, after) : F!Ends(id, why)
    BY <1>3, <2>2 DEF Reasons, F!Already
  <2>3. CASE Waits(id, sel, after)
    <3>1. phase'[id] = "waiting"
      BY <2>3 DEF Waits, TypeOK
    <3>2. HandlerStarts(id, TRUE)
      BY <1>2, <3>1 DEF HandlerStarts
    <3> QED BY <2>3, <3>2 DEF F!Selections
  <2> QED BY <1>6, <2>1, <2>2, <2>3 DEF F!Follow, Waits, F!jobVars
<1>7. ASSUME NEW sel \in F!Selections
      PROVE  F!currentHeadSeq(sel) \in Nat
  BY HeadOf DEF F!Selections
<1>8. 0 .. MaxSeq \subseteq Nat
  BY BudgetAssumption
<1>9. CASE /\ isInitializedForToolCalls /\ ~AbortedAtStart(id)
           /\ \E sel \in F!Selections : \E after \in Nat : F!Follow(id, sel, after)
  BY <1>1, <1>6, <1>9
<1> QED BY <1>4, <1>5, <1>7, <1>8, <1>9 DEF Starts

-----------------------------------------------------------------------------
(* The invariant holds at the start.                                        *)

LEMMA InitIsSound == Init => IInv
<1> SUFFICES ASSUME Init PROVE IInv
  OBVIOUS
<1> USE DEF Init, RequestsInit, F!Init
<1>1. TypeOK
  BY BudgetAssumption DEF TypeOK, Phases, Reasons
<1>2. HeadsHaveMax
  BY DEF HeadsHaveMax
<1>3. BudgetInv
  BY FS_EmptySet DEF BudgetInv, Holds, Running
<1>4. NoLostWakeup
  BY DEF NoLostWakeup
<1>5. RequestsInv
  BY DEF RequestsInv, AbortedAtStart, Running
<1> QED BY <1>1, <1>2, <1>3, <1>4, <1>5 DEF IInv

-----------------------------------------------------------------------------
(* Each step keeps the calls' half: types, heads, budget and wake-ups.      *)

CallInv == TypeOK /\ HeadsHaveMax /\ BudgetInv /\ NoLostWakeup

(* A call that ends at once was no holder before and is none after.         *)
LEMMA EndsKeeps ==
  ASSUME CallInv, NEW c \in Ids, phase[c] = "idle",
         NEW why \in Reasons, F!Ends(c, why)
  PROVE  CallInv'
<1> USE DEF CallInv, F!Ends
<1>1. TypeOK'
  BY DEF TypeOK, F!jobVars, Phases
<1>2. HeadsHaveMax'
  BY DEF HeadsHaveMax, F!jobVars
<1>3. BudgetInv'
  <2>1. \A d \in Ids : Holds(d)' = Holds(d)
    BY DEF Holds, Running, TypeOK
  <2> QED BY <2>1 DEF BudgetInv, TypeOK, Running
<1>4. NoLostWakeup'
  BY DEF NoLostWakeup, F!currentHeadSeq, TypeOK, F!jobVars
<1> QED BY <1>1, <1>2, <1>3, <1>4

(* A call that begins to wait has nothing to wake for yet.                  *)
LEMMA WaitsKeeps ==
  ASSUME CallInv, NEW c \in Ids, phase[c] = "idle",
         NEW sel \in (SUBSET Streams) \ {{}}, NEW after \in Nat, Waits(c, sel, after)
  PROVE  CallInv'
<1> USE DEF CallInv, Waits
<1>1. TypeOK'
  BY DEF TypeOK, Phases, Reasons
<1>2. HeadsHaveMax'
  BY DEF HeadsHaveMax
<1>3. BudgetInv'
  <2>1. \A d \in Ids : Holds(d)' <=> Holds(d) \/ d = c
    BY DEF Holds, Running, TypeOK
  <2>2. c \notin admitted /\ IsFiniteSet(admitted)
    BY IdsAssumption, FS_Subset DEF BudgetInv, Holds, Running, TypeOK
  <2>3. Cardinality(admitted') = Cardinality(admitted) + 1
    BY <2>2, FS_AddElement
  <2> QED BY <2>1, <2>3 DEF BudgetInv, TypeOK, Running
<1>4. NoLostWakeup'
  <2>1. ~terminal /\ F!currentHeadSeq(sel) <= after
    BY HeadOf DEF F!Already
  <2> QED BY <2>1 DEF NoLostWakeup, F!currentHeadSeq, TypeOK
<1> QED BY <1>1, <1>2, <1>3, <1>4

(* A line wakes every call it concerns, and moves no other call's head.     *)
LEMMA LineKeeps ==
  ASSUME CallInv, NEW s \in Streams, F!LineArrives(s)
  PROVE  CallInv'
<1> DEFINE seq == F!LastSeq + 1
<1> USE DEF CallInv, F!LineArrives, F!Settle
<1>1. seq \in Nat /\ \A t \in Streams : headSeq[t] < seq
  BY LastOf DEF TypeOK
<1>2. /\ headSeq' = [headSeq EXCEPT ![s] = seq]
      /\ \A c \in Ids : phase'[c] = IF c \in subscribed /\ F!Wakes(c, s, seq) /\ phase[c] = "waiting"
                                    THEN "settled" ELSE phase[c]
  OBVIOUS
<1>3. TypeOK'
  BY <1>1 DEF TypeOK, Phases, Reasons
<1>4. HeadsHaveMax'
  <2>1. SUFFICES ASSUME NEW sel \in (SUBSET Streams) \ {{}}
                 PROVE  \E x \in sel : \A t \in sel : headSeq'[t] <= headSeq'[x]
    BY DEF HeadsHaveMax
  <2>2. CASE s \in sel
    BY <1>1, <1>2, <2>2 DEF TypeOK
  <2>3. CASE s \notin sel
    BY <1>2, <2>3 DEF TypeOK, HeadsHaveMax
  <2> QED BY <2>2, <2>3
<1>5. BudgetInv'
  <2>1. \A d \in Ids : Holds(d)' = Holds(d)
    BY <1>2 DEF Holds, Running
  <2> QED BY <1>2, <2>1 DEF BudgetInv, Running
<1>6. NoLostWakeup'
  <2>1. SUFFICES ASSUME NEW c \in Ids, phase'[c] = "waiting"
                 PROVE  ~terminal' /\ F!currentHeadSeq(selected[c])' <= cursor[c]
    BY DEF NoLostWakeup
  <2>2. phase[c] = "waiting" /\ ~F!Wakes(c, s, seq)
    BY <1>2, <2>1 DEF BudgetInv
  <2>3. PICK t \in selected[c] : F!currentHeadSeq(selected[c])' = headSeq'[t]
    <3> DEFINE heads == {headSeq'[x] : x \in selected[c]}
    <3>1. PICK m \in selected[c] : \A t \in selected[c] : headSeq'[t] <= headSeq'[m]
      BY <1>4 DEF TypeOK, HeadsHaveMax
    <3>2. headSeq'[m] \in heads /\ \A y \in heads : y <= headSeq'[m]
      BY <3>1
    <3>3. F!currentHeadSeq(selected[c])' = F!MaxOf(heads)
      BY DEF F!currentHeadSeq
    <3> HIDE DEF heads
    <3>4. F!MaxOf(heads) \in heads
      BY <3>2, MaxOfSet
    <3> QED BY <3>3, <3>4 DEF heads
  <2>4. headSeq[t] <= cursor[c]
    BY HeadOf, <2>2 DEF TypeOK, NoLostWakeup
  <2> QED BY <1>1, <1>2, <2>2, <2>3, <2>4 DEF NoLostWakeup, F!Wakes, TypeOK
<1> QED BY <1>3, <1>4, <1>5, <1>6

(* The end of the job settles every call that waits.                        *)
LEMMA TerminalKeeps ==
  ASSUME CallInv, F!JobTerminal
  PROVE  CallInv'
<1> USE DEF CallInv, F!JobTerminal, F!Settle
<1>1. TypeOK'
  BY DEF TypeOK, Phases, Reasons
<1>2. HeadsHaveMax'
  BY DEF HeadsHaveMax
<1>3. BudgetInv'
  <2>1. \A d \in Ids : Holds(d)' = Holds(d)
    BY DEF Holds, Running
  <2> QED BY <2>1 DEF BudgetInv, Running
<1>4. NoLostWakeup'
  BY DEF NoLostWakeup, BudgetInv
<1> QED BY <1>1, <1>2, <1>3, <1>4

LEMMA TimeoutKeeps ==
  ASSUME CallInv, NEW c \in Ids, F!Timeout(c)
  PROVE  CallInv'
<1> USE DEF CallInv, F!Timeout, F!Settle, F!jobVars
<1>1. TypeOK'
  BY DEF TypeOK, Phases, Reasons
<1>2. HeadsHaveMax'
  BY DEF HeadsHaveMax
<1>3. BudgetInv'
  <2>1. \A d \in Ids : Holds(d)' = Holds(d)
    BY DEF Holds, Running
  <2> QED BY <2>1 DEF BudgetInv, Running
<1>4. NoLostWakeup'
  BY DEF NoLostWakeup, F!currentHeadSeq
<1> QED BY <1>1, <1>2, <1>3, <1>4

(* An abort gives the place back at once, and the call's own clean-up finds *)
(* that it holds none.                                                      *)
LEMMA ReleaseIsExact ==
  ASSUME TypeOK, BudgetInv, NEW c \in Ids, F!ReleaseAdmission(c)
  PROVE  outstandingFollowCount' = Cardinality(admitted') /\ outstandingFollowCount' \in Nat
<1>1. IsFiniteSet(admitted)
  BY IdsAssumption, FS_Subset DEF TypeOK
<1>2. /\ IsFiniteSet(admitted')
      /\ Cardinality(admitted') =
           IF c \in admitted THEN Cardinality(admitted) - 1 ELSE Cardinality(admitted)
  BY <1>1, FS_RemoveElement DEF F!ReleaseAdmission
<1>3. Cardinality(admitted') \in Nat
  BY <1>2, FS_CardinalityType
<1> QED BY <1>2, <1>3 DEF F!ReleaseAdmission, BudgetInv

LEMMA AbortKeeps ==
  ASSUME CallInv, NEW c \in Ids, F!OnAbort(c)
  PROVE  CallInv'
<1> USE DEF CallInv, F!OnAbort, F!AbortSettles, F!Settle, F!CleansUp, F!jobVars
<1>1. outstandingFollowCount' = Cardinality(admitted') /\ outstandingFollowCount' \in Nat
  BY ReleaseIsExact
<1>2. TypeOK'
  BY <1>1 DEF TypeOK, Phases, Reasons, F!ReleaseAdmission
<1>3. HeadsHaveMax'
  BY DEF HeadsHaveMax
<1>4. BudgetInv'
  <2>1. \A d \in Ids : Holds(d)' <=> Holds(d) /\ d # c
    BY DEF Holds, Running
  <2> QED BY <1>1, <2>1 DEF BudgetInv, F!ReleaseAdmission, Running
<1>5. NoLostWakeup'
  BY DEF NoLostWakeup, F!currentHeadSeq
<1> QED BY <1>2, <1>3, <1>4, <1>5

LEMMA ResumeKeeps ==
  ASSUME CallInv, NEW c \in Ids, F!Resume(c)
  PROVE  CallInv'
<1> USE DEF CallInv, F!Resume, F!CleansUp, F!jobVars
<1>1. outstandingFollowCount' = Cardinality(admitted') /\ outstandingFollowCount' \in Nat
  BY ReleaseIsExact
<1>2. TypeOK'
  BY <1>1, BudgetAssumption DEF TypeOK, Phases, Reasons, F!ReleaseAdmission
<1>3. HeadsHaveMax'
  BY DEF HeadsHaveMax
<1>4. BudgetInv'
  <2>1. \A d \in Ids : Holds(d)' <=> Holds(d) /\ d # c
    BY DEF Holds, Running, TypeOK
  <2> QED BY <1>1, <2>1 DEF BudgetInv, F!ReleaseAdmission, Running, TypeOK
<1>5. NoLostWakeup'
  BY DEF NoLostWakeup, F!currentHeadSeq, TypeOK
<1> QED BY <1>2, <1>3, <1>4, <1>5

-----------------------------------------------------------------------------
(* Each step keeps what the server remembers of cancellations.              *)

(* The fields of a call that RequestsInv speaks of.                         *)
SameCall(c) == phase'[c] = phase[c] /\ reason'[c] = reason[c] /\ (c \in aborted' <=> c \in aborted)

(* The store's own steps settle calls and do nothing else to them.          *)
LEMMA SettlingKeepsRequests ==
  ASSUME TypeOK, RequestsInv, UNCHANGED requestVars, aborted' = aborted,
         NEW set, NEW why \in {"output", "terminal", "timeout"}, F!Settle(set, why)
  PROVE  RequestsInv'
<1> USE DEF RequestsInv, requestVars, F!Settle
<1>1. /\ arrived' \subseteq Ids /\ sdkAborted' \subseteq arrived' /\ inFlight' \subseteq Ids
      /\ \A id \in Ids : AbortedAtStart(id)' = AbortedAtStart(id)
  BY DEF AbortedAtStart
<1>2. \A id \in Ids :
        /\ phase'[id] = "idle" <=> phase[id] = "idle"
        /\ phase'[id] = "returned" <=> phase[id] = "returned"
        /\ Running(id)' <=> Running(id)
        /\ reason'[id] = "cancelled" => reason[id] = "cancelled"
  BY DEF TypeOK, Running
<1> QED BY <1>1, <1>2

LEMMA RequestKeepsRequests ==
  ASSUME TypeOK, RequestsInv, NEW id \in Ids, Request(id)
  PROVE  RequestsInv'
<1> USE DEF Request, RequestArrives, RequestsInv, followVars
<1>1. \A c \in Ids : Running(c)' = Running(c) /\ AbortedAtStart(c)' = AbortedAtStart(c)
  BY DEF Running, AbortedAtStart
<1> QED BY <1>1

LEMMA HandshakeKeepsRequests ==
  ASSUME TypeOK, RequestsInv, Handshake
  PROVE  RequestsInv'
<1> USE DEF Handshake, InitializeArrives, InitializeAnswered, InitializedArrives, handshakeRest,
            RequestsInv, followVars
<1>1. \A c \in Ids : Running(c)' = Running(c) /\ AbortedAtStart(c)' = AbortedAtStart(c)
  BY DEF Running, AbortedAtStart
<1> QED BY <1>1

(* A handler that starts forgets the early cancellation of its own request  *)
(* and of no other.                                                         *)
LEMMA StartKeepsRequests ==
  ASSUME TypeOK, HeadsHaveMax, RequestsInv, NEW id \in Ids, Starts(id)
  PROVE  RequestsInv'
<1> USE DEF HandlerStarts, RequestsInv
<1>1. phase[id] = "idle" /\ phase' = [phase EXCEPT ![id] = phase'[id]]
      /\ reason' = [reason EXCEPT ![id] = reason'[id]] /\ aborted' = aborted \ {id}
  BY StartsCases DEF F!Ends, Waits, TypeOK
<1>2. /\ arrived' = arrived \ {id} /\ sdkAborted' = sdkAborted \ {id}
      /\ inFlight' \subseteq inFlight /\ inFlight \ {id} \subseteq inFlight'
      /\ controllers \subseteq controllers'
      /\ controllers' \subseteq controllers \cup {cancellationKey(id)}
      /\ earlyCancellations' \subseteq earlyCancellations
      /\ earlyCancellations \ {cancellationKey(id)} \subseteq earlyCancellations'
  BY StartsCases
<1>3. \A c \in Ids \ {id} :
        /\ SameCall(c)
        /\ c \in inFlight' <=> c \in inFlight
        /\ c \in arrived' <=> c \in arrived
        /\ AbortedAtStart(c)' <=> AbortedAtStart(c)
        /\ cancellationKey(c) \in controllers' <=> cancellationKey(c) \in controllers
  BY <1>1, <1>2, KeysAreDistinct DEF AbortedAtStart, SameCall, TypeOK
<1>4. /\ phase'[id] \in {"waiting", "returned"}
      /\ Running(id)' => id \notin inFlight' /\ id \notin aborted'
      /\ reason'[id] = "cancelled" => phase'[id] = "returned"
  BY StartsCases DEF F!Ends, Waits, Running, TypeOK
<1>5. arrived' \subseteq Ids /\ sdkAborted' \subseteq arrived' /\ inFlight' \subseteq Ids
  BY <1>2
<1> QED BY <1>2, <1>3, <1>4, <1>5 DEF SameCall, Running

(* A cancellation reaches the call its id names, or is kept for it.         *)
LEMMA CancelKeepsRequests ==
  ASSUME TypeOK, BudgetInv, RequestsInv, NEW id \in Ids, Cancel(id)
  PROVE  RequestsInv'
<1> DEFINE key == cancellationKey(id)
<1> USE DEF RequestsInv
<1>1. /\ sdkAborted' = IF id \in arrived /\ ~IsFalsy(id) THEN sdkAborted \cup {id} ELSE sdkAborted
      /\ earlyCancellations' = IF key \notin controllers /\ HasRoom THEN earlyCancellations \cup {key}
                               ELSE earlyCancellations
      /\ inFlight' = IF Running(id) \/ (id \in arrived /\ (HasRoom \/ ~IsFalsy(id)))
                     THEN inFlight \cup {id} ELSE inFlight
      /\ arrived' = arrived /\ controllers' = controllers
      /\ phase[id] # "idle" \/ id \in arrived
  BY DEF Cancel, CancelArrives, Records
<1>2. /\ \A c \in Ids \ {id} : SameCall(c)
      /\ phase'[id] = IF phase[id] = "waiting" THEN "settled" ELSE phase[id]
      /\ reason'[id] # "cancelled" \/ reason'[id] = reason[id]
      /\ id \in aborted' <=> id \in aborted \/ Running(id)
  <2> DEFINE hit == {c \in Ids : Running(c) /\ cancellationKey(c) = cancellationKey(id)}
  <2>1. hit \subseteq {id} /\ (Running(id) => id \in hit)
    BY KeysAreDistinct
  <2>2. CASE Running(id) /\ F!OnAbort(id)
    BY <2>2 DEF F!OnAbort, F!AbortSettles, F!Settle, SameCall, TypeOK, Running
  <2>3. CASE (Running(id) => id \in aborted) /\ UNCHANGED followVars
    BY <2>3 DEF followVars, SameCall, BudgetInv, TypeOK, Running
  <2> HIDE DEF hit
  <2>4. (\E c \in hit : F!OnAbort(c)) \/ (hit \subseteq aborted /\ UNCHANGED followVars)
    BY DEF Cancel, hit
  <2> QED BY <2>1, <2>2, <2>3, <2>4 DEF hit
<1>3. \A c \in Ids \ {id} :
        /\ c \in inFlight' <=> c \in inFlight
        /\ AbortedAtStart(c)' <=> AbortedAtStart(c)
  BY <1>1, KeysAreDistinct DEF AbortedAtStart
<1>4. phase[id] = "idle" => (id \in inFlight' <=> AbortedAtStart(id)')
  BY <1>1 DEF AbortedAtStart, Running
<1>5. Running(id) => id \in inFlight' /\ id \in aborted'
  BY <1>1, <1>2
<1>6. (Running(id)' <=> Running(id)) /\ (phase'[id] = "idle" <=> phase[id] = "idle")
      /\ (phase'[id] = "returned" <=> phase[id] = "returned")
  BY <1>2 DEF Running, TypeOK
<1>7. arrived' \subseteq Ids /\ sdkAborted' \subseteq arrived' /\ inFlight' \subseteq Ids
  BY <1>1
<1> QED BY <1>1, <1>2, <1>3, <1>4, <1>5, <1>6, <1>7 DEF SameCall, Running

LEMMA ReturnKeepsRequests ==
  ASSUME TypeOK, RequestsInv, NEW id \in Ids, Returns(id)
  PROVE  RequestsInv'
<1> USE DEF Returns, HandlerEnds, F!Resume, RequestsInv
<1>1. /\ phase[id] = "settled" /\ phase'[id] = "returned"
      /\ id \notin arrived'
      /\ arrived' \subseteq Ids /\ sdkAborted' \subseteq arrived' /\ inFlight' \subseteq Ids
  BY DEF TypeOK
<1>2. \A c \in Ids \ {id} :
        /\ SameCall(c)
        /\ c \in inFlight' <=> c \in inFlight
        /\ c \in arrived' <=> c \in arrived
        /\ AbortedAtStart(c)' <=> AbortedAtStart(c)
        /\ cancellationKey(c) \in controllers' <=> cancellationKey(c) \in controllers
  BY KeysAreDistinct DEF AbortedAtStart, SameCall, TypeOK
<1> QED BY <1>1, <1>2 DEF SameCall, Running

-----------------------------------------------------------------------------
(* Theorems.                                                                *)

LEMMA StepIsSound == IInv /\ [Next]_vars => IInv'
<1> SUFFICES ASSUME IInv, [Next]_vars PROVE IInv'
  OBVIOUS
<1>1. /\ TypeOK /\ HeadsHaveMax /\ BudgetInv /\ RequestsInv /\ CallInv
      /\ (CallInv' /\ RequestsInv' => IInv')
  BY DEF IInv, CallInv
<1>2. ASSUME UNCHANGED followVars PROVE CallInv'
  BY <1>1, <1>2 DEF followVars, CallInv, TypeOK, HeadsHaveMax, BudgetInv, Holds, Running,
     NoLostWakeup, F!currentHeadSeq
<1>3. ASSUME NEW id \in Ids, Request(id) PROVE IInv'
  BY <1>1, <1>2, <1>3, RequestKeepsRequests DEF Request
<1>4. ASSUME NEW id \in Ids, Cancel(id) PROVE IInv'
  <2>1. CallInv'
    BY <1>1, <1>2, <1>4, AbortKeeps DEF Cancel
  <2> QED BY <1>1, <1>4, <2>1, CancelKeepsRequests
<1>5. ASSUME NEW id \in Ids, Starts(id) PROVE IInv'
  <2>1. CallInv'
    BY <1>1, <1>5, StartsCases, EndsKeeps, WaitsKeeps
  <2> QED BY <1>1, <1>5, <2>1, StartKeepsRequests
<1>6. CASE Handshake
  BY <1>1, <1>2, <1>6, HandshakeKeepsRequests DEF Handshake
<1>7. CASE JobGoesOn
  <2>1. UNCHANGED requestVars
    BY <1>7 DEF JobGoesOn
  <2>2. ASSUME F!JobTerminal PROVE IInv'
    BY <1>1, <2>1, <2>2, TerminalKeeps, SettlingKeepsRequests DEF F!JobTerminal
  <2>3. ASSUME NEW s \in Streams, F!LineArrives(s) PROVE IInv'
    BY <1>1, <2>1, <2>3, LineKeeps, SettlingKeepsRequests DEF F!LineArrives
  <2> QED BY <1>7, <2>2, <2>3 DEF JobGoesOn
<1>8. ASSUME NEW id \in Ids, Returns(id) PROVE IInv'
  BY <1>1, <1>8, ResumeKeeps, ReturnKeepsRequests DEF Returns
<1>9. ASSUME NEW id \in Ids, TimesOut(id) PROVE IInv'
  BY <1>1, <1>9, TimeoutKeeps, SettlingKeepsRequests DEF TimesOut, F!Timeout
<1>10. CASE UNCHANGED vars
  <2>1. UNCHANGED followVars /\ UNCHANGED requestVars
    BY <1>10 DEF vars
  <2>2. RequestsInv'
    BY <1>1, <2>1 DEF followVars, requestVars, RequestsInv, Running, AbortedAtStart
  <2> QED BY <1>1, <1>2, <2>1, <2>2
<1> QED BY <1>3, <1>4, <1>5, <1>6, <1>7, <1>8, <1>9, <1>10 DEF Next

(* Every reachable state of a session is well typed.                        *)
THEOREM TypeCorrect == Spec => []TypeOK
<1>1. IInv => TypeOK
  BY DEF IInv
<1> QED BY <1>1, InitIsSound, StepIsSound, PTL DEF Spec

(* For any set of request ids, any streams and any budget: a follow call    *)
(* that waits has nothing it should have woken for, the count of the store  *)
(* is the number of calls that hold a place, and a call that returned left  *)
(* no listener and no timer (followHandler, awaitFollowChange).             *)
THEOREM FollowsStaySound == Spec => []FollowsAreSound
<1>1. IInv => FollowsAreSound
  BY DEF IInv, FollowsAreSound, BudgetIsSound, BudgetInv, Holds
<1> QED BY <1>1, InitIsSound, StepIsSound, PTL DEF Spec

(* A call ends as cancelled exactly if its request was cancelled before it  *)
(* was answered, whatever the id and however early the cancellation came    *)
(* (CancellationTracker and followHandler's abort).                         *)
THEOREM CancellationsReachTheirCalls == Spec => CancelledIsCancelled
<1> DEFINE Told == \A id \in Ids :
      phase[id] # "returned" /\ phase'[id] = "returned" /\ isInitializedForToolCalls
        => (reason'[id] = "cancelled" <=> id \in inFlight)
<1>1. IInv /\ [Next]_vars => [Told]_vars
  <2>1. SUFFICES ASSUME IInv, Next, NEW id \in Ids, phase[id] # "returned",
                        phase'[id] = "returned", isInitializedForToolCalls
                 PROVE  reason'[id] = "cancelled" <=> id \in inFlight
    OBVIOUS
  <2>2. TypeOK /\ HeadsHaveMax /\ RequestsInv
    BY <2>1 DEF IInv
  <2>4. CASE UNCHANGED followVars
    BY <2>1, <2>4 DEF followVars
  <2>5. ASSUME NEW c \in Ids, Starts(c)
        PROVE  reason'[id] = "cancelled" <=> id \in inFlight
    <3>1. phase[c] = "idle"
      BY <2>2, <2>5, StartsCases
    <3>2. CASE \E why \in Reasons \ {"none", "timeout"} :
                 F!Ends(c, why) /\ (why = "cancelled" <=> AbortedAtStart(c))
      <4>1. PICK why : F!Ends(c, why) /\ (why = "cancelled" <=> AbortedAtStart(c))
        BY <3>2
      <4>2. c = id /\ reason'[id] = why
        BY <2>1, <2>2, <4>1 DEF F!Ends, TypeOK
      <4> QED BY <2>2, <3>1, <4>1, <4>2 DEF RequestsInv
    <3>3. CASE \E sel, after : Waits(c, sel, after)
      BY <2>1, <2>2, <3>3 DEF Waits, TypeOK
    <3> QED BY <2>1, <2>2, <2>5, <3>2, <3>3, StartsCases
  <2>6. ASSUME NEW c \in Ids, F!Resume(c)
        PROVE  reason'[id] = "cancelled" <=> id \in inFlight
    BY <2>1, <2>2, <2>6 DEF F!Resume, TypeOK, RequestsInv, Running
  <2>7. ASSUME NEW set, NEW why, F!Settle(set, why)
        PROVE  FALSE
    BY <2>1, <2>7 DEF F!Settle
  <2>8. ASSUME NEW c \in Ids, Cancel(c)
        PROVE  reason'[id] = "cancelled" <=> id \in inFlight
    BY <2>4, <2>7, <2>8 DEF Cancel, F!OnAbort, F!AbortSettles
  <2>9. CASE JobGoesOn
    BY <2>7, <2>9 DEF JobGoesOn, F!JobTerminal, F!LineArrives
  <2> QED BY <2>1, <2>4, <2>5, <2>6, <2>7, <2>8, <2>9
          DEF Next, Request, Handshake, Returns, TimesOut, F!Timeout
<1> QED BY <1>1, InitIsSound, StepIsSound, PTL DEF Spec, CancelledIsCancelled

-----------------------------------------------------------------------------
(* The lines on the wire: sequences and orders.                             *)

(* A sequence is one over whatever set holds its elements.                  *)
LEMMA ElementsMakeSeq ==
  ASSUME NEW T, NEW a \in Seq(T), NEW S, \A i \in 1 .. Len(a) : a[i] \in S
  PROVE  a \in Seq(S)
<1>1. Len(a) \in Nat OBVIOUS
<1>2. DOMAIN a = 1 .. Len(a) OBVIOUS
<1>3. a = [i \in 1 .. Len(a) |-> a[i]] BY <1>1, <1>2
<1> DEFINE n == Len(a)
<1> HIDE DEF n
<1>4. [i \in 1 .. n |-> a[i]] \in Seq(S) BY <1>1 DEF n
<1> QED BY <1>3, <1>4 DEF n

Upto(S, q) == {p \in S : p <= q}

Increasing(a) == \A i, j \in 1 .. Len(a) : i < j => a[i] < a[j]

Shown(a, q) == \E i \in 1 .. Len(a) : a[i] = q

LEMMA SameElements ==
  ASSUME NEW T, NEW a \in Seq(T), NEW b \in Seq(T), Len(a) = Len(b),
         \A i \in 1 .. Len(a) : a[i] = b[i]
  PROVE  a = b
OBVIOUS

(* What is left of a sequence after its n-th element, and what came before. *)
LEMMA TailOfSeq ==
  ASSUME NEW T, NEW a \in Seq(T), NEW n \in Nat, n <= Len(a)
  PROVE  LET b == SubSeq(a, n + 1, Len(a))
         IN  /\ b \in Seq(T) /\ Len(b) = Len(a) - n
             /\ \A i \in 1 .. Len(a) - n : b[i] = a[n + i]
<1> DEFINE m == n + 1
<1>1. /\ m \in 1 .. Len(a) + 1 /\ Len(a) \in m - 1 .. Len(a) /\ Len(a) - m + 1 = Len(a) - n
      /\ \A i \in 1 .. Len(a) - n : m + i - 1 = n + i
  OBVIOUS
<1> HIDE DEF m
<1>2. /\ SubSeq(a, m, Len(a)) \in Seq(T) /\ Len(SubSeq(a, m, Len(a))) = Len(a) - m + 1
      /\ \A i \in 1 .. Len(a) - m + 1 : SubSeq(a, m, Len(a))[i] = a[m + i - 1]
  BY <1>1, SubSeqProperties
<1>3. /\ SubSeq(a, m, Len(a)) \in Seq(T) /\ Len(SubSeq(a, m, Len(a))) = Len(a) - n
      /\ \A i \in 1 .. Len(a) - n : SubSeq(a, m, Len(a))[i] = a[n + i]
  BY <1>1, <1>2
<1> QED BY <1>3 DEF m

(* A number is the i-th of a finite set for exactly one i.                  *)
LEMMA RanksAreExact ==
  ASSUME NEW S \in SUBSET Nat, IsFiniteSet(S)
  PROVE  /\ Cardinality(S) \in Nat
         /\ \A q \in S : Cardinality(Upto(S, q)) \in 1 .. Cardinality(S)
         /\ \A p, q \in S : p < q => Cardinality(Upto(S, p)) < Cardinality(Upto(S, q))
         /\ \A i \in 1 .. Cardinality(S) : \E q \in S : Cardinality(Upto(S, q)) = i
<1> DEFINE n == Cardinality(S)
           f == [q \in S |-> Cardinality(Upto(S, q))]
<1>1. n \in Nat BY FS_CardinalityType
<1>2. ASSUME NEW q \in S PROVE IsFiniteSet(Upto(S, q)) /\ Cardinality(Upto(S, q)) \in 1 .. n
  <2>1. Upto(S, q) \in SUBSET S /\ q \in Upto(S, q) BY DEF Upto
  <2>2. IsFiniteSet(Upto(S, q)) /\ Cardinality(Upto(S, q)) <= n BY <2>1, FS_Subset
  <2>3. Cardinality(Upto(S, q)) \in Nat /\ Cardinality(Upto(S, q)) # 0
    BY <2>1, <2>2, FS_CardinalityType, FS_EmptySet
  <2> QED BY <1>1, <2>2, <2>3
<1>3. ASSUME NEW p \in S, NEW q \in S, p < q PROVE Cardinality(Upto(S, p)) < Cardinality(Upto(S, q))
  <2>1. Upto(S, p) \in SUBSET Upto(S, q) /\ q \in Upto(S, q) /\ q \notin Upto(S, p)
    <3>1. p \in Nat /\ q \in Nat OBVIOUS
    <3>2. ASSUME NEW x \in S, x <= p PROVE x <= q
      <4>1. x \in Nat OBVIOUS
      <4> QED BY <1>3, <3>1, <3>2, <4>1
    <3>3. ~(q <= p) /\ q <= q BY <1>3, <3>1
    <3> QED BY <3>2, <3>3 DEF Upto
  <2>2. /\ Cardinality(Upto(S, p)) <= Cardinality(Upto(S, q))
        /\ Cardinality(Upto(S, q)) = Cardinality(Upto(S, p)) => Upto(S, q) = Upto(S, p)
    BY <1>2, <2>1, FS_Subset
  <2>3. Cardinality(Upto(S, p)) \in Nat /\ Cardinality(Upto(S, q)) \in Nat BY <1>1, <1>2
  <2> QED BY <2>1, <2>2, <2>3
<1>4. f \in Injection(S, 1 .. n)
  <2>1. f \in [S -> 1 .. n] BY <1>2
  <2>2. ASSUME NEW p \in S, NEW q \in S, f[p] = f[q] PROVE p = q
    <3>1. Cardinality(Upto(S, p)) = Cardinality(Upto(S, q)) BY <2>2
    <3>2. ~(p < q) /\ ~(q < p) BY <1>1, <1>2, <1>3, <3>1
    <3> QED BY <3>2
  <2> QED BY <2>1, <2>2 DEF Injection, IsInjective
<1>5. IsFiniteSet(1 .. n) /\ Cardinality(1 .. n) = n BY <1>1, FS_Interval
<1>6. f \in Surjection(S, 1 .. n) BY <1>4, <1>5, FS_Injection
<1>7. ASSUME NEW i \in 1 .. n PROVE \E q \in S : Cardinality(Upto(S, q)) = i
  BY <1>6 DEF Surjection
<1> QED BY <1>1, <1>2, <1>3, <1>7

(* Ascending gives the numbers of a set, each once and in order.            *)
LEMMA AscendingIsOrder ==
  ASSUME NEW S \in SUBSET Nat, IsFiniteSet(S)
  PROVE  /\ Ascending(S) \in Seq(S)
         /\ Increasing(Ascending(S)) /\ \A q \in S : Shown(Ascending(S), q)
<1> DEFINE n == Cardinality(S)
           at(i) == CHOOSE q \in S : Cardinality({p \in S : p <= q}) = i
<1>1. /\ n \in Nat
      /\ \A q \in S : Cardinality(Upto(S, q)) \in 1 .. n
      /\ \A p, q \in S : p < q => Cardinality(Upto(S, p)) < Cardinality(Upto(S, q))
      /\ \A i \in 1 .. n : \E q \in S : Cardinality(Upto(S, q)) = i
  BY RanksAreExact
<1>2. ASSUME NEW i \in 1 .. n PROVE at(i) \in S /\ Cardinality(Upto(S, at(i))) = i
  <2>1. \E q \in S : Cardinality({p \in S : p <= q}) = i BY <1>1 DEF Upto
  <2> QED BY <2>1 DEF Upto
<1>3. Ascending(S) = [i \in 1 .. n |-> at(i)] BY DEF Ascending
<1> HIDE DEF n, at
<1>4. Ascending(S) \in Seq(S) /\ Len(Ascending(S)) = n /\ \A i \in 1 .. n : Ascending(S)[i] = at(i)
  BY <1>1, <1>2, <1>3
<1>5. ASSUME NEW p \in S, NEW q \in S, Cardinality(Upto(S, p)) = Cardinality(Upto(S, q)) PROVE p = q
  <2>1. ~(p < q) /\ ~(q < p) BY <1>1, <1>5
  <2> QED BY <2>1
<1>6. ASSUME NEW i \in 1 .. n, NEW j \in 1 .. n, i < j PROVE at(i) < at(j)
  <2>1. /\ at(i) \in S /\ at(j) \in S /\ Cardinality(Upto(S, at(i))) = i
        /\ Cardinality(Upto(S, at(j))) = j
    BY <1>2
  <2>2. i \in Nat /\ j \in Nat /\ i # j /\ ~(j < i) BY <1>1, <1>6
  <2>3. at(i) # at(j) BY <2>1, <2>2
  <2>4. ~(at(j) < at(i)) BY <1>1, <2>1, <2>2
  <2>5. at(i) \in Nat /\ at(j) \in Nat BY <2>1
  <2> QED BY <2>3, <2>4, <2>5
<1>7. ASSUME NEW q \in S PROVE \E i \in 1 .. n : at(i) = q
  <2>1. Cardinality(Upto(S, q)) \in 1 .. n BY <1>1
  <2>2. at(Cardinality(Upto(S, q))) = q BY <1>2, <1>5, <2>1
  <2> QED BY <2>1, <2>2
<1> QED BY <1>4, <1>6, <1>7 DEF Increasing, Shown

-----------------------------------------------------------------------------
(* The text of a client.                                                    *)

Fragment  == Nat \X Nat
LineNo(k) == << <<k, 1>>, <<k, 2>> >>

LEMMA ScriptsAreSequences ==
  ASSUME script \in Scripts
  PROVE  /\ Len(script) \in Nat /\ DOMAIN script = 1 .. Len(script)
         /\ \A k \in 1 .. Len(script) :
              /\ script[k].kind \in {"request", "notification", "garbage", "bad"}
              /\ script[k].kind \in {"request", "notification"} => script[k].era \in {"modern", "legacy"}
              /\ script[k].kind = "request" => script[k].id # Null
         /\ \A i \in 1 .. Len(script), j \in 1 .. Len(script) :
              /\ script[i].kind = "request" /\ script[j].kind = "request"
              /\ script[i].id = script[j].id
              => i = j
<1>1. script \in Seq({script[i] : i \in DOMAIN script}) BY ScriptsAssumption
<1>2. Len(script) \in Nat /\ DOMAIN script = 1 .. Len(script) BY <1>1
<1> QED BY <1>2, ScriptsAssumption

LEMMA TextOfScript ==
  ASSUME script \in Scripts
  PROVE  /\ Text \in Seq(Fragment) /\ Len(Text) = 3 * Len(script)
         /\ \A k \in 1 .. Len(script) :
              /\ 3 * k - 2 \in 1 .. Len(Text) /\ Text[3 * k - 2] = <<k, 1>>
              /\ 3 * k - 1 \in 1 .. Len(Text) /\ Text[3 * k - 1] = <<k, 2>>
              /\ 3 * k \in 1 .. Len(Text) /\ Text[3 * k] = Newline
         /\ \A i \in 1 .. Len(Text) : Text[i] = Newline => i % 3 = 0
<1> DEFINE L == Len(script)
           at(i) == Fragments((i + 2) \div 3)[((i + 2) % 3) + 1]
<1>1. L \in Nat BY ScriptsAreSequences
<1>2. Text = [i \in 1 .. 3 * L |-> at(i)] BY DEF Text
<1>3. ASSUME NEW k \in Nat
      PROVE  /\ Fragments(k)[1] = <<k, 1>> /\ Fragments(k)[2] = <<k, 2>>
             /\ Fragments(k)[3] = Newline /\ \A x \in 1 .. 3 : Fragments(k)[x] \in Fragment
  BY DEF Fragments, Newline, Fragment
<1>4. ASSUME NEW i \in 1 .. 3 * L
      PROVE  (i + 2) \div 3 \in Nat /\ (i + 2) % 3 \in 0 .. 2 /\ i \in Nat /\ (i + 2) \div 3 >= 1
  BY <1>1
<1>5. ASSUME NEW i \in 1 .. 3 * L PROVE at(i) \in Fragment
  <2>1. ((i + 2) % 3) + 1 \in 1 .. 3 BY <1>4
  <2> QED BY <1>3, <1>4, <2>1
<1>6. 3 * L \in Nat BY <1>1
<1> HIDE DEF at, L
<1>7. Text \in Seq(Fragment) /\ Len(Text) = 3 * L /\ \A i \in 1 .. 3 * L : Text[i] = at(i)
  BY <1>2, <1>5, <1>6
<1>8. ASSUME NEW k \in 1 .. L
      PROVE  /\ 3 * k - 2 \in 1 .. 3 * L /\ Text[3 * k - 2] = <<k, 1>>
             /\ 3 * k - 1 \in 1 .. 3 * L /\ Text[3 * k - 1] = <<k, 2>>
             /\ 3 * k \in 1 .. 3 * L /\ Text[3 * k] = Newline
  <2>1. /\ k \in Nat
        /\ 3 * k - 2 \in 1 .. 3 * L /\ 3 * k - 1 \in 1 .. 3 * L /\ 3 * k \in 1 .. 3 * L
    BY <1>1
  <2>2. /\ ((3 * k - 2) + 2) \div 3 = k /\ (((3 * k - 2) + 2) % 3) + 1 = 1
        /\ ((3 * k - 1) + 2) \div 3 = k /\ (((3 * k - 1) + 2) % 3) + 1 = 2
        /\ ((3 * k) + 2) \div 3 = k /\ (((3 * k) + 2) % 3) + 1 = 3
    BY <2>1
  <2>3. at(3 * k - 2) = Fragments(k)[1] /\ at(3 * k - 1) = Fragments(k)[2] /\ at(3 * k) = Fragments(k)[3]
    BY <2>2 DEF at
  <2> QED BY <1>3, <1>7, <2>1, <2>3
<1>9. ASSUME NEW i \in 1 .. 3 * L, Text[i] = Newline PROVE i % 3 = 0
  <2> DEFINE k == (i + 2) \div 3
             x == (i + 2) % 3
  <2>1. k \in Nat /\ k >= 1 /\ x \in 0 .. 2 /\ i \in Nat BY <1>4 DEF L
  <2>2. x = 2 => i % 3 = 0 BY <2>1
  <2>3. Fragments(k)[x + 1] = Newline BY <1>7, <1>9 DEF at
  <2> HIDE DEF k, x
  <2>4. x # 0 /\ x # 1
    <3>1. <<k, 1>> # Newline /\ <<k, 2>> # Newline BY <2>1 DEF Newline
    <3>2. Fragments(k)[0 + 1] = <<k, 1>> /\ Fragments(k)[1 + 1] = <<k, 2>> BY <1>3, <2>1
    <3> QED BY <2>3, <3>1, <3>2
  <2> QED BY <2>1, <2>2, <2>4
<1> QED BY <1>7, <1>8, <1>9 DEF L

(* The i-th newline of a text of whole lines is at 3 * i.                   *)
LEMMA EndsOfLines ==
  ASSUME NEW m \in Nat
  PROVE  LET ends == Ascending({3 * k : k \in 1 .. m})
         IN  ends \in Seq(Nat) /\ Len(ends) = m /\ \A k \in 1 .. m : ends[k] = 3 * k
<1> DEFINE S == {3 * k : k \in 1 .. m}
<1>1. ASSUME NEW n \in 0 .. m
      PROVE  IsFiniteSet({3 * k : k \in 1 .. n}) /\ Cardinality({3 * k : k \in 1 .. n}) = n
  <2> DEFINE T == {3 * k : k \in 1 .. n}
             f == [k \in 1 .. n |-> 3 * k]
  <2>1. IsFiniteSet(1 .. n) /\ Cardinality(1 .. n) = n BY FS_Interval
  <2>2. f \in Surjection(1 .. n, T) BY DEF Surjection
  <2>3. \A i \in 1 .. n, j \in 1 .. n : 3 * i = 3 * j => i = j OBVIOUS
  <2>4. f \in Injection(1 .. n, T) BY <2>3 DEF Injection, IsInjective
  <2>5. ExistsBijection(1 .. n, T) BY <2>2, <2>4 DEF ExistsBijection, Bijection
  <2> HIDE DEF T
  <2>6. IsFiniteSet(T) /\ Cardinality(T) = n BY <2>1, <2>5, FS_Bijection
  <2> QED BY <2>6 DEF T
<1>2. S \in SUBSET Nat /\ IsFiniteSet(S) /\ Cardinality(S) = m
  <2>1. m \in 0 .. m OBVIOUS
  <2>2. S \in SUBSET Nat OBVIOUS
  <2> QED BY <1>1, <2>1, <2>2
<1>3. ASSUME NEW i \in 1 .. m PROVE 3 * i \in S /\ Cardinality(Upto(S, 3 * i)) = i
  <2>1. Upto(S, 3 * i) = {3 * k : k \in 1 .. i}
    <3>1. \A k \in 1 .. m : 3 * k <= 3 * i <=> k \in 1 .. i OBVIOUS
    <3>2. 1 .. i \subseteq 1 .. m OBVIOUS
    <3> QED BY <3>1, <3>2 DEF Upto
  <2>2. i \in 0 .. m OBVIOUS
  <2>3. Cardinality({3 * k : k \in 1 .. i}) = i BY <1>1, <2>2
  <2>4. 3 * i \in S OBVIOUS
  <2> QED BY <2>1, <2>3, <2>4
<1>4. /\ Ascending(S) \in Seq(S) /\ Len(Ascending(S)) = m
      /\ \A i \in 1 .. m : Ascending(S)[i] = CHOOSE q \in S : Cardinality(Upto(S, q)) = i
  <2> HIDE DEF S
  <2>1. Ascending(S) \in Seq(S) BY <1>2, AscendingIsOrder
  <2>2. Ascending(S) = [i \in 1 .. m |-> CHOOSE q \in S : Cardinality(Upto(S, q)) = i]
    BY <1>2 DEF Ascending, Upto
  <2> QED BY <2>1, <2>2
<1>5. ASSUME NEW i \in 1 .. m PROVE Ascending(S)[i] = 3 * i
  <2>1. ASSUME NEW q \in S, Cardinality(Upto(S, q)) = i PROVE q = 3 * i
    <3>1. PICK k \in 1 .. m : q = 3 * k OBVIOUS
    <3>2. Cardinality(Upto(S, 3 * k)) = k BY <1>3
    <3> QED BY <2>1, <3>1, <3>2
  <2>2. (CHOOSE q \in S : Cardinality(Upto(S, q)) = i) = 3 * i
    <3> HIDE DEF S
    <3> QED BY <1>3, <2>1
  <2> QED BY <1>4, <2>2
<1>6. Ascending(S) \in Seq(Nat)
  <2> HIDE DEF S
  <2>1. \A i \in 1 .. Len(Ascending(S)) : Ascending(S)[i] \in Nat
    <3>1. \A i \in 1 .. m : 3 * i \in Nat OBVIOUS
    <3>2. \A i \in 1 .. m : Ascending(S)[i] \in Nat BY <1>5, <3>1
    <3> QED BY <1>4, <3>2
  <2> QED BY <1>4, <2>1, ElementsMakeSeq
<1> HIDE DEF S
<1>7. Ascending(S) \in Seq(Nat) /\ Len(Ascending(S)) = m /\ \A k \in 1 .. m : Ascending(S)[k] = 3 * k
  BY <1>4, <1>5, <1>6
<1> QED BY <1>7 DEF S

LEMMA PairOfSeq ==
  ASSUME NEW T, NEW a \in Seq(T), NEW n \in 1 .. Len(a) - 1
  PROVE  SubSeq(a, n, n + 1) = <<a[n], a[n + 1]>>
<1> DEFINE b == SubSeq(a, n, n + 1)
           c == <<a[n], a[n + 1]>>
           m == n + 1
<1>1. /\ n \in 1 .. Len(a) + 1 /\ m \in n - 1 .. Len(a) /\ m - n + 1 = 2
      /\ n + 1 - 1 = n /\ n + 2 - 1 = n + 1 /\ n \in 1 .. Len(a) /\ n + 1 \in 1 .. Len(a)
  OBVIOUS
<1> HIDE DEF m
<1>2. /\ SubSeq(a, n, m) \in Seq(T) /\ Len(SubSeq(a, n, m)) = m - n + 1
      /\ \A i \in 1 .. m - n + 1 : SubSeq(a, n, m)[i] = a[n + i - 1]
  BY <1>1, SubSeqProperties
<1>3. b \in Seq(T) /\ Len(b) = 2 /\ b[1] = a[n] /\ b[2] = a[n + 1]
  <2>1. 1 \in 1 .. m - n + 1 /\ 2 \in 1 .. m - n + 1 BY <1>1
  <2>2. SubSeq(a, n, m)[1] = a[n + 1 - 1] /\ SubSeq(a, n, m)[2] = a[n + 2 - 1] BY <1>2, <2>1
  <2>3. b = SubSeq(a, n, m) BY DEF m
  <2> HIDE DEF b
  <2> QED BY <1>1, <1>2, <2>2, <2>3
<1>4. c \in Seq(T) /\ Len(c) = 2 /\ c[1] = a[n] /\ c[2] = a[n + 1]
  <2>1. a[n] \in T /\ a[n + 1] \in T BY <1>1
  <2> QED BY <2>1
<1> HIDE DEF b, c
<1>5. \A i \in 1 .. Len(b) : b[i] = c[i]
  <2>1. \A i \in 1 .. Len(b) : i = 1 \/ i = 2 BY <1>3
  <2> QED BY <1>3, <1>4, <2>1
<1>6. b = c BY <1>3, <1>4, <1>5, SameElements
<1> QED BY <1>6 DEF b, c

(* A piece of the text that begins where a line begins is cut into just the *)
(* lines that are whole in it, and what is left begins the next.            *)
LEMMA CutsAreLines ==
  ASSUME script \in Scripts, NEW b \in Nat, NEW m \in Nat, NEW c \in 0 .. 2,
         NEW text \in Seq(Fragment), Len(text) = 3 * m + c,
         3 * b + 3 * m + c <= 3 * Len(script),
         \A i \in 1 .. Len(text) : text[i] = Text[3 * b + i]
  PROVE  /\ LinesOf(text) = [k \in 1 .. m |-> LineNo(b + k)]
         /\ LeftOver(text) \in Seq(Fragment) /\ Len(LeftOver(text)) = c
         /\ \A i \in 1 .. c : LeftOver(text)[i] = Text[3 * (b + m) + i]
<1> DEFINE L == Len(script)
<1>1. /\ L \in Nat /\ Text \in Seq(Fragment) /\ Len(Text) = 3 * L
      /\ \A k \in 1 .. L :
           Text[3 * k - 2] = <<k, 1>> /\ Text[3 * k - 1] = <<k, 2>> /\ Text[3 * k] = Newline
      /\ \A i \in 1 .. 3 * L : Text[i] = Newline => i % 3 = 0
  BY TextOfScript, ScriptsAreSequences
<1> HIDE DEF L
<1>2. 3 * b + 3 * m + c <= 3 * L BY DEF L
<1>3. ASSUME NEW k \in 1 .. m
      PROVE  /\ 3 * k - 2 \in 1 .. Len(text) - 1 /\ text[3 * k - 2] = <<b + k, 1>>
             /\ 3 * k - 1 \in 1 .. Len(text) /\ text[3 * k - 1] = <<b + k, 2>>
             /\ 3 * k \in 1 .. Len(text) /\ text[3 * k] = Newline
  <2>1. /\ 3 * k - 2 \in 1 .. Len(text) - 1 /\ 3 * k - 1 \in 1 .. Len(text) /\ 3 * k \in 1 .. Len(text)
        /\ 3 * k - 2 \in 1 .. Len(text)
    <3> DEFINE n == Len(text)
    <3>1. n = 3 * m + c OBVIOUS
    <3> HIDE DEF n
    <3>2. /\ 3 * k - 2 \in 1 .. n - 1 /\ 3 * k - 1 \in 1 .. n /\ 3 * k \in 1 .. n
          /\ 3 * k - 2 \in 1 .. n
      BY <3>1
    <3> QED BY <3>2 DEF n
  <2>2. b + k \in 1 .. L BY <1>1, <1>2
  <2>3. /\ 3 * b + (3 * k - 2) = 3 * (b + k) - 2 /\ 3 * b + (3 * k - 1) = 3 * (b + k) - 1
        /\ 3 * b + 3 * k = 3 * (b + k)
    OBVIOUS
  <2>4. /\ text[3 * k - 2] = Text[3 * (b + k) - 2] /\ text[3 * k - 1] = Text[3 * (b + k) - 1]
        /\ text[3 * k] = Text[3 * (b + k)]
    BY <2>1, <2>3
  <2> QED BY <1>1, <2>1, <2>2, <2>4
<1>4. NewlineIn(text) = {3 * k : k \in 1 .. m}
  <2>1. ASSUME NEW i \in DOMAIN text, text[i] = Newline PROVE \E k \in 1 .. m : i = 3 * k
    <3>1. i \in 1 .. Len(text) OBVIOUS
    <3>2. 3 * b + i \in 1 .. 3 * L /\ Text[3 * b + i] = Newline
      <4>1. i \in Nat /\ 1 <= i /\ i <= 3 * m + c BY <3>1
      <4>2. 3 * b + i \in 1 .. 3 * L BY <1>1, <1>2, <4>1
      <4> QED BY <2>1, <3>1, <4>2
    <3>3. (3 * b + i) % 3 = 0 BY <1>1, <3>2
    <3>4. i = 3 * (i \div 3) /\ i \div 3 \in 1 .. m
      <4>1. i \in Nat /\ 1 <= i /\ i <= 3 * m + c BY <3>1
      <4>2. i % 3 = 0 BY <3>3, <4>1
      <4>3. i = 3 * (i \div 3) /\ i \div 3 \in Nat BY <4>1, <4>2
      <4> QED BY <4>1, <4>3
    <3> QED BY <3>4
  <2>2. ASSUME NEW k \in 1 .. m PROVE 3 * k \in DOMAIN text /\ text[3 * k] = Newline BY <1>3
  <2> QED BY <2>1, <2>2 DEF NewlineIn
<1>5. LinesOf(text) = [k \in 1 .. m |-> LineNo(b + k)]
  <2> DEFINE ends == Ascending(NewlineIn(text))
             from(k) == IF k = 1 THEN 1 ELSE ends[k - 1] + 1
  <2>1. ends \in Seq(Nat) /\ Len(ends) = m /\ \A k \in 1 .. m : ends[k] = 3 * k
    BY <1>4, EndsOfLines
  <2>2. LinesOf(text) = [k \in DOMAIN ends |-> SubSeq(text, from(k), ends[k] - 1)] BY DEF LinesOf
  <2> HIDE DEF ends
  <2>3. DOMAIN ends = 1 .. m BY <2>1
  <2>4. ASSUME NEW k \in 1 .. m PROVE SubSeq(text, from(k), ends[k] - 1) = LineNo(b + k)
    <3>1. from(k) = 3 * k - 2
      <4>1. CASE k = 1 BY <4>1
      <4>2. CASE k # 1
        <5>1. k - 1 \in 1 .. m BY <4>2
        <5> QED BY <2>1, <4>2, <5>1
      <4> QED BY <4>1, <4>2
    <3>2. ends[k] - 1 = (3 * k - 2) + 1 BY <2>1
    <3>3. SubSeq(text, 3 * k - 2, (3 * k - 2) + 1) = <<text[3 * k - 2], text[(3 * k - 2) + 1]>>
      BY <1>3, PairOfSeq
    <3>4. (3 * k - 2) + 1 = 3 * k - 1 OBVIOUS
    <3> QED BY <1>3, <3>1, <3>2, <3>3, <3>4 DEF LineNo
  <2> QED BY <2>2, <2>3, <2>4
<1>6. LeftOver(text) = SubSeq(text, 3 * m + 1, Len(text))
  <2>1. CASE m = 0
    <3>1. NewlineIn(text) = {} BY <1>4, <2>1
    <3> QED BY <2>1, <3>1 DEF LeftOver
  <2>2. CASE m # 0
    <3>1. 3 * m \in NewlineIn(text) /\ NewlineIn(text) # {}
      <4>1. m \in 1 .. m BY <2>2
      <4> QED BY <1>4, <4>1
    <3>2. \A j \in NewlineIn(text) : j <= 3 * m /\ j \in Nat BY <1>4
    <3>3. ASSUME NEW i \in NewlineIn(text), \A j \in NewlineIn(text) : j <= i PROVE i = 3 * m
      BY <3>1, <3>2, <3>3
    <3>4. (CHOOSE i \in NewlineIn(text) : \A j \in NewlineIn(text) : j <= i) = 3 * m
      BY <3>1, <3>2, <3>3
    <3> QED BY <3>1, <3>4 DEF LeftOver
  <2> QED BY <2>1, <2>2
<1>7. LET rest == SubSeq(text, 3 * m + 1, Len(text))
      IN  /\ rest \in Seq(Fragment) /\ Len(rest) = c
          /\ \A i \in 1 .. c : rest[i] = text[3 * m + i]
  <2>1. 3 * m \in Nat /\ 3 * m <= Len(text) /\ Len(text) - 3 * m = c OBVIOUS
  <2> DEFINE n == 3 * m
  <2> HIDE DEF n
  <2>2. n \in Nat /\ n <= Len(text) /\ Len(text) - n = c BY <2>1 DEF n
  <2>3. LET rest == SubSeq(text, n + 1, Len(text))
        IN  /\ rest \in Seq(Fragment) /\ Len(rest) = Len(text) - n
            /\ \A i \in 1 .. Len(text) - n : rest[i] = text[n + i]
    BY <2>2, TailOfSeq
  <2>4. LET rest == SubSeq(text, n + 1, Len(text))
        IN  /\ rest \in Seq(Fragment) /\ Len(rest) = c
            /\ \A i \in 1 .. c : rest[i] = text[n + i]
    BY <2>2, <2>3
  <2> QED BY <2>4 DEF n
<1>8. ASSUME NEW i \in 1 .. c PROVE text[3 * m + i] = Text[3 * (b + m) + i]
  <2>1. 3 * m + i \in 1 .. Len(text) /\ 3 * b + (3 * m + i) = 3 * (b + m) + i OBVIOUS
  <2> QED BY <2>1
<1> QED BY <1>5, <1>6, <1>7, <1>8

(* A line of the text is the message of the script with its number.         *)
LEMMA LinesAreMessages ==
  ASSUME NEW k \in Nat
  PROVE  MessageOf(LineNo(k)) = script[k] /\ LineNo(k)[1][1] = k
BY DEF MessageOf, LineNo

-----------------------------------------------------------------------------
(* The invariant of the wire.                                               *)

Read        == typed - Len(pipe)
Done        == Read \div 3          \* the lines read to their newline
NumberOf(l) == l[1][1]

(* The pipe is what the client typed and the server has not read, and the   *)
(* buffer the piece of a line read last.                                    *)
ReadInv ==
  /\ script \in Scripts /\ typed \in Nat /\ typed <= 3 * Len(script)
  /\ pipe \in Seq(Fragment) /\ buffered \in Seq(Fragment)
  /\ Len(pipe) <= typed /\ \A i \in 1 .. Len(pipe) : pipe[i] = Text[Read + i]
  /\ Len(buffered) = Read - 3 * Done
  /\ \A i \in 1 .. Len(buffered) : buffered[i] = Text[3 * Done + i]

(* What waits for the connection are messages among the lines read, in the  *)
(* order of the text.                                                       *)
QueueInv ==
  /\ virtualStdin \in Seq({LineNo(k) : k \in 1 .. Done})
  /\ \A j \in 1 .. Len(virtualStdin) :
       /\ NumberOf(virtualStdin[j]) \in 1 .. Done
       /\ script[NumberOf(virtualStdin[j])].kind \in {"request", "notification"}
  /\ \A i \in 1 .. Len(virtualStdin), j \in 1 .. Len(virtualStdin) :
       i < j => NumberOf(virtualStdin[i]) < NumberOf(virtualStdin[j])

IsRequest(i, id) == i \in 1 .. Done /\ script[i].kind = "request" /\ script[i].id = id
Past(i) == \A j \in 1 .. Len(virtualStdin) : i < NumberOf(virtualStdin[j])

Dispatched(i) ==
  [id |-> script[i].id, request |-> script[i],
   intercepted |-> interceptableTaskMethodRequest(script[i]) /\ servedModernEra = "modern"]

(* A pending request has been taken from the wire, and by whom depends on   *)
(* the era alone, which is settled by then.                                 *)
PendingInv ==
  \A p \in unanswered :
    /\ servedModernEra # "none"
    /\ \E i \in 1 .. Done : IsRequest(i, p.id) /\ Past(i) /\ p = Dispatched(i)

AllOutcomes == {"result", "InvalidParams", "InvalidRequest", "MethodNotFound", "ParseError"}

Replies ==
  LET ids == {script[i].id : i \in {j \in DOMAIN script : script[j].kind = "request"}}
  IN  {Answer(id, outcome) : id \in {Null} \cup ids, outcome \in AllOutcomes}

(* An answer is to a request that has been taken and is no longer pending,  *)
(* and it is the only one.                                                  *)
SentInv ==
  /\ sent \in Seq(Replies)
  /\ \A k \in 1 .. Len(sent) : sent[k].id # Null =>
       /\ \E i \in 1 .. Done : IsRequest(i, sent[k].id) /\ Past(i)
       /\ \A p \in unanswered : p.id # sent[k].id
       /\ sent[k].outcome # "MethodNotFound"
  /\ \A k \in 1 .. Len(sent), l \in 1 .. Len(sent) :
       sent[k].id # Null /\ sent[k].id = sent[l].id => k = l

CountInv ==
  shutdown = "none" =>
    /\ Count(Null, {"ParseError"}) = Kind("garbage")
    /\ Count(Null, {"InvalidRequest"}) = Kind("bad")

(* No request is lost: it waits, is pending, answered or cancelled.         *)
Settled(i) ==
  \/ \E j \in 1 .. Len(virtualStdin) : NumberOf(virtualStdin[j]) = i
  \/ \E p \in unanswered : p.id = script[i].id
  \/ \E k \in 1 .. Len(sent) : sent[k].id = script[i].id
  \/ script[i].id \in toldCancelled
  \/ shutdown # "none"

CoverInv == \A i \in 1 .. Done : script[i].kind = "request" => Settled(i)

(* A run has been admitted only by a server of some era; the shutdown waits *)
(* for the jobs it found, and none comes after it.                          *)
JobsInv ==
  /\ jobs # {} => servedModernEra # "none"
  /\ shutdown = "reaping" => jobs # {}
  /\ NoJobIsLeftBehind

WireInv == ReadInv /\ QueueInv /\ PendingInv /\ SentInv /\ CountInv /\ CoverInv /\ JobsInv

-----------------------------------------------------------------------------
(* The steps.                                                               *)

LEMMA ReadIsNat ==
  ASSUME ReadInv
  PROVE  /\ Read \in Nat /\ Done \in Nat /\ Len(script) \in Nat
         /\ 3 * Done <= Read /\ Read - 3 * Done \in 0 .. 2 /\ Read <= typed
         /\ Done <= Len(script)
         /\ \A i \in 1 .. Done : i \in 1 .. Len(script) /\ i \in DOMAIN script
<1>1. Len(script) \in Nat /\ DOMAIN script = 1 .. Len(script) BY ScriptsAreSequences DEF ReadInv
<1>2. /\ typed \in Nat /\ typed <= 3 * Len(script) /\ Len(pipe) \in Nat /\ Len(pipe) <= typed
  BY DEF ReadInv
<1>3. Read \in Nat /\ Read <= typed BY <1>2 DEF Read
<1>4. Done \in Nat /\ 3 * Done <= Read /\ Read - 3 * Done \in 0 .. 2 BY <1>3 DEF Done
<1>5. Done <= Len(script) BY <1>1, <1>2, <1>3, <1>4
<1> QED BY <1>1, <1>3, <1>4, <1>5

(* A step that reads, takes and answers nothing.                            *)
Quiet ==
  /\ script' = script /\ virtualStdin' = virtualStdin /\ unanswered' = unanswered
  /\ servedModernEra' = servedModernEra /\ sent' = sent /\ toldCancelled' = toldCancelled
  /\ Read' = Read
  /\ shutdown' = "none" => shutdown = "none"

LEMMA QuietKeeps ==
  ASSUME QueueInv, PendingInv, SentInv, CountInv, CoverInv, Quiet
  PROVE  QueueInv' /\ PendingInv' /\ SentInv' /\ CountInv' /\ CoverInv'
<1>1. /\ script' = script /\ virtualStdin' = virtualStdin /\ unanswered' = unanswered
      /\ servedModernEra' = servedModernEra /\ sent' = sent /\ toldCancelled' = toldCancelled
      /\ shutdown' = "none" => shutdown = "none"
  BY DEF Quiet
<1>2. Done' = Done BY DEF Quiet, Done
<1>3. QueueInv' BY <1>1, <1>2 DEF QueueInv
<1>4. \A i : Past(i)' <=> Past(i) BY <1>1 DEF Past
<1>5. \A i, id : IsRequest(i, id)' <=> IsRequest(i, id) BY <1>1, <1>2 DEF IsRequest
<1>6. \A i : Dispatched(i)' = Dispatched(i) BY <1>1 DEF Dispatched
<1>7. PendingInv' BY <1>1, <1>2, <1>4, <1>5, <1>6 DEF PendingInv
<1>8. Replies' = Replies BY <1>1 DEF Replies
<1>9. SentInv' BY <1>1, <1>2, <1>4, <1>5, <1>8 DEF SentInv
<1>10. CountInv'
  <2>1. \A id, outcomes : Count(id, outcomes)' = Count(id, outcomes) BY <1>1 DEF Count
  <2>2. \A kind : Kind(kind)' = Kind(kind) BY <1>1, <1>2 DEF Kind, Done, Read
  <2> QED BY <1>1, <2>1, <2>2 DEF CountInv
<1>11. CoverInv' BY <1>1, <1>2 DEF CoverInv, Settled
<1> QED BY <1>3, <1>7, <1>9, <1>10, <1>11

LEMMA UnreadKeeps ==
  ASSUME ReadInv, script' = script, typed' = typed, pipe' = pipe, buffered' = buffered
  PROVE  ReadInv' /\ Read' = Read
<1>1. Read' = Read /\ Done' = Done BY DEF Read, Done
<1>2. Text' = Text BY DEF Text
<1> QED BY <1>1, <1>2 DEF ReadInv

LEMMA WritesKeeps ==
  ASSUME ReadInv, ClientWrites
  PROVE  ReadInv' /\ Read' = Read
<1>1. PICK n \in 1 .. Len(Text) - typed :
        pipe' = pipe \o SubSeq(Text, typed + 1, typed + n) /\ typed' = typed + n
  BY DEF ClientWrites
<1>2. script' = script /\ buffered' = buffered BY DEF ClientWrites
<1>3. Text' = Text BY <1>2 DEF Text
<1>4. Text \in Seq(Fragment) /\ Len(Text) = 3 * Len(script) /\ Len(script) \in Nat
  BY TextOfScript, ScriptsAreSequences DEF ReadInv
<1>5. /\ typed \in Nat /\ typed <= 3 * Len(script) /\ pipe \in Seq(Fragment) /\ Len(pipe) \in Nat
      /\ Len(pipe) <= typed /\ \A i \in 1 .. Len(pipe) : pipe[i] = Text[Read + i]
  BY DEF ReadInv
<1> DEFINE more == SubSeq(Text, typed + 1, typed + n)
<1>6. more \in Seq(Fragment) /\ Len(more) = n /\ \A i \in 1 .. n : more[i] = Text[typed + i]
  <2> DEFINE a == typed + 1
             z == typed + n
  <2>1. /\ a \in 1 .. Len(Text) + 1 /\ z \in a - 1 .. Len(Text) /\ z - a + 1 = n
        /\ \A i \in 1 .. n : a + i - 1 = typed + i
    BY <1>4, <1>5
  <2> HIDE DEF a, z
  <2>2. /\ SubSeq(Text, a, z) \in Seq(Fragment) /\ Len(SubSeq(Text, a, z)) = z - a + 1
        /\ \A i \in 1 .. z - a + 1 : SubSeq(Text, a, z)[i] = Text[a + i - 1]
    BY <1>4, <2>1, SubSeqProperties
  <2>3. more = SubSeq(Text, a, z) BY DEF a, z
  <2> HIDE DEF more
  <2> QED BY <2>1, <2>2, <2>3
<1> HIDE DEF more
<1>7. pipe' = pipe \o more BY <1>1 DEF more
<1>8. /\ pipe' \in Seq(Fragment) /\ Len(pipe') = Len(pipe) + n
      /\ \A i \in 1 .. Len(pipe) + n : pipe'[i] = IF i <= Len(pipe) THEN pipe[i] ELSE more[i - Len(pipe)]
  <2>1. pipe \in Seq(Fragment) BY <1>5
  <2>2. /\ pipe \o more \in Seq(Fragment) /\ Len(pipe \o more) = Len(pipe) + Len(more)
        /\ \A i \in 1 .. Len(pipe) + Len(more) :
             (pipe \o more)[i] = IF i <= Len(pipe) THEN pipe[i] ELSE more[i - Len(pipe)]
    BY <1>6, <2>1, ConcatProperties
  <2> QED BY <1>6, <1>7, <2>2
<1>9. n \in Nat /\ typed + n <= 3 * Len(script) BY <1>4, <1>5
<1>10. Read' = Read /\ Done' = Done
  <2>1. Read' = Read BY <1>1, <1>5, <1>8, <1>9 DEF Read
  <2> QED BY <2>1 DEF Done
<1>11. ASSUME NEW i \in 1 .. Len(pipe') PROVE pipe'[i] = Text[Read + i]
  <2>1. i \in Nat /\ i \in 1 .. Len(pipe) + n BY <1>5, <1>8, <1>9
  <2>2. CASE i <= Len(pipe) BY <1>5, <1>8, <2>1, <2>2
  <2>3. CASE ~(i <= Len(pipe))
    <3>1. i - Len(pipe) \in 1 .. n /\ typed + (i - Len(pipe)) = Read + i
      BY <1>5, <1>9, <2>1, <2>3 DEF Read
    <3> QED BY <1>6, <1>8, <2>1, <2>3, <3>1
  <2> QED BY <2>2, <2>3
<1>12. typed' \in Nat /\ typed' <= 3 * Len(script) /\ Len(pipe') <= typed' BY <1>1, <1>5, <1>8, <1>9
<1> QED BY <1>2, <1>3, <1>8, <1>10, <1>11, <1>12 DEF ReadInv

-----------------------------------------------------------------------------
(* A chunk is read.                                                         *)

Sorted(k) == classifyStdinLine(LineNo(k))
LinesFrom(b, m) == [k \in 1 .. m |-> LineNo(b + k)]
LinesAt(a) == [i \in 1 .. Len(a) |-> LineNo(a[i])]

LEMMA ClassOfLine ==
  ASSUME script \in Scripts, NEW k \in 1 .. Len(script)
  PROVE  /\ Sorted(k) = "ok" <=> script[k].kind \in {"request", "notification"}
         /\ Sorted(k) = "parse-error" <=> script[k].kind = "garbage"
         /\ Sorted(k) = "invalid-envelope" <=> script[k].kind = "bad"
<1>1. script[k].kind \in {"request", "notification", "garbage", "bad"} BY ScriptsAreSequences
<1>2. k \in Nat BY ScriptsAreSequences
<1>3. MessageOf(LineNo(k)) = script[k] BY <1>2, LinesAreMessages
<1> QED BY <1>1, <1>3 DEF Sorted, classifyStdinLine

Among(b, m, classes) == {k \in b + 1 .. b + m : Sorted(k) \in classes}

(* The lines of some classes are taken from a chunk each once, in order.    *)
LEMMA ClassifiedLines ==
  ASSUME NEW b \in Nat, NEW m \in Nat, NEW classes
  PROVE  \E a \in Seq(Among(b, m, classes)) :
           /\ Increasing(a) /\ \A k \in Among(b, m, classes) : Shown(a, k)
           /\ Classified(LinesFrom(b, m), classes) = LinesAt(a)
<1> DEFINE lines == [k \in 1 .. m |-> LineNo(b + k)]
           S == {k \in 1 .. m : Sorted(b + k) \in classes}
           at == Ascending(S)
<1>1. S \in SUBSET Nat /\ IsFiniteSet(S) /\ S \in SUBSET (1 .. m)
  <2>1. IsFiniteSet(1 .. m) BY FS_Interval
  <2>2. S \in SUBSET (1 .. m) OBVIOUS
  <2> QED BY <2>1, <2>2, FS_Subset
<1>2. {k \in DOMAIN lines : classifyStdinLine(lines[k]) \in classes} = S BY DEF Sorted
<1>3. Classified(lines, classes) = [i \in DOMAIN at |-> lines[at[i]]]
  <2> HIDE DEF lines, S
  <2> QED BY <1>2 DEF Classified
<1>4. \A k \in S : k \in 1 .. m /\ k \in Nat /\ b + k \in Among(b, m, classes) BY DEF Among
<1>5. \A k \in Among(b, m, classes) : k - b \in S /\ k \in Nat /\ b + (k - b) = k
  <2>1. ASSUME NEW k \in b + 1 .. b + m PROVE k - b \in 1 .. m /\ b + (k - b) = k /\ k \in Nat OBVIOUS
  <2> QED BY <2>1 DEF Among
<1>6. at \in Seq(S) /\ Increasing(at) /\ \A k \in S : Shown(at, k)
  <2> HIDE DEF S
  <2> QED BY <1>1, AscendingIsOrder
<1>7. \A k \in S : lines[k] = LineNo(b + k) BY <1>4
<1> HIDE DEF S, at, lines
<1> DEFINE a == [i \in 1 .. Len(at) |-> b + at[i]]
<1>8. Len(at) \in Nat /\ DOMAIN at = 1 .. Len(at) /\ \A i \in 1 .. Len(at) : at[i] \in S BY <1>6
<1>9. /\ a \in Seq(Among(b, m, classes)) /\ Len(a) = Len(at)
      /\ \A i \in 1 .. Len(at) : a[i] = b + at[i]
  <2> DEFINE n == Len(at)
  <2>1. n \in Nat /\ \A i \in 1 .. n : b + at[i] \in Among(b, m, classes) BY <1>4, <1>8
  <2> HIDE DEF n
  <2>2. [i \in 1 .. n |-> b + at[i]] \in Seq(Among(b, m, classes)) /\ Len([i \in 1 .. n |-> b + at[i]]) = n
    BY <2>1
  <2> QED BY <2>2 DEF n
<1> HIDE DEF a
<1>10. Increasing(a)
  <2>1. ASSUME NEW i \in 1 .. Len(a), NEW j \in 1 .. Len(a), i < j PROVE a[i] < a[j]
    <3>1. at[i] < at[j] BY <1>6, <1>9, <2>1 DEF Increasing
    <3>2. at[i] \in Nat /\ at[j] \in Nat BY <1>4, <1>8, <1>9
    <3> QED BY <1>9, <3>1, <3>2
  <2> QED BY <2>1 DEF Increasing
<1>11. ASSUME NEW k \in Among(b, m, classes) PROVE Shown(a, k)
  <2>1. k - b \in S BY <1>5
  <2>2. PICK i \in 1 .. Len(at) : at[i] = k - b BY <1>6, <2>1 DEF Shown
  <2>3. a[i] = k BY <1>5, <1>9, <2>2
  <2> QED BY <1>9, <2>3 DEF Shown
<1>12. Classified(lines, classes) = [i \in 1 .. Len(a) |-> LineNo(a[i])]
  BY <1>3, <1>7, <1>8, <1>9
<1>13. LinesFrom(b, m) = lines BY DEF LinesFrom, lines
<1> QED BY <1>9, <1>10, <1>11, <1>12, <1>13 DEF LinesAt

LEMMA StdinReads ==
  ASSUME ReadInv, StdinData
  PROVE  /\ ReadInv'
         /\ \E m \in Nat :
              LET lines == LinesFrom(Done, m)
                  wrong == Classified(lines, {"parse-error", "invalid-envelope"})
              IN  /\ Done' = Done + m /\ Done + m <= Len(script)
                  /\ virtualStdin' = virtualStdin \o Classified(lines, {"ok"})
                  /\ sent' = IF IsWritable
                             THEN sent \o [k \in DOMAIN wrong |-> sendProtocolErrorResponse(wrong[k])]
                             ELSE sent
<1>1. PICK n \in 1 .. Len(pipe) :
        LET text  == Buffered(SubSeq(pipe, 1, n))
            lines == LinesOf(text)
            wrong == Classified(lines, {"parse-error", "invalid-envelope"})
        IN  /\ pipe' = SubSeq(pipe, n + 1, Len(pipe))
            /\ buffered' = LeftOver(text)
            /\ virtualStdin' = virtualStdin \o Classified(lines, {"ok"})
            /\ sent' = IF IsWritable
                       THEN sent \o [k \in DOMAIN wrong |-> sendProtocolErrorResponse(wrong[k])]
                       ELSE sent
  BY DEF StdinData
<1>2. script' = script /\ typed' = typed BY DEF StdinData
<1>3. Text' = Text BY <1>2 DEF Text
<1>4. /\ script \in Scripts /\ typed \in Nat /\ typed <= 3 * Len(script)
      /\ pipe \in Seq(Fragment) /\ buffered \in Seq(Fragment) /\ Len(pipe) \in Nat
      /\ Len(pipe) <= typed /\ \A i \in 1 .. Len(pipe) : pipe[i] = Text[Read + i]
      /\ Len(buffered) = Read - 3 * Done
      /\ \A i \in 1 .. Len(buffered) : buffered[i] = Text[3 * Done + i]
  BY DEF ReadInv
<1>5. /\ Read \in Nat /\ Done \in Nat /\ Len(script) \in Nat
      /\ 3 * Done <= Read /\ Read - 3 * Done \in 0 .. 2 /\ Read <= typed
  BY ReadIsNat
<1>6. Read = typed - Len(pipe) BY DEF Read
<1> DEFINE chunk == SubSeq(pipe, 1, n)
           text == Buffered(chunk)
           rest == SubSeq(pipe, n + 1, Len(pipe))
<1>7. n \in Nat /\ n >= 1 /\ n <= Len(pipe) BY <1>4
<1>8. chunk \in Seq(Fragment) /\ Len(chunk) = n /\ \A i \in 1 .. n : chunk[i] = pipe[i]
  <2>1. 1 \in 1 .. Len(pipe) + 1 /\ n \in 1 - 1 .. Len(pipe) /\ n - 1 + 1 = n
        /\ \A i \in 1 .. n : 1 + i - 1 = i
    BY <1>4, <1>7
  <2>2. /\ SubSeq(pipe, 1, n) \in Seq(Fragment) /\ Len(SubSeq(pipe, 1, n)) = n - 1 + 1
        /\ \A i \in 1 .. n - 1 + 1 : SubSeq(pipe, 1, n)[i] = pipe[1 + i - 1]
    BY <1>4, <2>1, SubSeqProperties
  <2> HIDE DEF chunk
  <2> QED BY <2>1, <2>2 DEF chunk
<1>9. /\ rest \in Seq(Fragment) /\ Len(rest) = Len(pipe) - n
      /\ \A i \in 1 .. Len(pipe) - n : rest[i] = pipe[n + i]
  BY <1>4, <1>7, TailOfSeq
<1>10. pipe' = rest BY <1>1
<1> HIDE DEF chunk, rest
<1>11. /\ text \in Seq(Fragment) /\ Len(text) = Len(buffered) + n
       /\ \A i \in 1 .. Len(buffered) + n :
            text[i] = IF i <= Len(buffered) THEN buffered[i] ELSE chunk[i - Len(buffered)]
  BY <1>4, <1>8, ConcatProperties DEF Buffered
<1> HIDE DEF text
<1>12. Read' = Read + n
  <2>1. Len(pipe') = Len(pipe) - n BY <1>9, <1>10
  <2>2. Read' = typed - (Len(pipe) - n) BY <1>2, <2>1 DEF Read
  <2> QED BY <1>4, <1>6, <1>7, <2>2
<1> DEFINE m == Done' - Done
           c == Read' - 3 * Done'
<1>13. /\ m \in Nat /\ c \in 0 .. 2 /\ Done' = Done + m /\ Done' \in Nat /\ Read' \in Nat
       /\ Len(text) = 3 * m + c /\ Read' <= typed /\ 3 * Done + 3 * m + c = Read'
  <2>1. Done' = (Read + n) \div 3 BY <1>12 DEF Done
  <2>2. Done = Read \div 3 BY DEF Done
  <2>3. Read + n \in Nat /\ Read + n <= typed BY <1>4, <1>5, <1>6, <1>7
  <2> DEFINE d == (Read + n) \div 3
             r == Read + n
  <2>4. d \in Nat /\ 3 * d <= r /\ r <= 3 * d + 2 BY <2>3
  <2> HIDE DEF d
  <2>5. d >= Done BY <1>5, <1>7, <2>3, <2>4
  <2>6. Done' = d /\ Read' = r BY <1>12, <2>1 DEF d
  <2>7. Len(text) = r - 3 * Done BY <1>4, <1>5, <1>7, <1>11
  <2> QED BY <1>5, <2>3, <2>4, <2>5, <2>6, <2>7
<1> HIDE DEF m, c
<1>14. 3 * Done + 3 * m + c <= 3 * Len(script) BY <1>4, <1>5, <1>13
<1>15. ASSUME NEW i \in 1 .. Len(text) PROVE text[i] = Text[3 * Done + i]
  <2>1. i \in Nat /\ i >= 1 /\ i \in 1 .. Len(buffered) + n BY <1>11, <1>13
  <2>2. CASE i <= Len(buffered) BY <1>4, <1>11, <2>1, <2>2
  <2>3. CASE ~(i <= Len(buffered))
    <3>1. /\ i - Len(buffered) \in 1 .. n /\ i - Len(buffered) \in 1 .. Len(pipe)
          /\ Read + (i - Len(buffered)) = 3 * Done + i
      BY <1>4, <1>5, <1>7, <2>1, <2>3
    <3>2. text[i] = chunk[i - Len(buffered)] BY <1>11, <2>1, <2>3
    <3> QED BY <1>4, <1>8, <3>1, <3>2
  <2> QED BY <2>2, <2>3
<1>16. /\ LinesOf(text) = LinesFrom(Done, m)
       /\ LeftOver(text) \in Seq(Fragment) /\ Len(LeftOver(text)) = c
       /\ \A i \in 1 .. c : LeftOver(text)[i] = Text[3 * (Done + m) + i]
  <2> DEFINE b == Done
  <2>1. /\ script \in Scripts /\ b \in Nat /\ m \in Nat /\ c \in 0 .. 2 /\ text \in Seq(Fragment)
        /\ Len(text) = 3 * m + c /\ 3 * b + 3 * m + c <= 3 * Len(script)
        /\ \A i \in 1 .. Len(text) : text[i] = Text[3 * b + i]
    BY <1>4, <1>5, <1>11, <1>13, <1>14, <1>15
  <2> HIDE DEF b
  <2>2. /\ LinesOf(text) = [k \in 1 .. m |-> LineNo(b + k)]
        /\ LeftOver(text) \in Seq(Fragment) /\ Len(LeftOver(text)) = c
        /\ \A i \in 1 .. c : LeftOver(text)[i] = Text[3 * (b + m) + i]
    BY <2>1, CutsAreLines
  <2> QED BY <2>2 DEF b, LinesFrom
<1>17. buffered' = LeftOver(text) BY <1>1 DEF text, chunk
<1>18. ReadInv'
  <2>1. script' \in Scripts /\ typed' \in Nat /\ typed' <= 3 * Len(script') BY <1>2, <1>4
  <2>2. /\ pipe' \in Seq(Fragment) /\ Len(pipe') <= typed' BY <1>2, <1>4, <1>7, <1>9, <1>10
  <2>3. \A i \in 1 .. Len(pipe') : pipe'[i] = Text'[Read' + i]
    <3>1. ASSUME NEW i \in 1 .. Len(pipe) - n PROVE rest[i] = Text[(Read + n) + i]
      <4>1. n + i \in 1 .. Len(pipe) /\ Read + (n + i) = (Read + n) + i BY <1>4, <1>5, <1>7
      <4> QED BY <1>4, <1>9, <4>1
    <3> QED BY <1>3, <1>9, <1>10, <1>12, <3>1
  <2>4. buffered' \in Seq(Fragment) /\ Len(buffered') = Read' - 3 * Done' BY <1>16, <1>17 DEF c
  <2>5. \A i \in 1 .. Len(buffered') : buffered'[i] = Text'[3 * Done' + i]
    BY <1>3, <1>13, <1>16, <1>17
  <2> QED BY <2>1, <2>2, <2>3, <2>4, <2>5 DEF ReadInv
<1>19. LET lines == LinesFrom(Done, m)
           wrong == Classified(lines, {"parse-error", "invalid-envelope"})
       IN  /\ Done' = Done + m /\ Done + m <= Len(script)
           /\ virtualStdin' = virtualStdin \o Classified(lines, {"ok"})
           /\ sent' = IF IsWritable
                      THEN sent \o [k \in DOMAIN wrong |-> sendProtocolErrorResponse(wrong[k])]
                      ELSE sent
  <2>1. Done + m <= Len(script) BY <1>5, <1>13, <1>14
  <2> QED BY <1>1, <1>13, <1>16, <2>1 DEF text, chunk
<1> QED BY <1>13, <1>18, <1>19

-----------------------------------------------------------------------------
(* What is counted.                                                         *)

Hits(s, id, outcomes) == {k \in DOMAIN s : s[k].id = id /\ s[k].outcome \in outcomes}

LEMMA HitsOfConcat ==
  ASSUME NEW T, NEW s \in Seq(T), NEW w \in Seq(T), NEW id, NEW outcomes
  PROVE  /\ Cardinality(Hits(s, id, outcomes)) \in Nat
         /\ Cardinality(Hits(w, id, outcomes)) \in Nat
         /\ Cardinality(Hits(s \o w, id, outcomes))
              = Cardinality(Hits(s, id, outcomes)) + Cardinality(Hits(w, id, outcomes))
<1> DEFINE n == Len(s)
           A == Hits(s, id, outcomes)
           B == Hits(w, id, outcomes)
           C == {n + i : i \in B}
<1>1. n \in Nat /\ Len(w) \in Nat /\ DOMAIN s = 1 .. n /\ DOMAIN w = 1 .. Len(w) OBVIOUS
<1>2. /\ s \o w \in Seq(T) /\ Len(s \o w) = n + Len(w)
      /\ \A i \in 1 .. n + Len(w) : (s \o w)[i] = IF i <= n THEN s[i] ELSE w[i - n]
  BY ConcatProperties
<1> DEFINE sw == s \o w
<1> HIDE DEF sw
<1>3. DOMAIN sw = 1 .. n + Len(w) BY <1>1, <1>2 DEF sw
<1>4. \A i \in 1 .. n + Len(w) : sw[i] = IF i <= n THEN s[i] ELSE w[i - n] BY <1>2 DEF sw
<1> HIDE DEF n
<1>5. IsFiniteSet(A) /\ IsFiniteSet(B)
  <2>1. IsFiniteSet(1 .. n) /\ IsFiniteSet(1 .. Len(w)) BY <1>1, FS_Interval
  <2>2. A \in SUBSET (1 .. n) /\ B \in SUBSET (1 .. Len(w)) BY <1>1 DEF Hits
  <2> QED BY <2>1, <2>2, FS_Subset
<1>6. \A i \in A : i \in 1 .. n BY <1>1 DEF Hits
<1>7. \A i \in B : i \in 1 .. Len(w) /\ i \in Nat BY <1>1 DEF Hits
<1>8. Hits(sw, id, outcomes) = A \cup C
  <2>1. ASSUME NEW k \in Hits(sw, id, outcomes) PROVE k \in A \cup C
    <3>1. k \in 1 .. n + Len(w) /\ sw[k].id = id /\ sw[k].outcome \in outcomes
      BY <1>3, <2>1 DEF Hits
    <3>2. CASE k <= n
      <4>1. k \in 1 .. n /\ sw[k] = s[k] BY <1>1, <1>4, <3>1, <3>2
      <4> QED BY <1>1, <3>1, <4>1 DEF Hits
    <3>3. CASE ~(k <= n)
      <4>1. k - n \in 1 .. Len(w) /\ sw[k] = w[k - n] /\ k = n + (k - n) BY <1>1, <1>4, <3>1, <3>3
      <4>2. k - n \in B BY <1>1, <3>1, <4>1 DEF Hits
      <4> QED BY <4>1, <4>2
    <3> QED BY <3>2, <3>3
  <2>2. ASSUME NEW k \in A PROVE k \in Hits(sw, id, outcomes)
    <3>1. k \in 1 .. n /\ s[k].id = id /\ s[k].outcome \in outcomes BY <1>1 DEF Hits
    <3>2. k \in 1 .. n + Len(w) /\ k <= n BY <1>1, <3>1
    <3> QED BY <1>3, <1>4, <3>1, <3>2 DEF Hits
  <2>3. ASSUME NEW i \in B PROVE n + i \in Hits(sw, id, outcomes)
    <3>1. i \in 1 .. Len(w) /\ w[i].id = id /\ w[i].outcome \in outcomes BY <1>1 DEF Hits
    <3>2. n + i \in 1 .. n + Len(w) /\ ~(n + i <= n) /\ (n + i) - n = i BY <1>1, <3>1
    <3> QED BY <1>3, <1>4, <3>1, <3>2 DEF Hits
  <2> QED BY <2>1, <2>2, <2>3
<1>9. IsFiniteSet(C) /\ Cardinality(C) = Cardinality(B)
  <2> DEFINE f == [i \in B |-> n + i]
  <2>1. f \in Surjection(B, C) BY DEF Surjection
  <2>2. \A i \in B, j \in B : n + i = n + j => i = j BY <1>1, <1>7
  <2>3. f \in Injection(B, C) BY <2>2 DEF Injection, IsInjective
  <2>4. ExistsBijection(B, C) BY <2>1, <2>3 DEF ExistsBijection, Bijection
  <2> HIDE DEF B, C
  <2> QED BY <1>5, <2>4, FS_Bijection
<1>10. A \cap C = {}
  <2>1. \A i \in 1 .. n, j \in 1 .. Len(w) : i # n + j BY <1>1
  <2> QED BY <1>6, <1>7, <2>1
<1> HIDE DEF A, B, C
<1>11. Cardinality(A \cup C) = Cardinality(A) + Cardinality(C) - Cardinality(A \cap C)
  BY <1>5, <1>9, FS_Union
<1>12. Cardinality(A \cap C) = 0 BY <1>10, FS_EmptySet
<1>13. Cardinality(A) \in Nat /\ Cardinality(B) \in Nat BY <1>5, FS_CardinalityType
<1>14. Cardinality(Hits(sw, id, outcomes)) = Cardinality(A) + Cardinality(B)
  BY <1>8, <1>9, <1>11, <1>12, <1>13
<1> QED BY <1>13, <1>14 DEF A, B, sw

(* As many places of an order hold numbers of K as K has.                   *)
LEMMA PlacesOfOrder ==
  ASSUME NEW Ns \in SUBSET Nat, IsFiniteSet(Ns), NEW a \in Seq(Ns), Increasing(a),
         \A k \in Ns : Shown(a, k), NEW K \in SUBSET Ns
  PROVE  Cardinality({i \in 1 .. Len(a) : a[i] \in K}) = Cardinality(K) /\ IsFiniteSet(K)
<1> DEFINE P == {i \in 1 .. Len(a) : a[i] \in K}
           f == [i \in P |-> a[i]]
<1>1. IsFiniteSet(K) BY FS_Subset
<1>2. Len(a) \in Nat /\ \A i \in 1 .. Len(a) : a[i] \in Ns /\ a[i] \in Nat
  <2>1. Len(a) \in Nat /\ \A i \in 1 .. Len(a) : a[i] \in Ns OBVIOUS
  <2> QED BY <2>1
<1>3. f \in [P -> K] OBVIOUS
<1>4. \A k \in K : \E i \in P : a[i] = k BY DEF Shown
<1>5. f \in Surjection(P, K) BY <1>3, <1>4 DEF Surjection
<1>6. ASSUME NEW i \in P, NEW j \in P, f[i] = f[j] PROVE i = j
  <2>1. i \in 1 .. Len(a) /\ j \in 1 .. Len(a) /\ a[i] = a[j] /\ i \in Nat /\ j \in Nat
    BY <1>2, <1>6
  <2>2. ~(i < j) /\ ~(j < i) BY <1>2, <2>1 DEF Increasing
  <2> QED BY <2>1, <2>2
<1>7. f \in Injection(P, K) BY <1>3, <1>6 DEF Injection, IsInjective
<1>8. ExistsBijection(P, K) BY <1>5, <1>7 DEF ExistsBijection, Bijection
<1>9. IsFiniteSet(P)
  <2>1. IsFiniteSet(1 .. Len(a)) BY <1>2, FS_Interval
  <2>2. P \in SUBSET (1 .. Len(a)) OBVIOUS
  <2> QED BY <2>1, <2>2, FS_Subset
<1> HIDE DEF P
<1>10. Cardinality(P) = Cardinality(K) BY <1>8, <1>9, FS_Bijection
<1> QED BY <1>1, <1>10 DEF P

OfKind(b, m, kind) == {k \in b + 1 .. b + m : script[k].kind = kind}

LEMMA KindGrows ==
  ASSUME NEW b \in Nat, NEW m \in Nat, NEW kind
  PROVE  /\ IsFiniteSet(OfKind(b, m, kind)) /\ Cardinality(OfKind(b, m, kind)) \in Nat
         /\ Cardinality({k \in 1 .. b : script[k].kind = kind}) \in Nat
         /\ Cardinality({k \in 1 .. b + m : script[k].kind = kind})
              = Cardinality({k \in 1 .. b : script[k].kind = kind}) + Cardinality(OfKind(b, m, kind))
<1> DEFINE A == {k \in 1 .. b : script[k].kind = kind}
           B == OfKind(b, m, kind)
<1>1. IsFiniteSet(1 .. b) /\ IsFiniteSet(b + 1 .. b + m) BY FS_Interval
<1>2. A \in SUBSET (1 .. b) /\ B \in SUBSET (b + 1 .. b + m) BY DEF OfKind
<1>3. IsFiniteSet(A) /\ IsFiniteSet(B) BY <1>1, <1>2, FS_Subset
<1>4. {k \in 1 .. b + m : script[k].kind = kind} = A \cup B
  <2>1. \A k : k \in 1 .. b + m <=> k \in 1 .. b \/ k \in b + 1 .. b + m OBVIOUS
  <2> QED BY <2>1 DEF OfKind
<1>5. A \cap B = {}
  <2>1. \A k : ~(k \in 1 .. b /\ k \in b + 1 .. b + m) OBVIOUS
  <2> QED BY <1>2, <2>1
<1> HIDE DEF A, B
<1>6. Cardinality(A \cup B) = Cardinality(A) + Cardinality(B) - Cardinality(A \cap B)
  BY <1>3, FS_Union
<1>7. Cardinality(A \cap B) = 0 BY <1>5, FS_EmptySet
<1>8. Cardinality(A) \in Nat /\ Cardinality(B) \in Nat BY <1>3, FS_CardinalityType
<1>9. Cardinality(A \cup B) = Cardinality(A) + Cardinality(B) BY <1>6, <1>7, <1>8
<1> QED BY <1>3, <1>4, <1>8, <1>9 DEF A, B

-----------------------------------------------------------------------------
(* Reading m lines more puts the messages q on the queue and the replies r  *)
(* on the wire.                                                             *)

ReadsLines(m, q, r) ==
  /\ m \in Nat /\ Done' = Done + m /\ Done + m <= Len(script)
  /\ virtualStdin' = virtualStdin \o q
  /\ q \in Seq({LineNo(k) : k \in Done + 1 .. Done + m})
  /\ \A i \in 1 .. Len(q) :
       /\ NumberOf(q[i]) \in Done + 1 .. Done + m
       /\ script[NumberOf(q[i])].kind \in {"request", "notification"}
  /\ \A i \in 1 .. Len(q), j \in 1 .. Len(q) : i < j => NumberOf(q[i]) < NumberOf(q[j])
  /\ \A k \in Done + 1 .. Done + m :
       script[k].kind \in {"request", "notification"} =>
         \E i \in 1 .. Len(q) : NumberOf(q[i]) = k
  /\ sent' = IF IsWritable THEN sent \o r ELSE sent
  /\ r \in Seq({Answer(Null, outcome) : outcome \in {"ParseError", "InvalidRequest"}})
  /\ Cardinality(Hits(r, Null, {"ParseError"})) = Cardinality(OfKind(Done, m, "garbage"))
  /\ Cardinality(Hits(r, Null, {"InvalidRequest"})) = Cardinality(OfKind(Done, m, "bad"))

LEMMA NumbersOfLines ==
  ASSUME NEW Ns \in SUBSET Nat, NEW a \in Seq(Ns), Increasing(a)
  PROVE  LET q == [i \in 1 .. Len(a) |-> LineNo(a[i])]
         IN  /\ q \in Seq({LineNo(k) : k \in Ns}) /\ Len(q) = Len(a)
             /\ \A i \in 1 .. Len(q) : NumberOf(q[i]) = a[i] /\ NumberOf(q[i]) \in Ns
             /\ \A i \in 1 .. Len(q), j \in 1 .. Len(q) : i < j => NumberOf(q[i]) < NumberOf(q[j])
<1> DEFINE n == Len(a)
           Lines == {LineNo(k) : k \in Ns}
<1>1. n \in Nat /\ \A i \in 1 .. n : a[i] \in Ns OBVIOUS
<1>2. \A i \in 1 .. n : LineNo(a[i]) \in Lines BY <1>1
<1>3. \A k : NumberOf(LineNo(k)) = k BY DEF NumberOf, LineNo
<1>4. \A i \in 1 .. n, j \in 1 .. n : i < j => a[i] < a[j] BY DEF Increasing
<1> HIDE DEF n, Lines
<1> DEFINE q == [i \in 1 .. n |-> LineNo(a[i])]
<1>5. q \in Seq(Lines) /\ Len(q) = n /\ \A i \in 1 .. n : q[i] = LineNo(a[i]) BY <1>1, <1>2
<1> HIDE DEF q
<1>6. \A i \in 1 .. n : NumberOf(q[i]) = a[i] BY <1>3, <1>5
<1>7. /\ q \in Seq(Lines) /\ Len(q) = n
      /\ \A i \in 1 .. Len(q) : NumberOf(q[i]) = a[i] /\ NumberOf(q[i]) \in Ns
      /\ \A i \in 1 .. Len(q), j \in 1 .. Len(q) : i < j => NumberOf(q[i]) < NumberOf(q[j])
  BY <1>1, <1>4, <1>5, <1>6
<1> QED BY <1>7 DEF q, n, Lines

LEMMA RepliesToLines ==
  ASSUME script \in Scripts, NEW b \in Nat, NEW m \in Nat, b + m <= Len(script),
         NEW a \in Seq(Among(b, m, {"parse-error", "invalid-envelope"})), Increasing(a),
         \A k \in Among(b, m, {"parse-error", "invalid-envelope"}) : Shown(a, k)
  PROVE  LET r == [i \in 1 .. Len(a) |-> sendProtocolErrorResponse(LineNo(a[i]))]
         IN  /\ r \in Seq({Answer(Null, outcome) : outcome \in {"ParseError", "InvalidRequest"}})
             /\ Cardinality(Hits(r, Null, {"ParseError"})) = Cardinality(OfKind(b, m, "garbage"))
             /\ Cardinality(Hits(r, Null, {"InvalidRequest"})) = Cardinality(OfKind(b, m, "bad"))
<1> DEFINE Ns == Among(b, m, {"parse-error", "invalid-envelope"})
           T == {Answer(Null, outcome) : outcome \in {"ParseError", "InvalidRequest"}}
           n == Len(a)
           r == [i \in 1 .. n |-> sendProtocolErrorResponse(LineNo(a[i]))]
<1>1. n \in Nat /\ \A i \in 1 .. n : a[i] \in Ns OBVIOUS
<1>2. Len(script) \in Nat BY ScriptsAreSequences
<1>3. ASSUME NEW k \in Ns
      PROVE  /\ k \in Nat /\ k \in b + 1 .. b + m /\ k \in 1 .. Len(script)
             /\ Sorted(k) \in {"parse-error", "invalid-envelope"}
  <2>1. k \in b + 1 .. b + m /\ Sorted(k) \in {"parse-error", "invalid-envelope"} BY DEF Among
  <2>2. k \in Nat /\ k \in 1 .. Len(script) BY <1>2, <2>1
  <2> QED BY <2>1, <2>2
<1>4. Ns \in SUBSET Nat /\ IsFiniteSet(Ns)
  <2>1. IsFiniteSet(b + 1 .. b + m) BY FS_Interval
  <2>2. Ns \in SUBSET (b + 1 .. b + m) /\ Ns \in SUBSET Nat BY <1>3
  <2> HIDE DEF Ns
  <2> QED BY <2>1, <2>2, FS_Subset
<1>5. \A i \in 1 .. n :
        sendProtocolErrorResponse(LineNo(a[i]))
          = Answer(Null, IF Sorted(a[i]) = "parse-error" THEN "ParseError" ELSE "InvalidRequest")
  BY DEF sendProtocolErrorResponse, Sorted
<1>6. \A i \in 1 .. n : sendProtocolErrorResponse(LineNo(a[i])) \in T BY <1>5
<1> HIDE DEF T, n
<1>7. r \in Seq(T) /\ Len(r) = n /\ \A i \in 1 .. n : r[i] = sendProtocolErrorResponse(LineNo(a[i]))
  BY <1>1, <1>6
<1> HIDE DEF r
<1>8. DOMAIN r = 1 .. n BY <1>7
<1>9. ASSUME NEW i \in 1 .. n
      PROVE  /\ r[i].id = Null
             /\ r[i].outcome = "ParseError" <=> Sorted(a[i]) = "parse-error"
             /\ r[i].outcome = "InvalidRequest" <=> Sorted(a[i]) = "invalid-envelope"
  <2>1. r[i] = Answer(Null, IF Sorted(a[i]) = "parse-error" THEN "ParseError" ELSE "InvalidRequest")
    BY <1>5, <1>7
  <2>2. Sorted(a[i]) \in {"parse-error", "invalid-envelope"} BY <1>1, <1>3
  <2> QED BY <2>1, <2>2 DEF Answer
<1>10. ASSUME NEW k \in 1 .. Len(script), k \in b + 1 .. b + m
       PROVE  /\ k \in OfKind(b, m, "garbage") <=> Sorted(k) = "parse-error"
              /\ k \in OfKind(b, m, "bad") <=> Sorted(k) = "invalid-envelope"
  <2>1. /\ Sorted(k) = "parse-error" <=> script[k].kind = "garbage"
        /\ Sorted(k) = "invalid-envelope" <=> script[k].kind = "bad"
    BY ClassOfLine
  <2> QED BY <1>10, <2>1 DEF OfKind
<1>11. OfKind(b, m, "garbage") \in SUBSET Ns /\ OfKind(b, m, "bad") \in SUBSET Ns
  <2>1. ASSUME NEW k \in b + 1 .. b + m,
               k \in OfKind(b, m, "garbage") \/ k \in OfKind(b, m, "bad")
        PROVE  k \in Ns
    <3>1. k \in 1 .. Len(script) BY <1>2
    <3> QED BY <1>10, <2>1, <3>1 DEF Among
  <2> HIDE DEF Ns
  <2> QED BY <2>1 DEF OfKind
<1>12. Hits(r, Null, {"ParseError"}) = {i \in 1 .. n : a[i] \in OfKind(b, m, "garbage")}
  <2>1. \A i \in 1 .. n : r[i].outcome = "ParseError" <=> a[i] \in OfKind(b, m, "garbage")
    BY <1>1, <1>3, <1>9, <1>10
  <2> QED BY <1>8, <1>9, <2>1 DEF Hits
<1>13. Hits(r, Null, {"InvalidRequest"}) = {i \in 1 .. n : a[i] \in OfKind(b, m, "bad")}
  <2>1. \A i \in 1 .. n : r[i].outcome = "InvalidRequest" <=> a[i] \in OfKind(b, m, "bad")
    BY <1>1, <1>3, <1>9, <1>10
  <2> QED BY <1>8, <1>9, <2>1 DEF Hits
<1>14. a \in Seq(Ns) /\ \A k \in Ns : Shown(a, k) OBVIOUS
<1> HIDE DEF Ns
<1>15. /\ Cardinality({i \in 1 .. Len(a) : a[i] \in OfKind(b, m, "garbage")})
            = Cardinality(OfKind(b, m, "garbage"))
       /\ Cardinality({i \in 1 .. Len(a) : a[i] \in OfKind(b, m, "bad")})
            = Cardinality(OfKind(b, m, "bad"))
  BY <1>4, <1>11, <1>14, PlacesOfOrder
<1> QED BY <1>7, <1>12, <1>13, <1>15 DEF r, n, T

LEMMA StdinReadsLines ==
  ASSUME ReadInv, StdinData
  PROVE  \E m \in Nat : \E q, r : ReadsLines(m, q, r)
<1>1. PICK m \in Nat :
        LET lines == LinesFrom(Done, m)
            wrong == Classified(lines, {"parse-error", "invalid-envelope"})
        IN  /\ Done' = Done + m /\ Done + m <= Len(script)
            /\ virtualStdin' = virtualStdin \o Classified(lines, {"ok"})
            /\ sent' = IF IsWritable
                       THEN sent \o [k \in DOMAIN wrong |-> sendProtocolErrorResponse(wrong[k])]
                       ELSE sent
  BY StdinReads
<1> DEFINE b == Done
           lines == LinesFrom(b, m)
           Wrong == {"parse-error", "invalid-envelope"}
<1>2. b \in Nat /\ Len(script) \in Nat /\ script \in Scripts BY ReadIsNat DEF ReadInv
<1>3. b + m <= Len(script) BY <1>1
<1> HIDE DEF b
<1>4. PICK a \in Seq(Among(b, m, {"ok"})) :
        /\ Increasing(a) /\ \A k \in Among(b, m, {"ok"}) : Shown(a, k)
        /\ Classified(lines, {"ok"}) = LinesAt(a)
  BY <1>2, ClassifiedLines
<1>5. PICK w \in Seq(Among(b, m, Wrong)) :
        /\ Increasing(w) /\ \A k \in Among(b, m, Wrong) : Shown(w, k)
        /\ Classified(lines, Wrong) = LinesAt(w)
  BY <1>2, ClassifiedLines
<1> DEFINE q == LinesAt(a)
           r == [i \in 1 .. Len(w) |-> sendProtocolErrorResponse(LineNo(w[i]))]
<1>6. virtualStdin' = virtualStdin \o q BY <1>1, <1>4 DEF b
<1>7. sent' = IF IsWritable THEN sent \o r ELSE sent
  <2> DEFINE wrong == [i \in 1 .. Len(w) |-> LineNo(w[i])]
  <2>1. wrong = Classified(lines, Wrong) BY <1>5 DEF LinesAt
  <2>2. sent' = IF IsWritable
                THEN sent \o [k \in DOMAIN wrong |-> sendProtocolErrorResponse(wrong[k])]
                ELSE sent
    <3> HIDE DEF wrong
    <3> QED BY <1>1, <2>1 DEF b
  <2>3. [k \in DOMAIN wrong |-> sendProtocolErrorResponse(wrong[k])] = r OBVIOUS
  <2> HIDE DEF wrong, r
  <2> QED BY <2>2, <2>3
<1>8. /\ r \in Seq({Answer(Null, outcome) : outcome \in {"ParseError", "InvalidRequest"}})
      /\ Cardinality(Hits(r, Null, {"ParseError"})) = Cardinality(OfKind(b, m, "garbage"))
      /\ Cardinality(Hits(r, Null, {"InvalidRequest"})) = Cardinality(OfKind(b, m, "bad"))
  BY <1>2, <1>3, <1>5, RepliesToLines
<1> HIDE DEF r
<1>9. ASSUME NEW k \in b + 1 .. b + m
      PROVE  k \in Nat /\ (k \in Among(b, m, {"ok"}) <=> script[k].kind \in {"request", "notification"})
  <2>1. k \in 1 .. Len(script) /\ k \in Nat BY <1>2, <1>3
  <2> QED BY <1>2, <2>1, ClassOfLine DEF Among
<1> DEFINE Ns == Among(b, m, {"ok"})
<1>10. Ns \in SUBSET (b + 1 .. b + m) BY DEF Among
<1>11. Ns \in SUBSET Nat BY <1>9, <1>10
<1> HIDE DEF Ns
<1>12. a \in Seq(Ns) BY DEF Ns
<1>13. /\ q \in Seq({LineNo(k) : k \in Ns}) /\ Len(q) = Len(a)
       /\ \A i \in 1 .. Len(q) : NumberOf(q[i]) = a[i] /\ NumberOf(q[i]) \in Ns
       /\ \A i \in 1 .. Len(q), j \in 1 .. Len(q) : i < j => NumberOf(q[i]) < NumberOf(q[j])
  BY <1>4, <1>11, <1>12, NumbersOfLines DEF LinesAt
<1> HIDE DEF q
<1>14. q \in Seq({LineNo(k) : k \in b + 1 .. b + m})
  <2>1. \A x \in {LineNo(k) : k \in Ns} : x \in {LineNo(k) : k \in b + 1 .. b + m} BY <1>10
  <2>2. \A i \in 1 .. Len(q) : q[i] \in {LineNo(k) : k \in Ns} BY <1>13
  <2> QED BY <1>13, <2>1, <2>2, ElementsMakeSeq
<1>15. \A i \in 1 .. Len(q) :
         /\ NumberOf(q[i]) \in b + 1 .. b + m
         /\ script[NumberOf(q[i])].kind \in {"request", "notification"}
  BY <1>9, <1>10, <1>13 DEF Ns
<1>16. ASSUME NEW k \in b + 1 .. b + m, script[k].kind \in {"request", "notification"}
       PROVE  \E i \in 1 .. Len(q) : NumberOf(q[i]) = k
  <2>1. k \in Ns BY <1>9, <1>16 DEF Ns
  <2>2. PICK i \in 1 .. Len(a) : a[i] = k BY <1>4, <2>1 DEF Shown, Ns
  <2> QED BY <1>13, <2>2
<1>17. Done' = b + m BY <1>1 DEF b
<1>18. ReadsLines(m, q, r)
  BY <1>3, <1>6, <1>7, <1>8, <1>13, <1>14, <1>15, <1>16, <1>17 DEF ReadsLines, b
<1> QED BY <1>18

LEMMA StdinKeeps ==
  ASSUME WireInv, StdinData
  PROVE  ReadInv' /\ QueueInv' /\ PendingInv' /\ SentInv' /\ CountInv' /\ CoverInv'
<1>1. /\ ReadInv /\ QueueInv /\ PendingInv /\ SentInv /\ CountInv /\ CoverInv BY DEF WireInv
<1>2. ReadInv' BY <1>1, StdinReads
<1>3. PICK m \in Nat : \E q, r : ReadsLines(m, q, r) BY <1>1, StdinReadsLines
<1>4. PICK q, r : ReadsLines(m, q, r) BY <1>3
<1>5. /\ Done' = Done + m /\ Done + m <= Len(script)
      /\ virtualStdin' = virtualStdin \o q
      /\ q \in Seq({LineNo(k) : k \in Done + 1 .. Done + m})
      /\ \A i \in 1 .. Len(q) :
           /\ NumberOf(q[i]) \in Done + 1 .. Done + m
           /\ script[NumberOf(q[i])].kind \in {"request", "notification"}
      /\ \A i \in 1 .. Len(q), j \in 1 .. Len(q) : i < j => NumberOf(q[i]) < NumberOf(q[j])
      /\ \A k \in Done + 1 .. Done + m :
           script[k].kind \in {"request", "notification"} =>
             \E i \in 1 .. Len(q) : NumberOf(q[i]) = k
      /\ sent' = IF IsWritable THEN sent \o r ELSE sent
      /\ r \in Seq({Answer(Null, outcome) : outcome \in {"ParseError", "InvalidRequest"}})
      /\ Cardinality(Hits(r, Null, {"ParseError"})) = Cardinality(OfKind(Done, m, "garbage"))
      /\ Cardinality(Hits(r, Null, {"InvalidRequest"})) = Cardinality(OfKind(Done, m, "bad"))
  BY <1>4 DEF ReadsLines
<1>6. /\ script' = script /\ unanswered' = unanswered /\ servedModernEra' = servedModernEra
      /\ toldCancelled' = toldCancelled /\ shutdown' = shutdown
  BY DEF StdinData, dispatchVars, stopVars
<1>7. Done \in Nat /\ Len(script) \in Nat BY <1>1, ReadIsNat
<1> DEFINE n == Len(virtualStdin)
           l == Len(q)
<1>8. /\ virtualStdin \in Seq({LineNo(k) : k \in 1 .. Done})
      /\ \A j \in 1 .. n :
           /\ NumberOf(virtualStdin[j]) \in 1 .. Done
           /\ script[NumberOf(virtualStdin[j])].kind \in {"request", "notification"}
      /\ \A i \in 1 .. n, j \in 1 .. n :
           i < j => NumberOf(virtualStdin[i]) < NumberOf(virtualStdin[j])
  BY <1>1 DEF QueueInv
<1>9. n \in Nat /\ l \in Nat BY <1>5, <1>8
<1>10. /\ virtualStdin' \in Seq({LineNo(k) : k \in 1 .. Done + m}) /\ Len(virtualStdin') = n + l
       /\ \A i \in 1 .. n + l :
            virtualStdin'[i] = IF i <= n THEN virtualStdin[i] ELSE q[i - n]
  <2> DEFINE T == {LineNo(k) : k \in 1 .. Done + m}
  <2>1. 1 .. Done \subseteq 1 .. Done + m /\ Done + 1 .. Done + m \subseteq 1 .. Done + m BY <1>7
  <2>2. {LineNo(k) : k \in 1 .. Done} \subseteq T /\ {LineNo(k) : k \in Done + 1 .. Done + m} \subseteq T
    BY <2>1
  <2> HIDE DEF T
  <2>3. virtualStdin \in Seq(T) /\ q \in Seq(T)
    <3>1. \A i \in 1 .. Len(virtualStdin) : virtualStdin[i] \in T BY <1>8, <2>2
    <3>2. \A i \in 1 .. Len(q) : q[i] \in T BY <1>5, <2>2
    <3> QED BY <1>5, <1>8, <3>1, <3>2, ElementsMakeSeq
  <2> QED BY <1>5, <2>3, ConcatProperties DEF T
<1>11. ASSUME NEW i \in 1 .. n
       PROVE  i \in 1 .. n + l /\ virtualStdin'[i] = virtualStdin[i] /\ i \in Nat
  BY <1>9, <1>10
<1>12. ASSUME NEW i \in 1 .. n + l, ~(i <= n)
       PROVE  i - n \in 1 .. l /\ virtualStdin'[i] = q[i - n] /\ i \in Nat
  BY <1>9, <1>10, <1>12
<1>13. ASSUME NEW i \in 1 .. l PROVE n + i \in 1 .. n + l /\ virtualStdin'[n + i] = q[i]
  <2>1. n + i \in 1 .. n + l /\ ~(n + i <= n) /\ (n + i) - n = i BY <1>9
  <2> QED BY <1>10, <2>1
<1> HIDE DEF n, l
<1>14. QueueInv'
  <2>1. ASSUME NEW j \in 1 .. n + l
        PROVE  /\ NumberOf(virtualStdin'[j]) \in 1 .. Done + m
               /\ script[NumberOf(virtualStdin'[j])].kind \in {"request", "notification"}
    <3>1. CASE j <= n
      <4>1. j \in 1 .. n BY <1>9, <3>1
      <4>2. NumberOf(virtualStdin[j]) \in 1 .. Done + m BY <1>7, <1>8, <4>1
      <4> QED BY <1>8, <1>11, <4>1, <4>2
    <3>2. CASE ~(j <= n)
      <4>1. j - n \in 1 .. l /\ virtualStdin'[j] = q[j - n] BY <1>12, <3>2
      <4>2. NumberOf(q[j - n]) \in Done + 1 .. Done + m BY <1>5, <4>1 DEF l
      <4>3. NumberOf(q[j - n]) \in 1 .. Done + m BY <1>7, <4>2
      <4> QED BY <1>5, <4>1, <4>3 DEF l
    <3> QED BY <3>1, <3>2
  <2>2. ASSUME NEW i \in 1 .. n + l, NEW j \in 1 .. n + l, i < j
        PROVE  NumberOf(virtualStdin'[i]) < NumberOf(virtualStdin'[j])
    <3>1. i \in Nat /\ j \in Nat BY <1>9
    <3>2. CASE j <= n
      <4>1. i \in 1 .. n /\ j \in 1 .. n BY <1>9, <2>2, <3>1, <3>2
      <4> QED BY <1>8, <1>11, <2>2, <4>1
    <3>3. CASE i <= n /\ ~(j <= n)
      <4>1. i \in 1 .. n BY <1>9, <3>1, <3>3
      <4>2. j - n \in 1 .. l /\ virtualStdin'[j] = q[j - n] BY <1>12, <3>3
      <4>3. NumberOf(q[j - n]) \in Done + 1 .. Done + m BY <1>5, <4>2 DEF l
      <4>4. NumberOf(virtualStdin[i]) \in 1 .. Done BY <1>8, <4>1
      <4>5. NumberOf(virtualStdin[i]) < NumberOf(q[j - n]) BY <1>7, <4>3, <4>4
      <4> QED BY <1>11, <4>1, <4>2, <4>5
    <3>4. CASE ~(i <= n) /\ ~(j <= n)
      <4>1. i - n \in 1 .. l /\ virtualStdin'[i] = q[i - n] BY <1>12, <3>4
      <4>2. j - n \in 1 .. l /\ virtualStdin'[j] = q[j - n] BY <1>12, <3>4
      <4>3. i - n < j - n BY <1>9, <2>2, <3>1
      <4>4. NumberOf(q[i - n]) < NumberOf(q[j - n]) BY <1>5, <4>1, <4>2, <4>3 DEF l
      <4> QED BY <4>1, <4>2, <4>4
    <3>5. ~(i <= n) => ~(j <= n) BY <1>9, <2>2, <3>1
    <3> QED BY <3>2, <3>3, <3>4, <3>5
  <2> QED BY <1>5, <1>6, <1>10, <2>1, <2>2 DEF QueueInv, NumberOf
<1>15. ASSUME NEW i \in 1 .. Done, Past(i) PROVE Past(i)'
  <2>1. ASSUME NEW j \in 1 .. n + l PROVE i < NumberOf(virtualStdin'[j])
    <3>1. CASE j <= n
      <4>1. j \in 1 .. n BY <1>9, <3>1
      <4> QED BY <1>11, <1>15, <4>1 DEF Past, n
    <3>2. CASE ~(j <= n)
      <4>1. j - n \in 1 .. l /\ virtualStdin'[j] = q[j - n] BY <1>12, <3>2
      <4>2. NumberOf(q[j - n]) \in Done + 1 .. Done + m BY <1>5, <4>1 DEF l
      <4>3. i < NumberOf(q[j - n]) BY <1>7, <4>2
      <4> QED BY <4>1, <4>3
    <3> QED BY <3>1, <3>2
  <2> QED BY <1>10, <2>1 DEF Past, NumberOf
<1>16. ASSUME NEW i \in 1 .. Done, NEW id, IsRequest(i, id)
       PROVE  i \in 1 .. Done' /\ IsRequest(i, id)'
  <2>1. i \in 1 .. Done + m BY <1>7
  <2> QED BY <1>5, <1>6, <1>16, <2>1 DEF IsRequest
<1>17. PendingInv'
  <2>1. \A i : Dispatched(i)' = Dispatched(i) BY <1>6 DEF Dispatched
  <2>2. ASSUME NEW p \in unanswered
        PROVE  /\ servedModernEra # "none"
               /\ \E i \in 1 .. Done' : IsRequest(i, p.id)' /\ Past(i)' /\ p = Dispatched(i)'
    <3>1. servedModernEra # "none" BY <1>1 DEF PendingInv
    <3>2. PICK i \in 1 .. Done : IsRequest(i, p.id) /\ Past(i) /\ p = Dispatched(i)
      BY <1>1 DEF PendingInv
    <3> QED BY <1>15, <1>16, <2>1, <3>1, <3>2
  <2> QED BY <1>6, <2>2 DEF PendingInv
<1> DEFINE Reply == {Answer(Null, outcome) : outcome \in {"ParseError", "InvalidRequest"}}
<1>18. sent \in Seq(Replies) BY <1>1 DEF SentInv
<1>19. Replies' = Replies BY <1>6 DEF Replies
<1>20. r \in Seq(Replies) /\ \A i \in 1 .. Len(r) : r[i].id = Null
  <2>1. Reply \subseteq Replies BY DEF Replies, AllOutcomes
  <2>2. \A x \in Reply : x.id = Null BY DEF Answer
  <2>3. r \in Seq(Reply) BY <1>5
  <2> HIDE DEF Reply
  <2>4. \A i \in 1 .. Len(r) : r[i] \in Reply BY <2>3
  <2>5. \A i \in 1 .. Len(r) : r[i] \in Replies BY <2>1, <2>4
  <2>6. r \in Seq(Replies) BY <2>3, <2>5, ElementsMakeSeq
  <2> QED BY <2>2, <2>4, <2>6
<1> HIDE DEF Reply
<1> DEFINE s == Len(sent)
<1>21. /\ s \in Nat /\ sent \o r \in Seq(Replies) /\ Len(sent \o r) = s + Len(r) /\ Len(r) \in Nat
       /\ \A i \in 1 .. s + Len(r) : (sent \o r)[i] = IF i <= s THEN sent[i] ELSE r[i - s]
  BY <1>18, <1>20, ConcatProperties
<1>22. /\ sent' \in Seq(Replies)
       /\ \A k \in 1 .. Len(sent') : sent'[k].id # Null => k \in 1 .. Len(sent) /\ sent'[k] = sent[k]
       /\ \A k \in 1 .. Len(sent) : k \in 1 .. Len(sent') /\ sent'[k] = sent[k]
  <2>1. CASE ~IsWritable BY <1>5, <1>18, <2>1
  <2>2. CASE IsWritable
    <3>1. sent' = sent \o r BY <1>5, <2>2
    <3>2. ASSUME NEW k \in 1 .. s + Len(r), sent'[k].id # Null PROVE k \in 1 .. s /\ sent'[k] = sent[k]
      <4>1. k \in Nat /\ k >= 1 BY <1>21
      <4>2. CASE k <= s BY <1>21, <3>1, <4>1, <4>2
      <4>3. CASE ~(k <= s)
        <5>1. k - s \in 1 .. Len(r) /\ sent'[k] = r[k - s] BY <1>21, <3>1, <4>1, <4>3
        <5> QED BY <1>20, <3>2, <5>1
      <4> QED BY <4>2, <4>3
    <3>3. ASSUME NEW k \in 1 .. s PROVE k \in 1 .. s + Len(r) /\ sent'[k] = sent[k]
      BY <1>21, <3>1
    <3> HIDE DEF s
    <3>4. Len(sent') = s + Len(r) /\ s = Len(sent) /\ sent' \in Seq(Replies) BY <1>21, <3>1 DEF s
    <3> QED BY <3>2, <3>3, <3>4
  <2> QED BY <2>1, <2>2
<1> HIDE DEF s
<1>23. SentInv'
  <2>1. ASSUME NEW k \in 1 .. Len(sent'), sent'[k].id # Null
        PROVE  /\ \E i \in 1 .. Done' : IsRequest(i, sent[k].id)' /\ Past(i)'
               /\ \A p \in unanswered : p.id # sent'[k].id
               /\ sent'[k].outcome # "MethodNotFound"
    <3>1. k \in 1 .. Len(sent) /\ sent'[k] = sent[k] /\ sent[k].id # Null BY <1>22, <2>1
    <3>2. /\ \A p \in unanswered : p.id # sent[k].id
          /\ sent[k].outcome # "MethodNotFound"
      BY <1>1, <3>1 DEF SentInv
    <3>3. PICK i \in 1 .. Done : IsRequest(i, sent[k].id) /\ Past(i) BY <1>1, <3>1 DEF SentInv
    <3>4. i \in 1 .. Done' /\ IsRequest(i, sent[k].id)' /\ Past(i)'
      <4>1. i \in 1 .. Done' /\ Past(i)' BY <1>15, <1>16, <3>3
      <4>2. script'[i].kind = "request" /\ script'[i].id = sent'[k].id
        BY <1>6, <3>1, <3>3 DEF IsRequest
      <4> QED BY <3>1, <4>1, <4>2 DEF IsRequest
    <3> QED BY <3>1, <3>2, <3>4
  <2>2. ASSUME NEW k \in 1 .. Len(sent'), NEW j \in 1 .. Len(sent'),
               sent'[k].id # Null, sent'[k].id = sent'[j].id
        PROVE  k = j
    <3>1. k \in 1 .. Len(sent) /\ j \in 1 .. Len(sent) /\ sent'[k] = sent[k] /\ sent'[j] = sent[j]
      BY <1>22, <2>2
    <3> QED BY <1>1, <2>2, <3>1 DEF SentInv
  <2> QED BY <1>6, <1>19, <1>22, <2>1, <2>2 DEF SentInv
<1>24. CountInv'
  <2> SUFFICES ASSUME shutdown = "none"
               PROVE  /\ Count(Null, {"ParseError"})' = Kind("garbage")'
                      /\ Count(Null, {"InvalidRequest"})' = Kind("bad")'
    BY <1>6 DEF CountInv
  <2>1. sent' = sent \o r BY <1>5 DEF IsWritable
  <2>2. Count(Null, {"ParseError"}) = Kind("garbage") /\ Count(Null, {"InvalidRequest"}) = Kind("bad")
    BY <1>1 DEF CountInv
  <2>3. /\ Count(Null, {"ParseError"}) = Cardinality(Hits(sent, Null, {"ParseError"}))
        /\ Count(Null, {"InvalidRequest"}) = Cardinality(Hits(sent, Null, {"InvalidRequest"}))
        /\ Count(Null, {"ParseError"})' = Cardinality(Hits(sent \o r, Null, {"ParseError"}))
        /\ Count(Null, {"InvalidRequest"})' = Cardinality(Hits(sent \o r, Null, {"InvalidRequest"}))
    BY <2>1 DEF Count, Hits
  <2>4. /\ Cardinality(Hits(sent \o r, Null, {"ParseError"}))
             = Cardinality(Hits(sent, Null, {"ParseError"})) + Cardinality(Hits(r, Null, {"ParseError"}))
        /\ Cardinality(Hits(sent \o r, Null, {"InvalidRequest"}))
             = Cardinality(Hits(sent, Null, {"InvalidRequest"}))
                 + Cardinality(Hits(r, Null, {"InvalidRequest"}))
    BY <1>18, <1>20, HitsOfConcat
  <2>5. ASSUME NEW kind
        PROVE  Kind(kind)' = Kind(kind) + Cardinality(OfKind(Done, m, kind))
    <3>1. Kind(kind) = Cardinality({k \in 1 .. Done : script[k].kind = kind}) BY DEF Kind, Done, Read
    <3>2. Kind(kind)' = Cardinality({k \in 1 .. Done + m : script[k].kind = kind})
      BY <1>5, <1>6 DEF Kind, Done, Read
    <3> DEFINE b == Done
    <3>3. b \in Nat BY <1>7
    <3> HIDE DEF b
    <3>4. Cardinality({k \in 1 .. b + m : script[k].kind = kind})
            = Cardinality({k \in 1 .. b : script[k].kind = kind}) + Cardinality(OfKind(b, m, kind))
      BY <3>3, KindGrows
    <3> QED BY <3>1, <3>2, <3>4 DEF b
  <2> QED BY <1>5, <2>2, <2>3, <2>4, <2>5
<1>25. CoverInv'
  <2>1. ASSUME NEW i \in 1 .. Done + m, script[i].kind = "request"
        PROVE  Settled(i)'
    <3>1. i \in Nat BY <1>7
    <3>2. CASE i <= Done
      <4>1. i \in 1 .. Done BY <1>7, <3>1, <3>2
      <4>2. Settled(i) BY <1>1, <2>1, <4>1 DEF CoverInv
      <4>3. CASE \E j \in 1 .. n : NumberOf(virtualStdin[j]) = i
        BY <1>10, <1>11, <4>3 DEF Settled, NumberOf
      <4>4. CASE \E k \in 1 .. Len(sent) : sent[k].id = script[i].id
        BY <1>6, <1>22, <4>4 DEF Settled
      <4> QED BY <1>6, <4>2, <4>3, <4>4 DEF Settled, n
    <3>3. CASE ~(i <= Done)
      <4>1. i \in Done + 1 .. Done + m BY <1>7, <3>1, <3>3
      <4>2. PICK j \in 1 .. l : NumberOf(q[j]) = i BY <1>5, <2>1, <4>1 DEF l
      <4>3. n + j \in 1 .. n + l /\ virtualStdin'[n + j] = q[j] BY <1>13
      <4> QED BY <1>10, <4>2, <4>3 DEF Settled, NumberOf
    <3> QED BY <3>2, <3>3
  <2> QED BY <1>5, <1>6, <2>1 DEF CoverInv
<1> QED BY <1>2, <1>14, <1>17, <1>23, <1>24, <1>25

-----------------------------------------------------------------------------
(* A message is taken from the queue.                                       *)

LEMMA DispatchTakes ==
  ASSUME ReadInv, QueueInv, Dispatch
  PROVE  \E k \in 1 .. Done :
           /\ virtualStdin # <<>> /\ NumberOf(virtualStdin[1]) = k
           /\ MessageOf(Head(virtualStdin)) = script[k]
           /\ script[k].kind \in {"request", "notification"} /\ script[k].era # "none"
           /\ virtualStdin' \in Seq({LineNo(i) : i \in 1 .. Done})
           /\ Len(virtualStdin) \in Nat /\ Len(virtualStdin) >= 1
           /\ Len(virtualStdin') = Len(virtualStdin) - 1
           /\ \A j \in 1 .. Len(virtualStdin') :
                j + 1 \in 1 .. Len(virtualStdin) /\ virtualStdin'[j] = virtualStdin[j + 1]
           /\ \A j \in 1 .. Len(virtualStdin) :
                j # 1 => j - 1 \in 1 .. Len(virtualStdin') /\ virtualStdin'[j - 1] = virtualStdin[j]
           /\ \A j \in 1 .. Len(virtualStdin') : k < NumberOf(virtualStdin'[j])
<1> DEFINE T == {LineNo(i) : i \in 1 .. Done}
<1>1. virtualStdin # <<>> /\ virtualStdin' = Tail(virtualStdin) BY DEF Dispatch
<1>2. virtualStdin \in Seq(T) BY DEF QueueInv
<1>3. Done \in Nat BY ReadIsNat
<1>4. \A x \in T : \E i \in 1 .. Done : x = LineNo(i) OBVIOUS
<1> HIDE DEF T
<1>5. /\ Tail(virtualStdin) \in Seq(T) /\ Len(Tail(virtualStdin)) = Len(virtualStdin) - 1
      /\ \A j \in 1 .. Len(Tail(virtualStdin)) : Tail(virtualStdin)[j] = virtualStdin[j + 1]
  BY <1>1, <1>2, HeadTailProperties
<1> DEFINE n == Len(virtualStdin)
<1>6. n \in Nat /\ n >= 1 /\ Head(virtualStdin) = virtualStdin[1] /\ virtualStdin[1] \in T
  BY <1>1, <1>2
<1>7. PICK k \in 1 .. Done : virtualStdin[1] = LineNo(k) BY <1>4, <1>6
<1>8. NumberOf(virtualStdin[1]) = k BY <1>7 DEF NumberOf, LineNo
<1>9. MessageOf(Head(virtualStdin)) = script[k]
  <2>1. k \in Nat BY <1>3
  <2> QED BY <1>6, <1>7, <2>1, LinesAreMessages
<1>10. 1 \in 1 .. n BY <1>6
<1>11. script[k].kind \in {"request", "notification"} BY <1>8, <1>10 DEF QueueInv
<1>12. script[k].era # "none"
  <2>1. k \in 1 .. Len(script) BY ReadIsNat
  <2>2. script[k].era \in {"modern", "legacy"} BY <1>11, <2>1, ScriptsAreSequences DEF ReadInv
  <2> QED BY <2>2
<1>13. \A i \in 1 .. n, j \in 1 .. n : i < j => NumberOf(virtualStdin[i]) < NumberOf(virtualStdin[j])
  BY DEF QueueInv
<1> HIDE DEF n
<1>14. \A j \in 1 .. n - 1 : j + 1 \in 1 .. n /\ 1 < j + 1 BY <1>6
<1>15. \A j \in 1 .. n : j # 1 => j - 1 \in 1 .. n - 1 /\ (j - 1) + 1 = j BY <1>6
<1>16. /\ virtualStdin' \in Seq(T) /\ Len(virtualStdin') = n - 1
       /\ \A j \in 1 .. n - 1 : virtualStdin'[j] = virtualStdin[j + 1]
  BY <1>1, <1>5 DEF n
<1>17. \A j \in 1 .. n - 1 : k < NumberOf(virtualStdin[j + 1]) BY <1>8, <1>10, <1>13, <1>14
<1>18. \A j \in 1 .. n - 1 : NumberOf(virtualStdin'[j]) = NumberOf(virtualStdin[j + 1])
  BY <1>16
<1>19. \A j \in 1 .. n : j # 1 => virtualStdin'[j - 1] = virtualStdin[j] BY <1>15, <1>16
<1> QED BY <1>1, <1>6, <1>8, <1>9, <1>11, <1>12, <1>14, <1>15, <1>16, <1>17, <1>18, <1>19 DEF n, T

LEMMA DispatchKeeps ==
  ASSUME WireInv, Dispatch
  PROVE  ReadInv' /\ QueueInv' /\ PendingInv' /\ SentInv' /\ CountInv' /\ CoverInv'
<1>1. /\ ReadInv /\ QueueInv /\ PendingInv /\ SentInv /\ CountInv /\ CoverInv BY DEF WireInv
<1>2. /\ script' = script /\ typed' = typed /\ pipe' = pipe /\ buffered' = buffered
      /\ sent' = sent /\ shutdown' = shutdown
  BY DEF Dispatch
<1>3. ReadInv' /\ Read' = Read BY <1>1, <1>2, UnreadKeeps
<1>4. Done' = Done BY <1>3 DEF Done
<1>5. PICK k \in 1 .. Done :
        /\ virtualStdin # <<>> /\ NumberOf(virtualStdin[1]) = k
        /\ MessageOf(Head(virtualStdin)) = script[k]
        /\ script[k].kind \in {"request", "notification"} /\ script[k].era # "none"
        /\ virtualStdin' \in Seq({LineNo(i) : i \in 1 .. Done})
        /\ Len(virtualStdin) \in Nat /\ Len(virtualStdin) >= 1
        /\ Len(virtualStdin') = Len(virtualStdin) - 1
        /\ \A j \in 1 .. Len(virtualStdin') :
             j + 1 \in 1 .. Len(virtualStdin) /\ virtualStdin'[j] = virtualStdin[j + 1]
        /\ \A j \in 1 .. Len(virtualStdin) :
             j # 1 => j - 1 \in 1 .. Len(virtualStdin') /\ virtualStdin'[j - 1] = virtualStdin[j]
        /\ \A j \in 1 .. Len(virtualStdin') : k < NumberOf(virtualStdin'[j])
  BY <1>1, DispatchTakes
<1> DEFINE m == script[k]
           p0 == [id |-> m.id, request |-> m,
                  intercepted |-> interceptableTaskMethodRequest(m) /\ servedModernEra' = "modern"]
<1>6. /\ servedModernEra' = Era(m)
      /\ unanswered' = IF m.kind # "request" THEN unanswered ELSE unanswered \cup {p0}
      /\ toldCancelled \subseteq toldCancelled'
  BY <1>5 DEF Dispatch
<1>7. servedModernEra' # "none" /\ (servedModernEra # "none" => servedModernEra' = servedModernEra)
  BY <1>5, <1>6 DEF Era
<1>8. Done \in Nat BY <1>1, ReadIsNat
<1>9. QueueInv'
  <2>1. \A j \in 1 .. Len(virtualStdin') :
          /\ NumberOf(virtualStdin'[j]) \in 1 .. Done
          /\ script[NumberOf(virtualStdin'[j])].kind \in {"request", "notification"}
    BY <1>1, <1>5 DEF QueueInv
  <2>2. ASSUME NEW i \in 1 .. Len(virtualStdin'), NEW j \in 1 .. Len(virtualStdin'), i < j
        PROVE  NumberOf(virtualStdin'[i]) < NumberOf(virtualStdin'[j])
    <3>1. /\ i + 1 \in 1 .. Len(virtualStdin) /\ virtualStdin'[i] = virtualStdin[i + 1]
          /\ j + 1 \in 1 .. Len(virtualStdin) /\ virtualStdin'[j] = virtualStdin[j + 1]
      BY <1>5
    <3>2. i + 1 < j + 1 BY <1>5, <2>2
    <3>3. NumberOf(virtualStdin[i + 1]) < NumberOf(virtualStdin[j + 1])
      BY <1>1, <3>1, <3>2 DEF QueueInv
    <3> QED BY <3>1, <3>3
  <2> QED BY <1>2, <1>4, <1>5, <2>1, <2>2 DEF QueueInv, NumberOf
<1>10. ASSUME NEW i, Past(i) PROVE Past(i)' /\ i < k
  <2>1. 1 \in 1 .. Len(virtualStdin) BY <1>5
  <2>2. i < k BY <1>5, <1>10, <2>1 DEF Past
  <2>3. \A j \in 1 .. Len(virtualStdin') : i < NumberOf(virtualStdin'[j]) BY <1>5, <1>10 DEF Past
  <2> QED BY <2>2, <2>3 DEF Past, NumberOf
<1>11. Past(k)' BY <1>5 DEF Past, NumberOf
<1>12. \A i, id : IsRequest(i, id)' <=> IsRequest(i, id) BY <1>2, <1>4 DEF IsRequest
<1>13. servedModernEra # "none" => \A i : Dispatched(i)' = Dispatched(i)
  BY <1>2, <1>7 DEF Dispatched
<1>14. Dispatched(k)' = p0 BY <1>2 DEF Dispatched
<1>15. PendingInv'
  <2>1. ASSUME NEW p \in unanswered
        PROVE  \E i \in 1 .. Done : IsRequest(i, p.id)' /\ Past(i)' /\ p = Dispatched(i)'
    <3>1. servedModernEra # "none" BY <1>1 DEF PendingInv
    <3>2. PICK i \in 1 .. Done : IsRequest(i, p.id) /\ Past(i) /\ p = Dispatched(i)
      BY <1>1 DEF PendingInv
    <3> QED BY <1>10, <1>12, <1>13, <3>1, <3>2
  <2>2. p0.id = m.id OBVIOUS
  <2> HIDE DEF p0
  <2>3. ASSUME NEW p \in unanswered'
        PROVE  \E i \in 1 .. Done : IsRequest(i, p.id)' /\ Past(i)' /\ p = Dispatched(i)'
    <3>1. CASE p \in unanswered BY <2>1, <3>1
    <3>2. CASE p = p0 /\ m.kind = "request"
      <4>1. script'[k].kind = "request" /\ script'[k].id = p.id BY <1>2, <2>2, <3>2
      <4>2. IsRequest(k, p.id)' BY <1>4, <4>1 DEF IsRequest
      <4> QED BY <1>11, <1>14, <3>2, <4>2
    <3> QED BY <1>6, <3>1, <3>2
  <2> QED BY <1>4, <1>7, <2>3 DEF PendingInv
<1>16. Replies' = Replies BY <1>2 DEF Replies
<1>17. SentInv'
  <2>1. ASSUME NEW j \in 1 .. Len(sent), sent[j].id # Null
        PROVE  /\ \E i \in 1 .. Done : IsRequest(i, sent[j].id) /\ Past(i)'
               /\ \A p \in unanswered' : p.id # sent[j].id
               /\ sent[j].outcome # "MethodNotFound"
    <3>1. /\ \A p \in unanswered : p.id # sent[j].id
          /\ sent[j].outcome # "MethodNotFound"
      BY <1>1, <2>1 DEF SentInv
    <3>2. PICK i \in 1 .. Done : IsRequest(i, sent[j].id) /\ Past(i) BY <1>1, <2>1 DEF SentInv
    <3>3. Past(i)' /\ i < k BY <1>10, <3>2
    <3>4. m.kind = "request" => m.id # sent[j].id
      <4>1. i # k BY <1>8, <3>3
      <4>2. i \in 1 .. Len(script) /\ k \in 1 .. Len(script) BY <1>1, ReadIsNat
      <4>3. script[i].kind = "request" /\ script[i].id = sent[j].id BY <3>2 DEF IsRequest
      <4> QED BY <1>1, <4>1, <4>2, <4>3, ScriptsAreSequences DEF ReadInv
    <3>5. \A p \in unanswered' : p.id # sent[j].id BY <1>6, <3>1, <3>4
    <3> QED BY <3>1, <3>2, <3>3, <3>5
  <2> QED BY <1>1, <1>2, <1>4, <1>16, <2>1 DEF SentInv, IsRequest
<1>18. CountInv'
  <2>1. \A id, outcomes : Count(id, outcomes)' = Count(id, outcomes) BY <1>2 DEF Count
  <2>2. \A kind : Kind(kind)' = Kind(kind) BY <1>2 DEF Kind
  <2> QED BY <1>1, <1>2, <2>1, <2>2 DEF CountInv
<1>19. CoverInv'
  <2>1. ASSUME NEW i \in 1 .. Done, script[i].kind = "request" PROVE Settled(i)'
    <3>1. Settled(i) BY <1>1, <2>1 DEF CoverInv
    <3>2. CASE \E j \in 1 .. Len(virtualStdin) : NumberOf(virtualStdin[j]) = i
      <4>1. PICK j \in 1 .. Len(virtualStdin) : NumberOf(virtualStdin[j]) = i BY <3>2
      <4>2. CASE j = 1
        <5>1. i = k BY <1>5, <4>1, <4>2
        <5>2. p0 \in unanswered' /\ p0.id = script[i].id BY <1>6, <2>1, <5>1
        <5> QED BY <1>2, <5>2 DEF Settled
      <4>3. CASE j # 1 BY <1>5, <4>1, <4>3 DEF Settled, NumberOf
      <4> QED BY <4>2, <4>3
    <3>3. CASE \E p \in unanswered : p.id = script[i].id BY <1>2, <1>6, <3>3 DEF Settled
    <3>4. CASE script[i].id \in toldCancelled BY <1>2, <1>6, <3>4 DEF Settled
    <3> QED BY <1>2, <3>1, <3>2, <3>3, <3>4 DEF Settled
  <2> QED BY <1>2, <1>4, <2>1 DEF CoverInv
<1> QED BY <1>3, <1>9, <1>15, <1>17, <1>18, <1>19

-----------------------------------------------------------------------------
(* A request is answered, or was cancelled and is not.                      *)

AnswersOne(p, outcome) ==
  /\ p \in unanswered /\ outcome \in AllOutcomes \ {"MethodNotFound"}
  /\ unanswered' = unanswered \ {p}
  /\ \/ p.id \in toldCancelled /\ sent' = sent
     \/ sent' = IF IsWritable THEN Append(sent, Answer(p.id, outcome)) ELSE sent

LEMMA AnswerKeeps ==
  ASSUME WireInv, NEW p, NEW outcome, AnswersOne(p, outcome),
         UNCHANGED <<wireVars, servedModernEra, toldCancelled, shutdown>>
  PROVE  ReadInv' /\ QueueInv' /\ PendingInv' /\ SentInv' /\ CountInv' /\ CoverInv'
<1>1. /\ ReadInv /\ QueueInv /\ PendingInv /\ SentInv /\ CountInv /\ CoverInv BY DEF WireInv
<1>2. /\ script' = script /\ typed' = typed /\ pipe' = pipe /\ buffered' = buffered
      /\ virtualStdin' = virtualStdin /\ servedModernEra' = servedModernEra
      /\ toldCancelled' = toldCancelled /\ shutdown' = shutdown
  BY DEF wireVars
<1>3. /\ p \in unanswered /\ unanswered' = unanswered \ {p}
      /\ outcome \in AllOutcomes /\ outcome # "MethodNotFound"
      /\ \/ p.id \in toldCancelled /\ sent' = sent
         \/ sent' = IF IsWritable THEN Append(sent, Answer(p.id, outcome)) ELSE sent
  BY DEF AnswersOne
<1>4. ReadInv' /\ Read' = Read BY <1>1, <1>2, UnreadKeeps
<1>5. Done' = Done BY <1>4 DEF Done
<1>6. QueueInv' BY <1>1, <1>2, <1>5 DEF QueueInv
<1>7. \A i : Past(i)' <=> Past(i) BY <1>2 DEF Past
<1>8. \A i, id : IsRequest(i, id)' <=> IsRequest(i, id) BY <1>2, <1>5 DEF IsRequest
<1>9. \A i : Dispatched(i)' = Dispatched(i) BY <1>2 DEF Dispatched
<1>10. PendingInv' BY <1>1, <1>2, <1>3, <1>5, <1>7, <1>8, <1>9 DEF PendingInv
<1>11. PICK k \in 1 .. Done : IsRequest(k, p.id) /\ Past(k) /\ p = Dispatched(k)
  BY <1>1, <1>3 DEF PendingInv
<1>12. k \in 1 .. Len(script) /\ k \in DOMAIN script BY <1>1, ReadIsNat
<1>13. script[k].kind = "request" /\ script[k].id = p.id BY <1>11 DEF IsRequest
<1>14. p.id # Null BY <1>1, <1>12, <1>13, ScriptsAreSequences DEF ReadInv
<1>15. ASSUME NEW q \in unanswered, q.id = p.id PROVE q = p
  <2>1. PICK i \in 1 .. Done : IsRequest(i, q.id) /\ Past(i) /\ q = Dispatched(i)
    BY <1>1 DEF PendingInv
  <2>2. i \in 1 .. Len(script) BY <1>1, ReadIsNat
  <2>3. i = k BY <1>1, <1>12, <1>13, <1>15, <2>1, <2>2, ScriptsAreSequences DEF ReadInv, IsRequest
  <2> QED BY <1>11, <2>1, <2>3
<1>16. Replies' = Replies BY <1>2 DEF Replies
<1>17. sent \in Seq(Replies) /\ Len(sent) \in Nat BY <1>1 DEF SentInv
<1>18. \/ sent' = sent
       \/ sent' = Append(sent, Answer(p.id, outcome))
  BY <1>3
<1>19. sent' = sent => p.id \in toldCancelled \/ shutdown # "none"
  <2>1. ASSUME sent' = sent, IsWritable, p.id \notin toldCancelled PROVE FALSE
    <3>1. sent' = Append(sent, Answer(p.id, outcome)) BY <1>3, <2>1
    <3>2. Len(sent') = Len(sent) + 1 BY <1>17, <3>1
    <3> QED BY <1>17, <2>1, <3>2
  <2>2. shutdown = "none" => IsWritable BY DEF IsWritable
  <2> QED BY <2>1, <2>2
<1>20. ASSUME NEW j \in 1 .. Len(sent) PROVE sent[j].id # p.id
  <2>1. CASE sent[j].id = Null BY <1>14, <2>1
  <2>2. CASE sent[j].id # Null BY <1>1, <1>3, <2>2 DEF SentInv
  <2> QED BY <2>1, <2>2
<1> DEFINE reply == Answer(p.id, outcome)
<1>21. reply \in Replies /\ reply.id = p.id /\ reply.outcome = outcome
  <2> DEFINE ids == {script[i].id : i \in {j \in DOMAIN script : script[j].kind = "request"}}
  <2>1. p.id \in ids BY <1>12, <1>13
  <2> HIDE DEF ids
  <2>2. p.id \in {Null} \cup ids BY <2>1
  <2>3. \A id \in {Null} \cup ids : \A o \in AllOutcomes : Answer(id, o) \in Replies
    BY DEF Replies, ids
  <2>4. reply \in Replies BY <1>3, <2>2, <2>3
  <2> QED BY <2>4 DEF Answer
<1> HIDE DEF reply
<1>22. CASE sent' = sent
  <2>1. SentInv' BY <1>1, <1>2, <1>3, <1>5, <1>7, <1>8, <1>16, <1>22 DEF SentInv
  <2>2. CountInv'
    <3>1. \A id, outcomes : Count(id, outcomes)' = Count(id, outcomes) BY <1>22 DEF Count
    <3>2. \A kind : Kind(kind)' = Kind(kind) BY <1>2 DEF Kind
    <3> QED BY <1>1, <1>2, <3>1, <3>2 DEF CountInv
  <2>3. CoverInv'
    <3>1. ASSUME NEW i \in 1 .. Done, script[i].kind = "request" PROVE Settled(i)'
      <4>1. Settled(i) BY <1>1, <3>1 DEF CoverInv
      <4>2. CASE script[i].id = p.id BY <1>2, <1>19, <1>22, <4>2 DEF Settled
      <4>3. CASE script[i].id # p.id BY <1>2, <1>3, <1>22, <4>1, <4>3 DEF Settled, NumberOf
      <4> QED BY <4>2, <4>3
    <3> QED BY <1>2, <1>5, <3>1 DEF CoverInv
  <2> QED BY <1>4, <1>6, <1>10, <2>1, <2>2, <2>3
<1>23. CASE sent' = Append(sent, reply)
  <2> DEFINE s == Len(sent)
  <2>1. /\ sent' \in Seq(Replies) /\ Len(sent') = s + 1
        /\ \A j \in 1 .. s : sent'[j] = sent[j]
        /\ sent'[s + 1] = reply
    BY <1>17, <1>21, <1>23, AppendProperties
  <2>2. \A j \in 1 .. s + 1 : j \in 1 .. s \/ j = s + 1 BY <1>17
  <2>3. \A j \in 1 .. s : j \in 1 .. s + 1 BY <1>17
  <2>4. s + 1 \in 1 .. s + 1 BY <1>17
  <2>5. SentInv'
    <3>1. ASSUME NEW j \in 1 .. s + 1, sent'[j].id # Null
          PROVE  /\ \E i \in 1 .. Done : IsRequest(i, sent[j].id)' /\ Past(i)'
                 /\ \A q \in unanswered' : q.id # sent'[j].id
                 /\ sent'[j].outcome # "MethodNotFound"
      <4>1. CASE j \in 1 .. s
        <5>1. sent'[j] = sent[j] BY <2>1, <4>1
        <5>2. /\ \A q \in unanswered : q.id # sent[j].id
              /\ sent[j].outcome # "MethodNotFound"
          BY <1>1, <3>1, <4>1, <5>1 DEF SentInv
        <5>3. PICK i \in 1 .. Done : IsRequest(i, sent[j].id) /\ Past(i)
          BY <1>1, <3>1, <4>1, <5>1 DEF SentInv
        <5>4. IsRequest(i, sent[j].id)' BY <1>2, <1>5, <5>1, <5>3 DEF IsRequest
        <5> QED BY <1>3, <1>7, <5>1, <5>2, <5>3, <5>4
      <4>2. CASE j = s + 1
        <5>1. sent'[j].id = p.id /\ sent'[j].outcome = outcome BY <1>21, <2>1, <4>2
        <5>2. IsRequest(k, sent[j].id)' BY <1>2, <1>5, <1>13, <5>1 DEF IsRequest
        <5>3. \A q \in unanswered' : q.id # p.id BY <1>3, <1>15
        <5> QED BY <1>3, <1>7, <1>11, <5>1, <5>2, <5>3
      <4> QED BY <2>2, <4>1, <4>2
    <3>2. ASSUME NEW i \in 1 .. s + 1, NEW j \in 1 .. s + 1, sent'[i].id # Null, sent'[i].id = sent'[j].id
          PROVE  i = j
      <4>1. CASE i \in 1 .. s /\ j \in 1 .. s
        <5>1. sent[i].id # Null /\ sent[i].id = sent[j].id BY <2>1, <3>2, <4>1
        <5> QED BY <1>1, <4>1, <5>1 DEF SentInv
      <4>2. CASE i \in 1 .. s /\ j = s + 1
        <5>1. sent[i].id = p.id BY <1>21, <2>1, <3>2, <4>2
        <5> QED BY <1>20, <4>2, <5>1
      <4>3. CASE i = s + 1 /\ j \in 1 .. s
        <5>1. sent[j].id = p.id BY <1>21, <2>1, <3>2, <4>3
        <5> QED BY <1>20, <4>3, <5>1
      <4> QED BY <2>2, <4>1, <4>2, <4>3
    <3> QED BY <1>5, <1>16, <2>1, <3>1, <3>2 DEF SentInv
  <2>6. CountInv'
    <3>1. ASSUME NEW outcomes PROVE Count(Null, outcomes)' = Count(Null, outcomes)
      <4>1. DOMAIN sent = 1 .. s /\ DOMAIN sent' = 1 .. s + 1 BY <1>17, <2>1
      <4>2. sent'[s + 1].id # Null BY <1>14, <1>21, <2>1
      <4>3. {j \in DOMAIN sent' : sent'[j].id = Null /\ sent'[j].outcome \in outcomes}
              = {j \in DOMAIN sent : sent[j].id = Null /\ sent[j].outcome \in outcomes}
        BY <2>1, <2>2, <2>3, <4>1, <4>2
      <4> QED BY <4>3 DEF Count
    <3>2. \A kind : Kind(kind)' = Kind(kind) BY <1>2 DEF Kind
    <3> QED BY <1>1, <1>2, <3>1, <3>2 DEF CountInv
  <2>7. CoverInv'
    <3>1. ASSUME NEW i \in 1 .. Done, script[i].kind = "request" PROVE Settled(i)'
      <4>1. Settled(i) BY <1>1, <3>1 DEF CoverInv
      <4>2. CASE script[i].id = p.id
        <5>1. sent'[s + 1].id = script[i].id BY <1>21, <2>1, <4>2
        <5> QED BY <1>2, <2>1, <2>4, <5>1 DEF Settled
      <4>3. CASE script[i].id # p.id /\ \E j \in 1 .. s : sent[j].id = script[i].id
        <5>1. \E j \in 1 .. s + 1 : sent'[j].id = script[i].id BY <2>1, <2>3, <4>3
        <5> QED BY <1>2, <2>1, <5>1 DEF Settled
      <4>4. CASE script[i].id # p.id /\ ~\E j \in 1 .. s : sent[j].id = script[i].id
        BY <1>2, <1>3, <4>1, <4>4 DEF Settled, NumberOf
      <4> QED BY <4>2, <4>3, <4>4
    <3> QED BY <1>2, <1>5, <3>1 DEF CoverInv
  <2> QED BY <1>4, <1>6, <1>10, <2>5, <2>6, <2>7
<1> QED BY <1>18, <1>22, <1>23 DEF reply

LEMMA InterceptedAnswersKeep ==
  ASSUME WireInv, InterceptedAnswers
  PROVE  ReadInv' /\ QueueInv' /\ PendingInv' /\ SentInv' /\ CountInv' /\ CoverInv'
<1>1. PICK p \in unanswered :
        \E outcome \in IF p.request.valid THEN {"result", "InvalidParams"} ELSE {"InvalidParams"} :
          Answers(p, outcome)
  BY DEF InterceptedAnswers
<1>2. PICK outcome \in {"result", "InvalidParams"} : Answers(p, outcome) BY <1>1
<1>3. AnswersOne(p, outcome) BY <1>2 DEF AnswersOne, Answers, AllOutcomes
<1>4. UNCHANGED <<wireVars, servedModernEra, toldCancelled, shutdown>>
  BY DEF InterceptedAnswers, dispatchRest, stopVars
<1> QED BY <1>3, <1>4, AnswerKeeps

LEMMA HandlerAnswersKeep ==
  ASSUME WireInv, HandlerAnswers
  PROVE  ReadInv' /\ QueueInv' /\ PendingInv' /\ SentInv' /\ CountInv' /\ CoverInv'
<1>1. PICK p \in unanswered :
        /\ ~p.intercepted
        /\ \E outcome \in Outcomes(p.request) :
             IF p.id \in toldCancelled THEN unanswered' = unanswered \ {p} /\ sent' = sent
             ELSE Answers(p, outcome)
  BY DEF HandlerAnswers
<1>2. PICK outcome \in Outcomes(p.request) :
        IF p.id \in toldCancelled THEN unanswered' = unanswered \ {p} /\ sent' = sent
        ELSE Answers(p, outcome)
  BY <1>1
<1>3. PICK i \in 1 .. Done : IsRequest(i, p.id) /\ Past(i) /\ p = Dispatched(i)
  BY DEF WireInv, PendingInv
<1>4. p.request = script[i] /\ script[i].kind = "request"
      /\ p.intercepted = (interceptableTaskMethodRequest(script[i]) /\ servedModernEra = "modern")
  BY <1>3 DEF Dispatched, IsRequest
<1>5. ~(p.request.method \in {"tasks/get", "tasks/cancel"} /\ servedModernEra = "modern")
  BY <1>1, <1>4 DEF interceptableTaskMethodRequest
<1>6. outcome \in AllOutcomes \ {"MethodNotFound"}
  <2> DEFINE method == p.request.method
  <2>1. CASE method = "initialize" BY <1>2, <2>1 DEF Outcomes, AllOutcomes
  <2>2. CASE method = "tools/call" BY <1>2, <2>2 DEF Outcomes, AllOutcomes
  <2>3. CASE method \in {"tasks/get", "tasks/cancel"}
    BY <1>2, <1>5, <2>3 DEF Outcomes, AllOutcomes
  <2>4. CASE method \notin {"initialize", "tools/call", "tasks/get", "tasks/cancel"}
    BY <1>2, <2>4 DEF Outcomes, AllOutcomes
  <2> QED BY <2>1, <2>2, <2>3, <2>4
<1>7. AnswersOne(p, outcome) BY <1>2, <1>6 DEF AnswersOne, Answers
<1>8. UNCHANGED <<wireVars, servedModernEra, toldCancelled, shutdown>>
  BY DEF HandlerAnswers, dispatchRest, stopVars
<1> QED BY <1>7, <1>8, AnswerKeeps

-----------------------------------------------------------------------------
(* The jobs and the shutdown.                                               *)

LEMMA JobsKeep ==
  ASSUME WireInv, [ServerNext]_srvVars
  PROVE  JobsInv'
<1>1. JobsInv /\ PendingInv BY DEF WireInv
<1>2. ASSUME jobs' = jobs, servedModernEra' = servedModernEra, reaped' = reaped,
             admitting' = admitting, shutdown' = shutdown
      PROVE  JobsInv'
  BY <1>1, <1>2 DEF JobsInv, NoJobIsLeftBehind
<1>3. CASE ClientWrites \/ ClientCloses
  BY <1>2, <1>3 DEF ClientWrites, ClientCloses, dispatchVars, stopVars
<1>4. CASE StdinData BY <1>2, <1>4 DEF StdinData, dispatchVars, stopVars
<1>5. CASE Dispatch
  <2>1. jobs' = jobs /\ reaped' = reaped /\ shutdown' = shutdown /\ Up /\ shutdown # "closing"
    BY <1>5 DEF Dispatch
  <2>2. ASSUME servedModernEra # "none"
        PROVE  servedModernEra' = servedModernEra /\ (~admitting => ~admitting')
    <3>1. servedModernEra' = Era(MessageOf(Head(virtualStdin))) BY <1>5 DEF Dispatch
    <3>2. admitting' = (admitting \/ FALSE) BY <1>5, <2>2 DEF Dispatch
    <3>3. ~admitting => ~admitting' BY <3>2
    <3>4. servedModernEra' = servedModernEra BY <2>2, <3>1 DEF Era
    <3> QED BY <3>3, <3>4
  <2>3. CASE servedModernEra = "none"
    <3>1. jobs = {} /\ shutdown # "reaping" BY <1>1, <2>3 DEF JobsInv
    <3>2. shutdown' \notin {"reaping", "closing", "exited"} BY <2>1, <3>1 DEF Up
    <3> QED BY <2>1, <3>1, <3>2 DEF JobsInv, NoJobIsLeftBehind
  <2>4. CASE servedModernEra # "none"
    <3>1. servedModernEra' = servedModernEra /\ (~admitting => ~admitting') BY <2>2, <2>4
    <3> QED BY <1>1, <2>1, <3>1 DEF JobsInv, NoJobIsLeftBehind
  <2> QED BY <2>3, <2>4
<1>6. CASE InterceptedAnswers
  BY <1>2, <1>6 DEF InterceptedAnswers, dispatchRest, stopVars
<1>7. CASE HandlerAnswers
  <2>1. /\ servedModernEra' = servedModernEra /\ reaped' = reaped /\ admitting' = admitting
        /\ shutdown' = shutdown
    BY <1>7 DEF HandlerAnswers, dispatchRest, stopVars
  <2>2. PICK p \in unanswered :
          \E outcome \in Outcomes(p.request) :
            jobs' = IF p.request.method = "tools/call" /\ outcome = "result" /\ admitting
                      THEN jobs \cup {p.id} ELSE jobs
    BY <1>7 DEF HandlerAnswers
  <2>3. jobs' = jobs \/ (admitting /\ jobs' = jobs \cup {p.id}) BY <2>2
  <2>4. servedModernEra # "none" BY <1>1, <2>2 DEF PendingInv
  <2>5. CASE jobs' = jobs BY <1>2, <2>1, <2>5
  <2>6. CASE admitting /\ jobs' = jobs \cup {p.id}
    BY <1>1, <2>1, <2>4, <2>6 DEF JobsInv, NoJobIsLeftBehind
  <2> QED BY <2>3, <2>5, <2>6
<1>8. ASSUME BeginsShutdown, jobs' = jobs, servedModernEra' = servedModernEra PROVE JobsInv'
  <2>1. CASE shutdown # "none" BY <1>2, <1>8, <2>1 DEF BeginsShutdown
  <2>2. CASE shutdown = "none"
    BY <1>1, <1>8, <2>2 DEF BeginsShutdown, JobsInv, NoJobIsLeftBehind
  <2> QED BY <2>1, <2>2
<1>9. CASE Signalled
  <2>1. jobs' = jobs /\ servedModernEra' = servedModernEra BY <1>9 DEF Signalled, dispatchVars
  <2>2. PICK signal \in {"SIGTERM", "SIGINT"} :
          IF signal \in handlers
            THEN handlers' = handlers \ {signal} /\ BeginsShutdown
            ELSE shutdown' = "killed" /\ UNCHANGED <<handlers, admitting, reaped>>
    BY <1>9 DEF Signalled
  <2>3. CASE BeginsShutdown BY <1>8, <2>1, <2>3
  <2>4. CASE shutdown' = "killed" BY <1>1, <2>1, <2>4 DEF JobsInv, NoJobIsLeftBehind
  <2> QED BY <2>2, <2>3, <2>4
<1>10. CASE StdinEnds BY <1>8, <1>10 DEF StdinEnds, dispatchVars
<1>11. CASE Reaped
  BY <1>1, <1>11 DEF Reaped, dispatchVars, JobsInv, NoJobIsLeftBehind
<1>12. CASE Exits
  BY <1>1, <1>12 DEF Exits, dispatchVars, JobsInv, NoJobIsLeftBehind
<1>13. CASE UNCHANGED srvVars BY <1>2, <1>13 DEF srvVars, dispatchVars, stopVars
<1> QED
  BY <1>3, <1>4, <1>5, <1>6, <1>7, <1>9, <1>10, <1>11, <1>12, <1>13 DEF ServerNext

LEMMA QuietSteps ==
  ASSUME WireInv,
         ClientWrites \/ ClientCloses \/ Signalled \/ StdinEnds \/ Reaped \/ Exits \/ UNCHANGED srvVars
  PROVE  ReadInv' /\ QueueInv' /\ PendingInv' /\ SentInv' /\ CountInv' /\ CoverInv'
<1>1. /\ ReadInv /\ QueueInv /\ PendingInv /\ SentInv /\ CountInv /\ CoverInv BY DEF WireInv
<1>2. ASSUME UNCHANGED wireVars \/ UNCHANGED <<script, typed, pipe, buffered, virtualStdin>>,
             UNCHANGED <<dispatchVars, sent>>, shutdown' = "none" => shutdown = "none"
      PROVE  ReadInv' /\ QueueInv' /\ PendingInv' /\ SentInv' /\ CountInv' /\ CoverInv'
  <2>1. /\ script' = script /\ typed' = typed /\ pipe' = pipe /\ buffered' = buffered
        /\ virtualStdin' = virtualStdin
    BY <1>2 DEF wireVars
  <2>2. ReadInv' /\ Read' = Read BY <1>1, <2>1, UnreadKeeps
  <2>3. Quiet BY <1>2, <2>1, <2>2 DEF Quiet, dispatchVars
  <2> QED BY <1>1, <2>2, <2>3, QuietKeeps
<1>3. CASE ClientWrites
  <2>1. ReadInv' /\ Read' = Read BY <1>1, <1>3, WritesKeeps
  <2>2. Quiet BY <1>3, <2>1 DEF Quiet, ClientWrites, dispatchVars, stopVars
  <2> QED BY <1>1, <2>1, <2>2, QuietKeeps
<1>4. CASE ClientCloses BY <1>2, <1>4 DEF ClientCloses, stopVars
<1>5. BeginsShutdown => (shutdown' = "none" => shutdown = "none") BY DEF BeginsShutdown
<1>6. CASE Signalled
  <2>1. shutdown' = "none" => shutdown = "none" BY <1>5, <1>6 DEF Signalled
  <2> QED BY <1>2, <1>6, <2>1 DEF Signalled
<1>7. CASE StdinEnds BY <1>2, <1>5, <1>7 DEF StdinEnds
<1>8. CASE Reaped BY <1>2, <1>8 DEF Reaped
<1>9. CASE Exits BY <1>2, <1>9 DEF Exits
<1>10. CASE UNCHANGED srvVars BY <1>2, <1>10 DEF srvVars, stopVars
<1> QED BY <1>3, <1>4, <1>6, <1>7, <1>8, <1>9, <1>10

LEMMA WireStarts ==
  ASSUME ServerInit
  PROVE  WireInv
<1>1. /\ script \in Scripts /\ typed = 0 /\ pipe = <<>> /\ buffered = <<>> /\ virtualStdin = <<>>
      /\ servedModernEra = "none" /\ unanswered = {} /\ sent = <<>> /\ jobs = {} /\ shutdown = "none"
  BY DEF ServerInit
<1>2. Len(script) \in Nat BY <1>1, ScriptsAreSequences
<1>3. Read = 0 /\ Done = 0
  <2>1. Len(pipe) = 0 BY <1>1
  <2>2. typed = 0 /\ Read = typed - Len(pipe) BY <1>1 DEF Read
  <2>3. Read = 0 BY <2>1, <2>2
  <2>4. Done = Read \div 3 BY DEF Done
  <2> QED BY <2>3, <2>4
<1>4. ReadInv
  <2>1. <<>> \in Seq(Fragment) /\ Len(<<>>) = 0 OBVIOUS
  <2> QED BY <1>1, <1>2, <1>3, <2>1 DEF ReadInv
<1>5. QueueInv BY <1>1 DEF QueueInv
<1>6. PendingInv BY <1>1 DEF PendingInv
<1>7. SentInv BY <1>1 DEF SentInv
<1>8. CountInv
  <2>1. \A kind : Kind(kind) = 0
    <3>1. \A kind : {k \in 1 .. 0 : script[k].kind = kind} = {} OBVIOUS
    <3>2. \A kind : Kind(kind) = Cardinality({k \in 1 .. Done : script[k].kind = kind})
      BY DEF Kind, Done, Read
    <3> QED BY <1>3, <3>1, <3>2, FS_EmptySet
  <2>2. \A id, outcomes : Count(id, outcomes) = 0
    <3>1. DOMAIN sent = {} BY <1>1
    <3>2. \A id, outcomes : {k \in DOMAIN sent : sent[k].id = id /\ sent[k].outcome \in outcomes} = {}
      BY <3>1
    <3> QED BY <3>2, FS_EmptySet DEF Count
  <2> QED BY <2>1, <2>2 DEF CountInv
<1>9. CoverInv BY <1>3 DEF CoverInv
<1>10. JobsInv BY <1>1 DEF JobsInv, NoJobIsLeftBehind
<1> QED BY <1>4, <1>5, <1>6, <1>7, <1>8, <1>9, <1>10 DEF WireInv

LEMMA WireIsKept ==
  ASSUME WireInv, [ServerNext]_srvVars
  PROVE  WireInv'
<1>1. JobsInv' BY JobsKeep
<1>2. CASE StdinData BY <1>1, <1>2, StdinKeeps DEF WireInv
<1>3. CASE Dispatch BY <1>1, <1>3, DispatchKeeps DEF WireInv
<1>4. CASE InterceptedAnswers BY <1>1, <1>4, InterceptedAnswersKeep DEF WireInv
<1>5. CASE HandlerAnswers BY <1>1, <1>5, HandlerAnswersKeep DEF WireInv
<1>6. CASE ClientWrites \/ ClientCloses \/ Signalled \/ StdinEnds \/ Reaped \/ Exits
           \/ UNCHANGED srvVars
  BY <1>1, <1>6, QuietSteps DEF WireInv
<1> QED BY <1>2, <1>3, <1>4, <1>5, <1>6 DEF ServerNext

(* However the text is cut into chunks, what was read is the client's text, *)
(* each message waits, is pending, answered or cancelled, and only once.    *)
THEOREM WireInvariance == ServerSpec => []WireInv
<1>1. ServerInit => WireInv BY WireStarts
<1>2. WireInv /\ [ServerNext]_srvVars => WireInv' BY WireIsKept
<1> QED BY <1>1, <1>2, PTL DEF ServerSpec

LEMMA AnsweredOnce ==
  ASSUME WireInv
  PROVE  EachLineIsAnswered
<1>1. /\ ReadInv /\ SentInv /\ CountInv /\ CoverInv BY DEF WireInv
<1>2. Complete = {script[k] : k \in 1 .. Done} BY DEF Complete, Done, Read
<1> DEFINE requests == {m \in Complete : m.kind = "request"}
           all(m) == {sent[k].outcome : k \in {j \in DOMAIN sent : sent[j].id = m.id}}
<1>3. DOMAIN sent = 1 .. Len(sent) BY <1>1 DEF SentInv
<1>4. ASSUME NEW k \in DOMAIN sent, sent[k].id # Null PROVE \E m \in requests : m.id = sent[k].id
  <2>1. PICK i \in 1 .. Done : IsRequest(i, sent[k].id) BY <1>1, <1>3, <1>4 DEF SentInv
  <2>2. script[i] \in requests /\ script[i].id = sent[k].id BY <1>2, <2>1 DEF IsRequest
  <2> QED BY <2>2
<1>5. ASSUME NEW m \in requests
      PROVE  /\ Count(m.id, all(m)) <= 1 /\ "MethodNotFound" \notin all(m)
             /\ shutdown = "none" /\ virtualStdin = <<>> /\ unanswered = {} =>
                  m.id \in toldCancelled \/ all(m) # {}
  <2>1. PICK i \in 1 .. Done : m = script[i] BY <1>2
  <2>2. i \in 1 .. Len(script) BY <1>1, ReadIsNat
  <2>3. m.kind = "request" /\ m.id # Null
    BY <1>1, <2>1, <2>2, ScriptsAreSequences DEF ReadInv
  <2> DEFINE H == {k \in DOMAIN sent : sent[k].id = m.id /\ sent[k].outcome \in all(m)}
  <2>4. \A k \in H, j \in H : k = j BY <1>1, <1>3, <2>3 DEF SentInv
  <2>5. Cardinality(H) <= 1
    <3> HIDE DEF H
    <3>1. CASE H = {}
      <4>1. Cardinality(H) = 0 BY <3>1, FS_EmptySet
      <4> QED BY <4>1
    <3>2. CASE H # {}
      <4>1. PICK k \in H : TRUE BY <3>2
      <4>2. H = {k} BY <2>4, <4>1
      <4>3. Cardinality(H) = 1 BY <4>2, FS_Singleton
      <4> QED BY <4>3
    <3> QED BY <3>1, <3>2
  <2>6. Count(m.id, all(m)) <= 1 BY <2>5 DEF Count
  <2>7. "MethodNotFound" \notin all(m) BY <1>1, <1>3, <2>3 DEF SentInv
  <2>8. ASSUME shutdown = "none", virtualStdin = <<>>, unanswered = {}
        PROVE  m.id \in toldCancelled \/ all(m) # {}
    <3>1. Settled(i) BY <1>1, <2>1, <2>3 DEF CoverInv
    <3>2. Len(virtualStdin) = 0 BY <2>8
    <3>3. CASE \E k \in 1 .. Len(sent) : sent[k].id = script[i].id BY <1>3, <2>1, <3>3
    <3>4. CASE script[i].id \in toldCancelled BY <2>1, <3>4
    <3> QED BY <2>8, <3>1, <3>2, <3>3, <3>4 DEF Settled
  <2> QED BY <2>6, <2>7, <2>8
<1>6. shutdown = "none" =>
        /\ Count(Null, {"ParseError"}) = Kind("garbage")
        /\ Count(Null, {"InvalidRequest"}) = Kind("bad")
  BY <1>1 DEF CountInv
<1> QED BY <1>4, <1>5, <1>6 DEF EachLineIsAnswered

(* Every line of a client has its one reply, and every run its reap.        *)
THEOREM WireStaysSound == ServerSpec => []WireIsSound
<1>1. WireInv => WireIsSound BY AnsweredOnce DEF WireInv, JobsInv, WireIsSound
<1> QED BY <1>1, WireInvariance, PTL

=============================================================================
